----------------------------- MODULE DapTransfer -----------------------------
(***************************************************************************)
(* DAP_Transfer and DAP_TransferBlock of orbtrace/debug/cmsis_dap.py: a      *)
(* packet of requests becomes accesses to the target, retried while it says  *)
(* WAIT, and the words read go back to the host.                            *)
(*                                                                         *)
(* A target posts reads (AP reads in SWD, all reads in JTAG): an access       *)
(* returns the value of the one before, so that the first word of a run is   *)
(* dropped and the last one collected from RDBUFF.  A block does not collect *)
(* it: the next block begins with it.                                       *)
(*                                                                         *)
(* An access is one step here, go and done are in CmsisDap; so are the bytes *)
(* of the response.  The stream of a packet is a sequence of requests and    *)
(* data words, cut short if the packet is foreshortened.  The target is the  *)
(* environment: it answers as it likes, and the n-th value read of it is n,  *)
(* counted round SerialMod.  owed, log, tries and before are history.        *)
(***************************************************************************)
EXTENDS Naturals, Sequences, SequencesExt

CONSTANTS
  Calls,     \* what the host sends
  Modes,       \* of isJTAG
  WaitRetries, \* of waitRetry
  MatchRetry,  \* the value of matchRetry
  RetryMod,    \* where a count of retries wraps (2^16)
  SerialMod,
  OtherCalls   \* whether calls of other kinds come between two blocks

VARIABLES
  st,            \* the state of decoder with tfr_txb or tfB_txb
  isJTAG, waitRetry,
  packet, left,  \* the packet worked on, and its stream
  tfrReq, tfrData, PendPayload, readAgain, readDelay, readIgnore,
  readBDelay, readBIgnore,
  count,         \* transferTCount or transferBCount: requests still to do
  retries,       \* retries or Bretries
  matchretries,
  done,          \* the count in the response
  ack, dread,    \* of the last access
  words,         \* the store, as far as its address
  posted, serial,
  owed,          \* the values read of the target and not yet sent, oldest first
  log,           \* the accesses made for this packet
  tries          \* the attempts at the access in progress

conf == <<isJTAG, waitRetry>>
request == <<tfrReq, tfrData, PendPayload, readAgain, readDelay, readIgnore>>
block == <<readBDelay, readBIgnore>>
budget == <<retries, matchretries>>
target == <<posted, serial, owed, log>>
callVars == <<st, conf, packet, left, request, block, count, budget, done, ack, dread, words,
          target, tries>>

NONE == SerialMod

\* A request: of which port and register, to read or write, and whether the value
\* read is to be matched.
Rdbuff == [ap |-> FALSE, reg |-> "RDBUFF", rnw |-> TRUE, match |-> FALSE]

\* The requests of a host; one to read RDBUFF itself is not among them.
HostRequests == [ap : BOOLEAN, reg : STRING, rnw : BOOLEAN, match : BOOLEAN] \ {Rdbuff}

\* Whether a word comes with a request, to write or to match.
HasWord(r) == ~r.rnw \/ r.match

\* The stream of a transfer has the requests one behind the other, each with its word if
\* it has one, and may end early; place[i] is where the i-th ends.
Streams(p, place) ==
  /\ place[0] = 0
  /\ \A i \in 1 .. p.n :
       LET a == p.accesses[i]
           b == place[i - 1]
       IN  /\ place[i] = b + IF HasWord(a.req) THEN 2 ELSE 1
           /\ b < Len(p.stream) => p.stream[b + 1] = a.req
           /\ HasWord(a.req) /\ b + 1 < Len(p.stream) =>
                /\ p.stream[b + 2].data \in Nat
                /\ ~a.req.rnw => p.stream[b + 2].data = a.data

IsTransfer(p) ==
  /\ p.n \in Nat /\ Len(p.accesses) = p.n
  /\ p.accesses \in Seq([req : HostRequests, data : Nat])
  /\ \A i \in 1 .. p.n : p.accesses[i].req.rnw => p.accesses[i].data = 0
  /\ \E place \in [0 .. p.n -> 0 .. 2 * p.n] : Streams(p, place)

\* The stream of a block has the words to write.
IsBlock(p) ==
  /\ p.n \in 0 .. RetryMod - 1 /\ p.req \in HostRequests /\ ~p.req.match /\ Len(p.accesses) = p.n
  /\ p.accesses \in Seq([req : {p.req}, data : IF p.req.rnw THEN {0} ELSE Nat])
  /\ Len(p.stream) <= p.n /\ \A i \in DOMAIN p.stream : p.stream[i].data = p.accesses[i].data

ASSUME CallAssumption ==
  /\ Modes \subseteq BOOLEAN /\ {RetryMod, SerialMod} \subseteq Nat \ {0}
  /\ WaitRetries \subseteq 0 .. RetryMod - 1
  /\ \A p \in Calls :
       /\ p.call \in {"TRANSFER", "BLOCK", "OTHER"} /\ (p.call = "OTHER" => OtherCalls)
       /\ p.stream \in Seq(HostRequests \cup [data : Nat])
       /\ p.call = "TRANSFER" => IsTransfer(p)
       /\ p.call = "BLOCK" => IsBlock(p)

\* Whether the answer to a request comes with the access after it.
Posts(r) == r.rnw /\ (isJTAG \/ r.ap)

CallInit ==
  /\ st = "READY" /\ isJTAG \in Modes /\ waitRetry \in WaitRetries
  /\ packet = [call |-> "none"] /\ left = << >>
  /\ tfrReq = Rdbuff /\ tfrData = 0 /\ PendPayload = Rdbuff
  /\ readAgain = FALSE /\ readDelay = FALSE /\ readIgnore = FALSE
  /\ readBDelay = FALSE /\ readBIgnore = FALSE
  /\ count = 0 /\ retries = 0 /\ matchretries = 0 /\ done = 0 /\ ack = "OK" /\ dread = NONE /\ words = << >>
  /\ posted = NONE /\ serial = 0 /\ owed = << >> /\ log = << >> /\ tries = 0

-----------------------------------------------------------------------------
\* The answer is with the host.  Registers that every call writes before it reads
\* them are forgotten, and values nobody waits for.
TargetAnswers ==
  /\ st \in {"IDLE", "ERROR"}
  /\ st' = "READY"
  /\ packet' = IF packet.call = "BLOCK" /\ readBDelay
               THEN [call |-> "BLOCK", req |-> packet.req, good |-> packet.n # 0 /\ ack = "OK"]
               ELSE [call |-> "none"]
  /\ left' = << >> /\ words' = << >> /\ log' = << >> /\ tries' = 0
  /\ tfrReq' = Rdbuff /\ tfrData' = 0 /\ PendPayload' = Rdbuff
  /\ readAgain' = FALSE /\ readDelay' = FALSE /\ readIgnore' = FALSE /\ readBIgnore' = FALSE
  /\ count' = 0 /\ retries' = 0 /\ matchretries' = 0 /\ done' = 0 /\ ack' = "OK" /\ dread' = NONE
  /\ IF readBDelay
     THEN owed' = SubSeq(owed, Len(words) + 1, Len(owed)) /\ UNCHANGED <<posted, serial>>
     ELSE owed' = << >> /\ posted' = NONE /\ serial' = 0
  /\ UNCHANGED <<conf, readBDelay>>

\* A block of posted reads that follows another goes on with its register, and the
\* other had read something and succeeded.
Resumes(p) ==
  p.call = "BLOCK" /\ readBDelay /\ Posts(p.req) =>
    packet.call = "BLOCK" /\ p.req = packet.req /\ packet.good

HostCalls ==
  /\ st = "READY"
  /\ \E p \in Calls :
       /\ OtherCalls \/ Resumes(p)
       /\ packet' = p /\ left' = p.stream /\ st' = p.call
  /\ UNCHANGED <<conf, request, block, count, budget, done, ack, dread, words, target, tries>>

\* A call of another kind: the connection is made anew, or the like, and the
\* target forgets what it had posted.
Other ==
  /\ st = "OTHER"
  /\ st' = "IDLE" /\ posted' = NONE /\ owed' = << >>
  /\ UNCHANGED <<conf, packet, left, request, block, count, budget, done, ack, dread, words, serial,
                 log, tries>>

\* DAP_Transfer begins.
TransferSetup ==
  /\ st = "TRANSFER"
  /\ count' = packet.n /\ done' = 0 /\ words' = << >> /\ ack' = "OK"
  /\ readAgain' = FALSE /\ readDelay' = FALSE /\ readIgnore' = FALSE /\ readBDelay' = FALSE
  /\ owed' = << >>
  /\ st' = IF packet.n = 0 THEN "IDLE" ELSE "NEXT"
  /\ UNCHANGED <<conf, packet, left, tfrReq, tfrData, PendPayload, readBIgnore, budget, dread,
                 posted, serial, log, tries>>

\* Mutant of Interrupts: only a write makes the posted value be collected.
InterruptsWrite(r) == readDelay /\ ~r.rnw

\* A request that would not bring the posted value with it.
Interrupts(r) == readDelay /\ ~Posts(r)

\* A request was put off until the posted value was collected.
Again == readAgain

\* The next request, or the posted value first, or the end.
NextRequest ==
  /\ st = "NEXT"
  /\ retries' = waitRetry /\ matchretries' = MatchRetry /\ tries' = 0
  /\ \/ /\ readAgain
        /\ readAgain' = FALSE /\ tfrReq' = PendPayload /\ st' = "KIND"
        /\ UNCHANGED <<left, count, done, readDelay, PendPayload>>
     \/ /\ ~Again /\ count = 0
        /\ IF readDelay THEN tfrReq' = Rdbuff /\ readDelay' = FALSE /\ st' = "ISSUE"
           ELSE st' = "IDLE" /\ UNCHANGED <<tfrReq, readDelay>>
        /\ UNCHANGED <<left, count, done, readAgain, PendPayload>>
     \/ /\ ~Again /\ count # 0 /\ left = << >>
        /\ st' = "ERROR"
        /\ UNCHANGED <<left, count, done, tfrReq, readAgain, readDelay, PendPayload>>
     \/ /\ ~Again /\ count # 0 /\ left # << >>
        /\ left' = Tail(left) /\ count' = count - 1 /\ done' = done + 1
        /\ IF Interrupts(Head(left))
           THEN /\ tfrReq' = Rdbuff /\ readDelay' = FALSE /\ readAgain' = TRUE
                /\ PendPayload' = Head(left) /\ st' = "ISSUE"
           ELSE tfrReq' = Head(left) /\ st' = "KIND" /\ UNCHANGED <<readDelay, readAgain, PendPayload>>
  /\ UNCHANGED <<conf, packet, tfrData, readIgnore, block, ack, dread, words, target>>

\* Whether this request begins a run of posted reads.
Kind ==
  /\ st = "KIND"
  /\ readDelay' = Posts(tfrReq)
  /\ readIgnore' = (~readDelay /\ Posts(tfrReq))
  /\ st' = IF HasWord(tfrReq) THEN "DATA" ELSE "ISSUE"
  /\ UNCHANGED <<conf, packet, left, tfrReq, tfrData, PendPayload, readAgain, block, count, budget,
                 done, ack, dread, words, target, tries>>

\* The word to write, or to match.
Data ==
  /\ st \in {"DATA", "BLOCK_DATA"}
  /\ IF left = << >> THEN st' = "ERROR" /\ UNCHANGED <<tfrData, left>>
     ELSE /\ tfrData' = Head(left).data /\ left' = Tail(left)
          /\ st' = IF st = "DATA" THEN "ISSUE" ELSE "BLOCK_ISSUE"
  /\ UNCHANGED <<conf, packet, tfrReq, PendPayload, readAgain, readDelay, readIgnore, block, count,
                 budget, done, ack, dread, words, target, tries>>

-----------------------------------------------------------------------------
\* What the target does with an access it accepts: a read brings its own value,
\* or the one before's.
Accept(r) ==
  /\ serial' = IF r.rnw /\ r # Rdbuff THEN (serial + 1) % SerialMod ELSE serial
  /\ dread' = IF r = Rdbuff \/ Posts(r) THEN posted ELSE IF r.rnw THEN serial ELSE dread
  /\ posted' = IF r = Rdbuff \/ ~r.rnw THEN NONE ELSE IF Posts(r) THEN serial ELSE posted
  /\ owed' = IF r.rnw /\ r # Rdbuff /\ ~r.match THEN Append(owed, serial) ELSE owed
  /\ log' = IF r = Rdbuff \/ (r.match /\ log # << >> /\ Last(log).req = r) THEN log
            ELSE Append(log, [req |-> r, data |-> IF r.rnw THEN 0 ELSE tfrData])

Access(r) ==
  \/ ack' = "OK" /\ Accept(r)
  \/ ack' = "PERR" /\ r.rnw /\ Accept(r)
  \/ ack' \in {"WAIT", "ERROR"} /\ UNCHANGED <<target, dread>>

\* Attempts are counted up to one more than there may be; beyond that the count goes
\* to and fro.
Tried == tries' = (IF tries > RetryMod THEN tries - 1 ELSE tries + 1)

\* One retry less.
Spent == (retries + RetryMod - 1) % RetryMod

\* After WAIT the access is made again, until the count has run out.
RetryLeft == retries # 0

\* One attempt of a transfer's access.
Issue ==
  /\ st = "ISSUE"
  /\ Access(tfrReq) /\ Tried
  /\ retries' = IF ack' = "WAIT" THEN Spent ELSE retries
  /\ st' = CASE ack' = "WAIT" -> IF RetryLeft THEN "ISSUE" ELSE "IDLE"
             [] ack' = "OK" -> "SETTLE"
             [] OTHER -> "IDLE"
  /\ UNCHANGED <<conf, packet, left, request, block, count, matchretries, done, words>>

\* A good answer is kept, dropped, or matched: a match is made again whatever came
\* of it, unless it failed and the attempts are used up.
Settle ==
  /\ st = "SETTLE"
  /\ IF tfrReq.match
     THEN /\ \E matches \in BOOLEAN :
               st' = IF ~matches /\ matchretries = 0 THEN "IDLE" ELSE "ISSUE"
          /\ matchretries' = (matchretries + RetryMod - 1) % RetryMod
          /\ UNCHANGED <<words, readIgnore>>
     ELSE /\ readIgnore' = FALSE
          /\ IF ~readIgnore /\ tfrReq.rnw THEN words' = Append(words, dread) ELSE UNCHANGED words
          /\ st' = "NEXT" /\ UNCHANGED matchretries
  /\ UNCHANGED <<conf, packet, left, tfrReq, tfrData, PendPayload, readAgain, readDelay, block, count,
                 retries, done, ack, dread, target, tries>>

-----------------------------------------------------------------------------
\* The first word is dropped unless the block goes on from one before.
BlockIgnores(r) == ~readBDelay /\ Posts(r)

\* DAP_TransferBlock begins.
BlockSetup ==
  /\ st = "BLOCK"
  /\ readBDelay' = Posts(packet.req) /\ readBIgnore' = BlockIgnores(packet.req)
  /\ tfrReq' = packet.req
  /\ count' = IF packet.n # 0 THEN packet.n - 1 ELSE count
  /\ done' = 0 /\ words' = << >> /\ retries' = waitRetry /\ ack' = "OK"
  /\ owed' = IF readBDelay /\ Posts(packet.req) THEN owed ELSE << >>
  /\ st' = IF packet.n = 0 THEN "IDLE" ELSE IF packet.req.rnw THEN "BLOCK_ISSUE" ELSE "BLOCK_DATA"
  /\ UNCHANGED <<conf, packet, left, tfrData, PendPayload, readAgain, readDelay, readIgnore, matchretries,
                 dread, posted, serial, log, tries>>

\* One attempt of a block's access, and what follows from a good answer.
BlockIssue ==
  /\ st = "BLOCK_ISSUE"
  /\ Access(tfrReq) /\ IF ack' = "OK" THEN tries' = 0 ELSE Tried
  /\ LET more == count # 0 \/ readBIgnore
     IN  CASE ack' = "WAIT" ->
                /\ retries' = Spent
                /\ st' = IF Spent # 0 THEN "BLOCK_ISSUE" ELSE "IDLE"
                /\ UNCHANGED <<count, done, words, readBIgnore>>
           [] ack' = "OK" ->
                /\ readBIgnore' = FALSE
                /\ IF readBIgnore THEN UNCHANGED <<count, done, words>>
                   ELSE /\ count' = (count + RetryMod - 1) % RetryMod /\ done' = done + 1
                        /\ IF tfrReq.rnw THEN words' = Append(words, dread') ELSE UNCHANGED words
                /\ retries' = IF more THEN waitRetry ELSE Spent
                /\ st' = IF ~more THEN "IDLE" ELSE IF tfrReq.rnw THEN "BLOCK_ISSUE" ELSE "BLOCK_DATA"
           [] OTHER ->
                st' = "IDLE" /\ retries' = Spent /\ UNCHANGED <<count, done, words, readBIgnore>>
  /\ UNCHANGED <<conf, packet, left, request, readBDelay, matchretries>>

Step ==
  \/ Other \/ TransferSetup \/ NextRequest \/ Kind \/ Data \/ Issue \/ Settle
  \/ BlockSetup \/ BlockIssue

CallNext == TargetAnswers \/ HostCalls \/ Step

CallSpec == CallInit /\ [][CallNext]_callVars

\* The clock runs and the target answers.
CallFairSpec == CallSpec /\ WF_callVars(Step)
-----------------------------------------------------------------------------
CallOver == st \in {"IDLE", "ERROR"} /\ packet.call \in {"TRANSFER", "BLOCK"}

Good == CallOver /\ st = "IDLE" /\ ack = "OK"

\* The words the host gets are the values its requests read, in order, none left
\* out, twice or of another request, although each comes with a later access, and
\* in a run of blocks with an access of the next block.  If the call fails they
\* are the first of them.
WordsRight ==
  CallOver =>
    /\ IsPrefix(words, owed)
    /\ Good /\ packet.call = "TRANSFER" => words = owed
    /\ Good /\ packet.call = "BLOCK" /\ packet.req.rnw =>
         /\ Len(words) = packet.n
         /\ packet.n # 0 => Len(owed) = packet.n + IF Posts(packet.req) THEN 1 ELSE 0

\* Each request of a packet is made on the target once, in order and with its own
\* word, whatever has to be collected in between and however often the target says
\* WAIT; all of them if the call succeeds.  A block that starts a run of posted
\* reads makes one more.
RequestsOnce ==
  CallOver =>
    LET extra == IF packet.call = "BLOCK" /\ Posts(packet.req)
                 THEN <<[req |-> packet.req, data |-> 0]>> ELSE << >>
    IN  /\ IsPrefix(log, packet.accesses \o extra)
        /\ Good => IsPrefix(packet.accesses, log) /\ done = packet.n

\* A transfer tries an access once and waitRetry times more.  A block does not count
\* the first try, so that it tries waitRetry times, and for 0 until the count wraps.
TriesBounded ==
  tries <= CASE packet.call = "TRANSFER" -> waitRetry + 1
             [] packet.call = "BLOCK" /\ waitRetry = 0 -> RetryMod
             [] OTHER -> waitRetry

\* A call makes each of its requests on the target once, in order and with its own
\* word, whatever is collected in between and however often the target says WAIT, it
\* tries no more often than it may, and the words the host gets are the values its
\* requests read, although each comes with a later access.
CallRight == RequestsOnce /\ WordsRight /\ TriesBounded
=============================================================================
