------------------------------ MODULE DapProofs ------------------------------
(***************************************************************************)
(* Proof about DapTransfer: a call makes each of its requests on the target  *)
(* once, in order, tries no more often than it may, and what the host gets   *)
(* is what its requests read (CallIsRight), for packets of any length, any   *)
(* count of retries, and the target answering as it likes.                   *)
(*                                                                         *)
(* The invariant CallInv says, at every state of the decoder, which of the   *)
(* requests have been made (ProgressInv), which values read are not sent     *)
(* yet, so that owed is the words with at most the posted value and the one  *)
(* just come behind them (ValuesInv), and what the attempts made and those    *)
(* left add up to (AttemptsInv).  BlockInv says all three of a block.        *)
(***************************************************************************)
EXTENDS DapTransfer, ModFacts, SequenceTheorems, TLAPS

\* What the theorem asks of the host: no request is to be matched, and none but
\* transfers come between two blocks.
Plainly == ~OtherCalls /\ \A p \in Calls : p.call = "TRANSFER" => \A i \in 1 .. p.n : ~p.accesses[i].req.match

Values == 0 .. SerialMod
Accs == [req : HostRequests, data : Nat]
Items == HostRequests \cup [data : Nat]
Place(p) == CHOOSE place \in [0 .. p.n -> 0 .. 2 * p.n] : Streams(p, place)

CallTypes ==
  /\ isJTAG \in BOOLEAN /\ waitRetry \in 0 .. RetryMod - 1
  /\ readAgain \in BOOLEAN /\ readDelay \in BOOLEAN /\ readIgnore \in BOOLEAN
  /\ readBDelay \in BOOLEAN /\ readBIgnore \in BOOLEAN
  /\ count \in Nat /\ done \in Nat /\ retries \in 0 .. RetryMod - 1 /\ tries \in Nat
  /\ dread \in Values /\ posted \in Values /\ serial \in 0 .. SerialMod - 1
  /\ words \in Seq(Values) /\ owed \in Seq(Values) /\ log \in Seq(Accs) /\ left \in Seq(Items)

\* The k-th access of a packet, and that the accesses l are the first m there are to make.
Made(p, k) == IF k <= p.n THEN p.accesses[k] ELSE [req |-> p.req, data |-> 0]
AreMade(l, p, m) == Len(l) = m /\ \A k \in 1 .. m : l[k] = Made(p, k)
LogHas(m) == AreMade(log, packet, m)

\* l is all of s but its first c.
IsRest(l, s, c) ==
  /\ Len(l) = IF c < Len(s) THEN Len(s) - c ELSE 0
  /\ \A k \in 1 .. Len(l) : l[k] = s[c + k]
LeftFrom(c) == IsRest(left, packet.stream, c)

CalledInv == st # "OTHER" /\ (st # "READY" => packet \in Calls)

\* Between two calls: what a block has left is one value if it succeeded.
ReadyInv ==
  st = "READY" =>
    /\ packet.call \in {"none", "BLOCK"} /\ words = << >> /\ log = << >> /\ tries = 0
    /\ packet.call = "BLOCK" /\ packet.good => owed = <<posted>>

BeginInv ==
  st \in {"TRANSFER", "BLOCK"} =>
    /\ packet.call = st /\ left = packet.stream /\ words = << >> /\ log = << >> /\ tries = 0
    /\ st = "BLOCK" /\ readBDelay /\ Posts(packet.req) => owed = <<posted>>

\* A request of the packet, not the posted value, is worked on.
Own == st \in {"KIND", "DATA"} \/ (st \in {"ISSUE", "SETTLE"} /\ tfrReq # Rdbuff)
Collecting == st \in {"ISSUE", "SETTLE"} /\ tfrReq = Rdbuff
Working == st \in {"NEXT", "KIND", "DATA", "ISSUE", "SETTLE"}

\* The requests taken from the stream, those made, and what of the stream is left.
ProgressInv ==
  Working =>
    LET unmade == readAgain \/ (Own /\ st # "SETTLE")
        short == readAgain \/ st \in {"KIND", "DATA"}
    IN  /\ packet.call = "TRANSFER" /\ count + done = packet.n
        /\ unmade \/ Own => done >= 1
        /\ LogHas(IF unmade THEN done - 1 ELSE done)
        /\ LeftFrom(IF short THEN Place(packet)[done - 1] + 1 ELSE Place(packet)[done])
        /\ Own => tfrReq = packet.accesses[done].req
        /\ readAgain => PendPayload = packet.accesses[done].req /\ ~Own
        /\ st = "DATA" => ~tfrReq.rnw
        /\ st = "ISSUE" /\ Own /\ ~tfrReq.rnw => tfrData = packet.accesses[done].data
        /\ st \in {"NEXT", "SETTLE"} => ack = "OK"

\* The values read are the words sent, and the one posted, and the one that has just come.
ValuesInv ==
  Working =>
    /\ st \in {"NEXT", "KIND"} \/ Collecting => ~readIgnore
    /\ (st = "NEXT" /\ readAgain) \/ Collecting => ~readDelay
    /\ st = "KIND" /\ readDelay => Posts(tfrReq)
    /\ Own /\ st # "KIND" => readDelay = Posts(tfrReq) /\ (readIgnore => Posts(tfrReq))
    /\ owed = CASE st \in {"NEXT", "KIND"} -> IF readDelay THEN Append(words, posted) ELSE words
                [] st \in {"DATA", "ISSUE"} /\ Own -> IF Posts(tfrReq) /\ ~readIgnore THEN Append(words, posted) ELSE words
                [] st = "ISSUE" /\ ~Own -> Append(words, posted)
                [] st = "SETTLE" /\ ~Own -> Append(words, dread)
                [] OTHER -> IF ~tfrReq.rnw THEN words
                            ELSE IF ~Posts(tfrReq) THEN Append(words, dread)
                            ELSE IF readIgnore THEN Append(words, posted)
                            ELSE Append(Append(words, dread), posted)

AttemptsInv ==
  /\ TriesBounded
  /\ st \in {"KIND", "DATA"} => tries = 0 /\ retries = waitRetry
  /\ st = "ISSUE" => tries + retries = waitRetry

BlockInv ==
  st \in {"BLOCK_DATA", "BLOCK_ISSUE"} =>
    /\ packet.call = "BLOCK" /\ done < packet.n /\ count = packet.n - 1 - done
    /\ tfrReq = packet.req /\ readBDelay = Posts(packet.req)
    /\ readBIgnore => Posts(packet.req) /\ done = 0 /\ owed = << >> /\ LogHas(0)
    /\ ~readBIgnore /\ Posts(packet.req) => owed = Append(words, posted) /\ (LogHas(done) \/ LogHas(done + 1))
    /\ ~Posts(packet.req) => owed = words /\ LogHas(done)
    /\ Len(words) = IF packet.req.rnw THEN done ELSE 0
    /\ st = "BLOCK_DATA" => ~packet.req.rnw /\ LeftFrom(done)
    /\ st = "BLOCK_ISSUE" /\ ~packet.req.rnw => LeftFrom(done + 1) /\ tfrData = packet.accesses[done + 1].data
    /\ st = "BLOCK_DATA" => tries = 0
    /\ IF waitRetry = 0 THEN tries < RetryMod /\ retries = (IF tries = 0 THEN 0 ELSE RetryMod - tries)
       ELSE tries < waitRetry /\ retries = waitRetry - tries

\* When a call is over the accesses made are the first of it, and all if it succeeded.  A
\* block of posted reads that succeeded has one value more than it has sent.
OverInv ==
  st \in {"IDLE", "ERROR"} =>
    /\ packet.call \in {"TRANSFER", "BLOCK"}
    /\ LogHas(Len(log))
    /\ Len(log) <= packet.n + IF packet.call = "BLOCK" /\ Posts(packet.req) THEN 1 ELSE 0
    /\ st = "IDLE" /\ ack = "OK" => done = packet.n /\ Len(log) >= packet.n
    /\ packet.call = "BLOCK" /\ readBDelay /\ packet.n # 0 /\ ack = "OK" => owed = Append(words, posted)
    /\ WordsRight

CallInv ==
  /\ CallTypes /\ CalledInv /\ ReadyInv /\ BeginInv /\ ProgressInv /\ ValuesInv /\ AttemptsInv /\ BlockInv
  /\ OverInv

-----------------------------------------------------------------------------
LEMMA Modulos ==
  /\ RetryMod \in Nat /\ RetryMod >= 1
  /\ SerialMod \in Nat /\ SerialMod >= 1
BY CallAssumption

\* A prefix, element by element.
LEMMA PrefixBy ==
  ASSUME NEW S, NEW s \in Seq(S), NEW t \in Seq(S), Len(s) <= Len(t),
         \A i \in 1 .. Len(s) : s[i] = t[i]
  PROVE  IsPrefix(s, t)
<1>1. SubSeq(s, 1, Len(s)) = [i \in 1 .. Len(s) |-> s[i]]
  OBVIOUS
<1>2. SubSeq(t, 1, Len(s)) = [i \in 1 .. Len(s) |-> t[i]]
  OBVIOUS
<1> QED
  BY <1>1, <1>2 DEF IsPrefix

LEMMA PrefixAppend ==
  ASSUME NEW S, NEW w \in Seq(S), NEW x \in S, NEW y \in S
  PROVE  /\ IsPrefix(w, w)
         /\ IsPrefix(w, Append(w, x))
         /\ IsPrefix(w, Append(Append(w, x), y))
<1>1. IsPrefix(w, w)
  BY PrefixBy
<1> DEFINE u == Append(w, x)
           v == Append(u, y)
<1>2. u \in Seq(S) /\ Len(u) = Len(w) + 1 /\ \A i \in 1 .. Len(w) : u[i] = w[i]
  OBVIOUS
<1>3. v \in Seq(S) /\ Len(v) = Len(u) + 1 /\ \A i \in 1 .. Len(u) : v[i] = u[i]
  BY <1>2, AppendProperties
<1> HIDE DEF u, v
<1>4. Len(w) \in Nat
  BY LenProperties
<1>5. IsPrefix(w, u)
  <2>1. Len(w) <= Len(u)
    BY <1>2, <1>4
  <2> QED
    BY <2>1, <1>2, PrefixBy
<1>6. IsPrefix(w, v)
  <2>1. Len(w) <= Len(v)
    BY <1>2, <1>3, <1>4
  <2>2. \A i \in 1 .. Len(w) : v[i] = w[i]
    BY <1>2, <1>3, <1>4
  <2> QED
    BY <2>1, <2>2, <1>3, PrefixBy
<1> QED
  BY <1>1, <1>5, <1>6 DEF u, v

\* One retry less, counted round.
LEMMA SpentIs ==
  ASSUME NEW r \in 0 .. RetryMod - 1
  PROVE  (r + RetryMod - 1) % RetryMod = IF r = 0 THEN RetryMod - 1 ELSE r - 1
<1>1. RetryMod \in Nat /\ RetryMod >= 1
  BY Modulos
<1>2. CASE r = 0
  <2> DEFINE x == r + RetryMod - 1
  <2>1. x \in Int /\ 0 <= x /\ x < RetryMod /\ x = RetryMod - 1
    BY <1>1, <1>2
  <2>2. x % RetryMod = x
    <3> HIDE DEF x
    <3> QED
      BY <2>1, <1>1, ModNear
  <2> QED
    BY <2>1, <2>2, <1>2
<1>3. CASE r # 0
  <2> DEFINE x == r + RetryMod - 1
  <2>1. x \in Int /\ RetryMod <= x /\ x < RetryMod + RetryMod /\ x - RetryMod = r - 1
    BY <1>1, <1>3
  <2>2. x % RetryMod = x - RetryMod
    <3> HIDE DEF x
    <3> QED
      BY <2>1, <1>1, ModNear
  <2> QED
    BY <2>1, <2>2, <1>3
<1> QED
  BY <1>2, <1>3

-----------------------------------------------------------------------------
\* What is assumed of a call.
LEMMA CallIs ==
  ASSUME Plainly, NEW p \in Calls
  PROVE  /\ p.call \in {"TRANSFER", "BLOCK"}
         /\ p.stream \in Seq(Items) /\ p.accesses \in Seq(Accs)
         /\ p.n \in Nat /\ Len(p.accesses) = p.n
<1>1. /\ p.call \in {"TRANSFER", "BLOCK"} /\ p.stream \in Seq(Items)
      /\ p.call = "TRANSFER" => IsTransfer(p)
      /\ p.call = "BLOCK" => IsBlock(p)
  BY CallAssumption DEF Plainly, Items
<1>2. CASE p.call = "TRANSFER"
  BY <1>1, <1>2 DEF IsTransfer, Accs
<1>3. CASE p.call = "BLOCK"
  <2>1. p.req \in HostRequests /\ p.n \in Nat /\ Len(p.accesses) = p.n
    BY <1>1, <1>3, Modulos DEF IsBlock
  <2> DEFINE B == [req : {p.req}, data : IF p.req.rnw THEN {0} ELSE Nat]
  <2>2. p.accesses \in Seq(B)
    BY <1>1, <1>3 DEF IsBlock
  <2>3. B \subseteq Accs
    BY <2>1 DEF Accs
  <2>4. p.accesses \in Seq(Accs)
    <3> HIDE DEF B
    <3> QED
      BY <2>2, <2>3
  <2> QED
    BY <1>1, <2>1, <2>4
<1> QED
  BY <1>1, <1>2, <1>3

LEMMA AccessIs ==
  ASSUME NEW a \in Accs
  PROVE  a.req \in HostRequests /\ a.data \in Nat /\ a = [req |-> a.req, data |-> a.data]
BY DEF Accs

LEMMA RequestIs ==
  ASSUME NEW r \in HostRequests
  PROVE  r # Rdbuff /\ r.rnw \in BOOLEAN /\ r.ap \in BOOLEAN /\ r.match \in BOOLEAN
BY DEF HostRequests

\* A request of a transfer, and where in the stream it is.
LEMMA TransferRequest ==
  ASSUME Plainly, NEW p \in Calls, p.call = "TRANSFER", NEW i \in 1 .. p.n
  PROVE  LET a == p.accesses[i]
             b == Place(p)[i - 1]
         IN  /\ a \in Accs /\ a.req \in HostRequests /\ ~a.req.match /\ a.data \in Nat
             /\ a = [req |-> a.req, data |-> IF a.req.rnw THEN 0 ELSE a.data]
             /\ b \in Nat /\ Place(p)[i] = b + IF a.req.rnw THEN 1 ELSE 2
             /\ b < Len(p.stream) => p.stream[b + 1] = a.req
             /\ ~a.req.rnw /\ b + 1 < Len(p.stream) => p.stream[b + 2].data = a.data
<1> DEFINE a == p.accesses[i]
           b == Place(p)[i - 1]
<1>1. IsTransfer(p) /\ p.n \in Nat /\ p.accesses \in Seq(Accs) /\ Len(p.accesses) = p.n
  BY CallAssumption, CallIs
<1>2. Place(p) \in [0 .. p.n -> 0 .. 2 * p.n] /\ Streams(p, Place(p))
  <2>1. \E place \in [0 .. p.n -> 0 .. 2 * p.n] : Streams(p, place)
    BY <1>1 DEF IsTransfer
  <2> QED
    BY <2>1 DEF Place
<1>3. a \in Accs
  BY <1>1
<1>4. ~a.req.match
  BY DEF Plainly
<1>5. a.req.rnw => a.data = 0
  BY <1>1 DEF IsTransfer
<1>6. a = [req |-> a.req, data |-> IF a.req.rnw THEN 0 ELSE a.data]
  BY <1>3, <1>5, AccessIs
<1>7. b \in Nat
  BY <1>1, <1>2
<1>8. /\ Place(p)[i] = b + IF HasWord(a.req) THEN 2 ELSE 1
      /\ b < Len(p.stream) => p.stream[b + 1] = a.req
      /\ HasWord(a.req) /\ b + 1 < Len(p.stream) => (~a.req.rnw => p.stream[b + 2].data = a.data)
  BY <1>2 DEF Streams
<1>9. HasWord(a.req) = ~a.req.rnw
  <2>1. a.req \in HostRequests
    BY <1>3, AccessIs
  <2> QED
    BY <1>4, <2>1, RequestIs DEF HasWord
<1> QED
  BY <1>3, <1>4, <1>6, <1>7, <1>8, <1>9, AccessIs

\* The accesses made so far.
LEMMA MadeMore ==
  ASSUME NEW l \in Seq(Accs), NEW p, NEW m \in Nat, AreMade(l, p, m), NEW x \in Accs, x = Made(p, m + 1)
  PROVE  AreMade(Append(l, x), p, m + 1)
<1>1. Len(Append(l, x)) = m + 1
  BY DEF AreMade
<1>2. ASSUME NEW k \in 1 .. m + 1 PROVE Append(l, x)[k] = Made(p, k)
  <2>1. CASE k = m + 1
    BY <2>1 DEF AreMade
  <2>2. CASE k # m + 1
    <3>1. Append(l, x)[k] = l[k]
      BY <2>2 DEF AreMade
    <3> QED
      BY <3>1, <2>2 DEF AreMade
  <2> QED
    BY <2>1, <2>2
<1> QED
  BY <1>1, <1>2 DEF AreMade

LEMMA MadePrefix ==
  ASSUME NEW p, p.n \in Nat, p.accesses \in Seq(Accs), Len(p.accesses) = p.n,
         NEW l \in Seq(Accs), AreMade(l, p, Len(l)), NEW e \in Seq(Accs),
         Len(l) <= p.n \/ (Len(l) = p.n + 1 /\ e = <<[req |-> p.req, data |-> 0]>>)
  PROVE  /\ IsPrefix(l, p.accesses \o e)
         /\ p.n <= Len(l) => IsPrefix(p.accesses, l)
<1> DEFINE t == p.accesses \o e
           extra == [req |-> p.req, data |-> 0]
<1>1. t \in Seq(Accs) /\ Len(t) = p.n + Len(e) /\ \A k \in 1 .. p.n : t[k] = p.accesses[k]
  BY SMTT(30)
<1>2. Len(l) = p.n + 1 => Len(t) = p.n + 1 /\ t[p.n + 1] = extra
  <2> SUFFICES ASSUME Len(l) = p.n + 1 PROVE Len(t) = p.n + 1 /\ t[p.n + 1] = extra
    OBVIOUS
  <2> HIDE DEF extra
  <2>1. e = <<extra>> /\ Len(e) = 1 /\ e[1] = extra
    BY DEF extra
  <2>2. t[p.n + 1] = e[1]
    BY <2>1
  <2> QED
    BY <1>1, <2>1, <2>2
<1>3. Len(l) \in Nat /\ \A k \in 1 .. Len(l) : l[k] = IF k <= p.n THEN p.accesses[k] ELSE extra
  BY DEF AreMade, Made
<1> HIDE DEF t, extra
<1>4. Len(l) <= Len(t)
  BY <1>1, <1>2, LenProperties
<1>5. \A k \in 1 .. Len(l) : l[k] = t[k]
  BY <1>1, <1>2, <1>3
<1>6. IsPrefix(l, t)
  BY <1>1, <1>4, <1>5, PrefixBy
<1>7. p.n <= Len(l) => IsPrefix(p.accesses, l)
  <2> SUFFICES ASSUME p.n <= Len(l) PROVE IsPrefix(p.accesses, l)
    OBVIOUS
  <2>1. \A k \in 1 .. p.n : p.accesses[k] = l[k]
    BY <1>3
  <2> QED
    BY <2>1, PrefixBy
<1> QED
  BY <1>6, <1>7 DEF t

\* The next item of what is left of a stream.
LEMMA RestHead ==
  ASSUME NEW s \in Seq(Items), NEW l \in Seq(Items), NEW c \in Nat, IsRest(l, s, c), l # << >>
  PROVE  c < Len(s) /\ Head(l) = s[c + 1] /\ Tail(l) \in Seq(Items) /\ IsRest(Tail(l), s, c + 1)
<1>1. Len(l) \in Nat \ {0} /\ Len(s) \in Nat
  OBVIOUS
<1>2. c < Len(s) /\ Len(l) = Len(s) - c
  BY <1>1 DEF IsRest
<1>3. Head(l) = s[c + 1]
  BY <1>1 DEF IsRest
<1>4. /\ Tail(l) \in Seq(Items) /\ Len(Tail(l)) = Len(l) - 1
      /\ \A k \in 1 .. Len(l) - 1 : Tail(l)[k] = l[k + 1]
  BY <1>1
<1>5. \A k \in 1 .. Len(l) - 1 : l[k + 1] = s[c + 1 + k]
  <2> SUFFICES ASSUME NEW k \in 1 .. Len(l) - 1 PROVE l[k + 1] = s[c + 1 + k]
    OBVIOUS
  <2>1. k + 1 \in 1 .. Len(l) /\ c + (k + 1) = c + 1 + k
    BY <1>1
  <2> QED
    BY <2>1 DEF IsRest
<1>6. Len(Tail(l)) = IF c + 1 < Len(s) THEN Len(s) - (c + 1) ELSE 0
  <2> DEFINE ll == Len(l)
             ls == Len(s)
             lt == Len(Tail(l))
  <2>1. ll \in Nat \ {0} /\ ls \in Nat /\ c < ls /\ ll = ls - c /\ lt = ll - 1
    BY <1>1, <1>2, <1>4
  <2> HIDE DEF ll, ls, lt
  <2>2. lt = IF c + 1 < ls THEN ls - (c + 1) ELSE 0
    BY <2>1
  <2> QED
    BY <2>2 DEF ll, ls, lt
<1> QED
  BY <1>2, <1>3, <1>4, <1>5, <1>6 DEF IsRest

LEMMA RestAll ==
  ASSUME NEW s \in Seq(Items)
  PROVE  IsRest(s, s, 0)
<1>1. Len(s) \in Nat
  OBVIOUS
<1> QED
  BY <1>1 DEF IsRest

LEMMA PlaceStarts ==
  ASSUME Plainly, NEW p \in Calls, p.call = "TRANSFER"
  PROVE  Place(p)[0] = 0 /\ p.n \in Nat
<1>1. \E place \in [0 .. p.n -> 0 .. 2 * p.n] : Streams(p, place)
  BY CallAssumption DEF IsTransfer
<1>2. Streams(p, Place(p))
  BY <1>1 DEF Place
<1> QED
  BY <1>2, CallIs DEF Streams

LEMMA BlockIs ==
  ASSUME Plainly, NEW p \in Calls, p.call = "BLOCK"
  PROVE  /\ p.n \in 0 .. RetryMod - 1 /\ p.req \in HostRequests /\ ~p.req.match
         /\ \A i \in 1 .. p.n : p.accesses[i].req = p.req /\ (p.req.rnw => p.accesses[i].data = 0)
         /\ \A i \in 1 .. Len(p.stream) : i \in 1 .. p.n /\ p.stream[i].data = p.accesses[i].data
<1>1. IsBlock(p) /\ p.stream \in Seq(Items) /\ p.n \in Nat
  BY CallAssumption, CallIs
<1> DEFINE B == [req : {p.req}, data : IF p.req.rnw THEN {0} ELSE Nat]
<1>2. p.accesses \in Seq(B) /\ Len(p.accesses) = p.n
  BY <1>1 DEF IsBlock
<1>3. ASSUME NEW i \in 1 .. p.n
      PROVE  p.accesses[i].req = p.req /\ (p.req.rnw => p.accesses[i].data = 0)
  <2>1. p.accesses[i] \in B
    <3> HIDE DEF B
    <3> QED
      BY <1>2
  <2> QED
    BY <2>1
<1>4. \A i \in 1 .. Len(p.stream) : i \in 1 .. p.n /\ p.stream[i].data = p.accesses[i].data
  BY <1>1 DEF IsBlock
<1> QED
  BY <1>1, <1>3, <1>4 DEF IsBlock

LEMMA EmptyMade ==
  ASSUME NEW p
  PROVE  AreMade(<< >>, p, 0)
BY DEF AreMade

LEMMA Empties ==
  /\ << >> \in Seq(Values) /\ << >> \in Seq(Accs) /\ << >> \in Seq(Items)
  /\ Len(<< >>) = 0 /\ IsPrefix(<< >>, << >>)
<1>1. << >> \in Seq(Values) /\ Len(<< >>) = 0
  OBVIOUS
<1>2. IsPrefix(<< >>, << >>)
  BY <1>1 DEF IsPrefix
<1> QED
  BY <1>1, <1>2

-----------------------------------------------------------------------------
LEMMA CallInitInv == ASSUME Plainly, CallInit PROVE CallInv
<1>1. RetryMod \in Nat /\ RetryMod >= 1 /\ SerialMod \in Nat /\ SerialMod >= 1
  BY Modulos
<1>2. isJTAG \in BOOLEAN /\ waitRetry \in 0 .. RetryMod - 1
  BY CallAssumption DEF CallInit
<1>3. CallTypes
  <2>1. 0 \in 0 .. RetryMod - 1 /\ 0 \in 0 .. SerialMod - 1 /\ SerialMod \in Values
    BY <1>1 DEF Values
  <2> QED
    BY <1>2, <2>1, Empties DEF CallInit, CallTypes, NONE
<1>4. st = "READY" /\ packet = [call |-> "none"] /\ words = << >> /\ log = << >> /\ tries = 0
  BY DEF CallInit
<1>5. CalledInv /\ ReadyInv /\ BeginInv /\ ProgressInv /\ ValuesInv /\ BlockInv /\ OverInv
  BY <1>4 DEF CalledInv, ReadyInv, BeginInv, ProgressInv, ValuesInv, BlockInv, OverInv, Working
<1>6. AttemptsInv
  BY <1>1, <1>2, <1>4 DEF AttemptsInv, TriesBounded
<1> QED
  BY <1>3, <1>5, <1>6 DEF CallInv

LEMMA HostCallsInv == ASSUME Plainly, CallInv, HostCalls PROVE CallInv'
<1> USE DEF conf, request, block, budget, target
<1>1. PICK p \in Calls : Resumes(p) /\ packet' = p /\ left' = p.stream /\ st' = p.call
  BY DEF HostCalls, Plainly
<1>2. st = "READY" /\ UNCHANGED <<conf, request, block, count, budget, done, ack, dread, words, target, tries>>
  BY DEF HostCalls
<1>3. p.call \in {"TRANSFER", "BLOCK"} /\ p.stream \in Seq(Items)
  BY CallIs
<1>4. CallTypes'
  BY <1>1, <1>2, <1>3 DEF CallInv, CallTypes
<1>5. /\ packet.call \in {"none", "BLOCK"} /\ words = << >> /\ log = << >> /\ tries = 0
      /\ packet.call = "BLOCK" /\ packet.good => owed = <<posted>>
  BY <1>2 DEF CallInv, ReadyInv
<1>6. st' = "BLOCK" /\ readBDelay /\ Posts(p.req) => owed = <<posted>>
  BY <1>1, <1>5 DEF Resumes
<1>7. BeginInv'
  BY <1>1, <1>2, <1>3, <1>5, <1>6 DEF BeginInv, Posts
<1>8. CalledInv' /\ ReadyInv' /\ ProgressInv' /\ ValuesInv' /\ BlockInv' /\ OverInv'
  BY <1>1, <1>3 DEF CalledInv, ReadyInv, ProgressInv, ValuesInv, BlockInv, OverInv, Working
<1>9. AttemptsInv'
  BY <1>1, <1>2, <1>3, <1>4, <1>5, Modulos DEF AttemptsInv, TriesBounded, CallTypes
<1> QED
  BY <1>4, <1>7, <1>8, <1>9 DEF CallInv

\* No call of another kind is made.
LEMMA OtherInv == ASSUME Plainly, CallInv, Other PROVE FALSE
BY DEF Other, CallInv, CalledInv

LEMMA TransferSetupInv == ASSUME Plainly, CallInv, TransferSetup PROVE CallInv'
<1> USE DEF conf, budget
<1>1. /\ st = "TRANSFER" /\ packet \in Calls /\ packet.call = "TRANSFER" /\ left = packet.stream
      /\ log = << >> /\ tries = 0
  BY DEF TransferSetup, CallInv, CalledInv, BeginInv
<1>2. packet.n \in Nat /\ packet.stream \in Seq(Items) /\ Place(packet)[0] = 0
  BY <1>1, CallIs, PlaceStarts
<1>3. /\ count' = packet.n /\ done' = 0 /\ words' = << >> /\ ack' = "OK" /\ owed' = << >>
      /\ readAgain' = FALSE /\ readDelay' = FALSE /\ readIgnore' = FALSE /\ readBDelay' = FALSE
      /\ st' = IF packet.n = 0 THEN "IDLE" ELSE "NEXT"
      /\ UNCHANGED <<conf, packet, left, tfrReq, tfrData, PendPayload, readBIgnore, budget, dread,
                     posted, serial, log, tries>>
  BY DEF TransferSetup
<1>4. CallTypes'
  BY <1>2, <1>3, Empties DEF CallInv, CallTypes
<1>5. CalledInv' /\ ReadyInv' /\ BeginInv' /\ BlockInv'
  BY <1>1, <1>3 DEF CalledInv, ReadyInv, BeginInv, BlockInv
<1>6. AttemptsInv'
  BY <1>1, <1>3, <1>4, Modulos DEF AttemptsInv, TriesBounded, CallTypes
<1>7. LogHas(0)'
  BY <1>1, <1>3, EmptyMade DEF LogHas
<1>8. LeftFrom(0)'
  BY <1>1, <1>2, <1>3, RestAll DEF LeftFrom
<1>9. ProgressInv'
  BY <1>1, <1>2, <1>3, <1>7, <1>8 DEF ProgressInv, Working, Own
<1>10. ValuesInv'
  BY <1>3 DEF ValuesInv, Working, Own, Collecting
<1>11. OverInv'
  BY <1>1, <1>2, <1>3, <1>7, Empties DEF OverInv, WordsRight, CallOver, Good
<1> QED
  BY <1>4, <1>5, <1>6, <1>9, <1>10, <1>11 DEF CallInv

\* While a transfer is worked on.
LEMMA WorkingFacts ==
  ASSUME Plainly, CallInv, Working
  PROVE  /\ packet \in Calls /\ packet.call = "TRANSFER" /\ packet.n \in Nat /\ done \in Nat /\ count \in Nat
         /\ packet.stream \in Seq(Items) /\ left \in Seq(Items) /\ count + done = packet.n
         /\ words \in Seq(Values) /\ owed \in Seq(Values) /\ log \in Seq(Accs)
<1>1. packet \in Calls /\ packet.call = "TRANSFER" /\ count + done = packet.n
  BY DEF CallInv, CalledInv, ProgressInv, Working
<1> QED
  BY <1>1, CallIs DEF CallInv, CallTypes

\* What an end of a transfer asks for.
LEMMA NextRequestInv == ASSUME Plainly, CallInv, NextRequest PROVE CallInv'
<1> USE DEF conf, block, target
<1>1. /\ st = "NEXT" /\ retries' = waitRetry /\ tries' = 0
      /\ UNCHANGED <<conf, packet, tfrData, readIgnore, block, ack, dread, words, target>>
  BY DEF NextRequest
<1>2. /\ packet \in Calls /\ packet.call = "TRANSFER" /\ packet.n \in Nat /\ done \in Nat /\ count \in Nat
      /\ packet.stream \in Seq(Items) /\ left \in Seq(Items) /\ count + done = packet.n
      /\ words \in Seq(Values) /\ owed \in Seq(Values) /\ log \in Seq(Accs)
  BY <1>1, WorkingFacts DEF Working
<1>3. /\ LogHas(IF readAgain THEN done - 1 ELSE done)
      /\ LeftFrom(IF readAgain THEN Place(packet)[done - 1] + 1 ELSE Place(packet)[done])
      /\ readAgain => done >= 1 /\ PendPayload = packet.accesses[done].req
      /\ ack = "OK"
  BY <1>1 DEF CallInv, ProgressInv, Working, Own
<1>4. /\ ~readIgnore /\ (readAgain => ~readDelay)
      /\ owed = IF readDelay THEN Append(words, posted) ELSE words
  BY <1>1 DEF CallInv, ValuesInv, Working, Own, Collecting
<1>5. readAgain \in BOOLEAN /\ readDelay \in BOOLEAN /\ posted \in Values
  BY DEF CallInv, CallTypes
<1>6. /\ ProgressInv' /\ ValuesInv' /\ OverInv' /\ st' \in {"KIND", "ISSUE", "IDLE", "ERROR"}
      /\ readAgain' \in BOOLEAN /\ readDelay' \in BOOLEAN /\ left' \in Seq(Items)
      /\ count' \in Nat /\ done' \in Nat
  <2>1. CASE readAgain
    <3>1. readAgain' = FALSE /\ tfrReq' = PendPayload /\ st' = "KIND" /\ UNCHANGED <<left, count, done, readDelay>>
      BY <2>1 DEF NextRequest, Again
    <3>2. LogHas(done - 1)' /\ LeftFrom(Place(packet)[done - 1] + 1)'
      BY <1>1, <1>3, <2>1, <3>1 DEF LogHas, LeftFrom
    <3>3. ProgressInv'
      BY <1>1, <1>2, <1>3, <2>1, <3>1, <3>2 DEF ProgressInv, Working, Own
    <3>4. ValuesInv'
      BY <1>1, <1>4, <2>1, <3>1 DEF ValuesInv, Working, Own, Collecting
    <3>5. OverInv'
      BY <3>1 DEF OverInv
    <3> QED
      BY <1>2, <1>5, <3>1, <3>3, <3>4, <3>5
  <2>2. CASE ~readAgain /\ count = 0
    <3>1. /\ UNCHANGED <<left, count, done, readAgain>>
          /\ IF readDelay THEN tfrReq' = Rdbuff /\ readDelay' = FALSE /\ st' = "ISSUE"
             ELSE st' = "IDLE" /\ UNCHANGED <<tfrReq, readDelay>>
      BY <2>2 DEF NextRequest, Again
    <3>2. LogHas(done)' /\ LeftFrom(Place(packet)[done])'
      BY <1>1, <1>3, <2>2, <3>1 DEF LogHas, LeftFrom
    <3>3. ProgressInv'
      BY <1>1, <1>2, <1>3, <2>2, <3>1, <3>2 DEF ProgressInv, Working, Own
    <3>4. ValuesInv'
      BY <1>1, <1>4, <2>2, <3>1 DEF ValuesInv, Working, Own, Collecting
    <3>5. OverInv'
      <4> SUFFICES ASSUME ~readDelay PROVE OverInv'
        BY <1>5, <3>1 DEF OverInv
      <4>1. Len(log') = packet'.n /\ done' = packet'.n /\ LogHas(Len(log))'
        BY <1>1, <1>2, <2>2, <3>1, <3>2 DEF LogHas, AreMade
      <4>2. words' = owed' /\ IsPrefix(words', owed')
        BY <1>1, <1>2, <1>4 DEF IsPrefix
      <4> QED
        BY <1>1, <1>2, <3>1, <4>1, <4>2 DEF OverInv, WordsRight, CallOver, Good
    <3> QED
      BY <1>2, <1>5, <3>1, <3>3, <3>4, <3>5
  <2>3. CASE ~readAgain /\ count # 0 /\ left = << >>
    <3>1. st' = "ERROR" /\ UNCHANGED <<left, count, done, readAgain, readDelay>>
      BY <2>3 DEF NextRequest, Again
    <3>2. Len(log') <= packet'.n /\ LogHas(Len(log))'
      BY <1>1, <1>2, <1>3, <2>3, <3>1 DEF LogHas, AreMade
    <3>3. IsPrefix(words', owed')
      BY <1>1, <1>2, <1>4, <1>5, PrefixAppend
    <3>4. OverInv'
      BY <1>1, <1>2, <3>1, <3>2, <3>3 DEF OverInv, WordsRight, CallOver, Good
    <3>5. ProgressInv' /\ ValuesInv'
      BY <3>1 DEF ProgressInv, ValuesInv, Working
    <3> QED
      BY <1>2, <1>5, <3>1, <3>4, <3>5
  <2>4. CASE ~readAgain /\ count # 0 /\ left # << >>
    <3>1. /\ left' = Tail(left) /\ count' = count - 1 /\ done' = done + 1
          /\ IF Interrupts(Head(left))
             THEN /\ tfrReq' = Rdbuff /\ readDelay' = FALSE /\ readAgain' = TRUE
                  /\ PendPayload' = Head(left) /\ st' = "ISSUE"
             ELSE tfrReq' = Head(left) /\ st' = "KIND" /\ UNCHANGED <<readDelay, readAgain, PendPayload>>
      BY <2>4 DEF NextRequest, Again
    <3> DEFINE b == Place(packet)[done]
               r == packet.accesses[done + 1].req
    <3>2. done + 1 \in 1 .. packet.n /\ done + 1 - 1 = done
      BY <1>2, <2>4
    <3>3. /\ r \in HostRequests /\ b \in Nat
          /\ b < Len(packet.stream) => packet.stream[b + 1] = r
      <4> DEFINE i == done + 1
      <4>1. i \in 1 .. packet.n /\ i - 1 = done
        BY <1>2, <3>2
      <4> HIDE DEF i
      <4>2. /\ packet.accesses[i].req \in HostRequests /\ Place(packet)[i - 1] \in Nat
            /\ Place(packet)[i - 1] < Len(packet.stream) =>
                 packet.stream[Place(packet)[i - 1] + 1] = packet.accesses[i].req
        BY <1>2, <4>1, TransferRequest
      <4> QED
        BY <4>1, <4>2 DEF i
    <3>4. /\ Head(left) = r /\ Tail(left) \in Seq(Items) /\ IsRest(Tail(left), packet.stream, b + 1)
      <4>1. IsRest(left, packet.stream, b)
        BY <1>3, <2>4 DEF LeftFrom
      <4> HIDE DEF b, r
      <4> QED
        BY <1>2, <2>4, <3>3, <4>1, RestHead
    <3>5. LogHas(done - 1)' /\ LeftFrom(Place(packet)[done - 1] + 1)'
      <4>1. done' - 1 = done /\ packet' = packet /\ log' = log
        BY <1>1, <1>2, <3>1
      <4>2. LogHas(done - 1)'
        BY <1>3, <2>4, <4>1 DEF LogHas
      <4>3. Place(packet')[done' - 1] = b
        BY <4>1
      <4> QED
        BY <3>1, <3>4, <4>1, <4>2, <4>3 DEF LeftFrom
    <3>6. r # Rdbuff /\ r.rnw \in BOOLEAN
      BY <3>3, RequestIs
    <3>7. count' + done' = packet'.n /\ done' >= 1 /\ count' \in Nat /\ done' \in Nat
      BY <1>1, <1>2, <2>4, <3>1
    <3>8. ProgressInv'
      <4>1. PendPayload' = r \/ tfrReq' = r
        BY <3>1, <3>4
      <4>2. packet'.accesses[done'].req = r
        BY <1>1, <3>1
      <4>3. CASE Interrupts(Head(left))
        BY <1>1, <1>2, <3>1, <3>4, <3>5, <3>7, <4>2, <4>3 DEF ProgressInv, Working, Own
      <4>4. CASE ~Interrupts(Head(left))
        BY <1>1, <1>2, <2>4, <3>1, <3>4, <3>5, <3>7, <4>2, <4>4 DEF ProgressInv, Working, Own
      <4> QED
        BY <4>3, <4>4
    <3>9. ValuesInv'
      <4>1. CASE Interrupts(Head(left))
        BY <1>1, <1>4, <3>1, <4>1 DEF ValuesInv, Working, Own, Collecting, Interrupts
      <4>2. CASE ~Interrupts(Head(left))
        BY <1>1, <1>4, <1>5, <2>4, <3>1, <4>2 DEF ValuesInv, Working, Own, Collecting, Interrupts, Posts
      <4> QED
        BY <4>1, <4>2
    <3>10. OverInv'
      BY <3>1 DEF OverInv
    <3> QED
      BY <1>5, <3>1, <3>4, <3>7, <3>8, <3>9, <3>10
  <2> QED
    BY <2>1, <2>2, <2>3, <2>4
<1>7. CallTypes'
  BY <1>1, <1>6 DEF CallInv, CallTypes
<1>8. CalledInv' /\ ReadyInv' /\ BeginInv' /\ BlockInv'
  BY <1>1, <1>2, <1>6 DEF CalledInv, ReadyInv, BeginInv, BlockInv
<1>9. AttemptsInv'
  <2>1. waitRetry \in Nat
    BY Modulos DEF CallInv, CallTypes
  <2> QED
    BY <1>1, <1>2, <2>1 DEF AttemptsInv, TriesBounded
<1> QED
  BY <1>6, <1>7, <1>8, <1>9 DEF CallInv

LEMMA KindInv == ASSUME Plainly, CallInv, Kind PROVE CallInv'
<1> USE DEF conf, block, budget, target
<1>1. /\ st = "KIND" /\ readDelay' = Posts(tfrReq) /\ readIgnore' = (~readDelay /\ Posts(tfrReq))
      /\ st' = IF ~tfrReq.rnw \/ tfrReq.match THEN "DATA" ELSE "ISSUE"
      /\ UNCHANGED <<conf, packet, left, tfrReq, tfrData, PendPayload, readAgain, block, count, budget,
                     done, ack, dread, words, target, tries>>
  BY DEF Kind, HasWord
<1>2. /\ packet \in Calls /\ packet.call = "TRANSFER" /\ packet.n \in Nat /\ done \in Nat /\ count \in Nat
      /\ packet.stream \in Seq(Items) /\ left \in Seq(Items) /\ count + done = packet.n
      /\ words \in Seq(Values) /\ owed \in Seq(Values) /\ log \in Seq(Accs)
  BY <1>1, WorkingFacts DEF Working
<1>3. /\ done >= 1 /\ LogHas(done - 1) /\ LeftFrom(Place(packet)[done - 1] + 1)
      /\ tfrReq = packet.accesses[done].req /\ ~readAgain
  BY <1>1 DEF CallInv, ProgressInv, Working, Own
<1>4. /\ ~readIgnore /\ (readDelay => Posts(tfrReq))
      /\ owed = IF readDelay THEN Append(words, posted) ELSE words
  BY <1>1 DEF CallInv, ValuesInv, Working, Own, Collecting
<1>5. /\ tfrReq \in HostRequests /\ ~tfrReq.match
      /\ tfrReq.rnw => Place(packet)[done] = Place(packet)[done - 1] + 1
  <2>1. done \in 1 .. packet.n
    BY <1>2, <1>3
  <2> QED
    BY <1>2, <1>3, <2>1, TransferRequest
<1>6. tfrReq # Rdbuff /\ Posts(tfrReq) \in BOOLEAN /\ (Posts(tfrReq) => tfrReq.rnw)
  BY <1>5, RequestIs DEF CallInv, CallTypes, Posts
<1>7. CallTypes'
  BY <1>1, <1>6 DEF CallInv, CallTypes
<1>8. CalledInv' /\ ReadyInv' /\ BeginInv' /\ BlockInv' /\ OverInv'
  BY <1>1, <1>2 DEF CalledInv, ReadyInv, BeginInv, BlockInv, OverInv
<1>9. AttemptsInv'
  <2>1. tries = 0 /\ retries = waitRetry /\ waitRetry \in Nat
    BY <1>1, Modulos DEF CallInv, AttemptsInv, CallTypes
  <2> QED
    BY <1>1, <1>2, <2>1 DEF AttemptsInv, TriesBounded
<1>10. ProgressInv'
  <2>1. LogHas(done - 1)' /\ LeftFrom(Place(packet)[done - 1] + 1)'
    BY <1>1, <1>3 DEF LogHas, LeftFrom
  <2>2. CASE tfrReq.rnw
    <3>1. LeftFrom(Place(packet)[done])'
      BY <1>1, <1>5, <2>1, <2>2
    <3> QED
      BY <1>1, <1>2, <1>3, <1>5, <1>6, <2>1, <2>2, <3>1 DEF ProgressInv, Working, Own
  <2>3. CASE ~tfrReq.rnw
    BY <1>1, <1>2, <1>3, <1>6, <2>1, <2>3 DEF ProgressInv, Working, Own
  <2> QED
    BY <2>2, <2>3
<1>11. ValuesInv'
  <2>1. Posts(tfrReq)' = Posts(tfrReq)
    BY <1>1 DEF Posts
  <2> QED
    BY <1>1, <1>4, <1>6, <2>1 DEF ValuesInv, Working, Own, Collecting, CallInv, CallTypes
<1> QED
  BY <1>7, <1>8, <1>9, <1>10, <1>11 DEF CallInv

LEMMA DataInv == ASSUME Plainly, CallInv, Data, st = "DATA" PROVE CallInv'
<1> USE DEF conf, block, budget, target
<1>1. /\ st = "DATA"
      /\ UNCHANGED <<conf, packet, tfrReq, PendPayload, readAgain, readDelay, readIgnore, block, count,
                     budget, done, ack, dread, words, target, tries>>
      /\ IF left = << >> THEN st' = "ERROR" /\ UNCHANGED <<tfrData, left>>
         ELSE tfrData' = Head(left).data /\ left' = Tail(left) /\ st' = "ISSUE"
  BY DEF Data
<1>2. /\ packet \in Calls /\ packet.call = "TRANSFER" /\ packet.n \in Nat /\ done \in Nat /\ count \in Nat
      /\ packet.stream \in Seq(Items) /\ left \in Seq(Items) /\ count + done = packet.n
      /\ words \in Seq(Values) /\ owed \in Seq(Values) /\ log \in Seq(Accs)
  BY <1>1, WorkingFacts DEF Working
<1> DEFINE b == Place(packet)[done - 1]
           a == packet.accesses[done]
<1>3. /\ done >= 1 /\ LogHas(done - 1) /\ LeftFrom(b + 1)
      /\ tfrReq = a.req /\ ~readAgain /\ ~tfrReq.rnw
  BY <1>1 DEF CallInv, ProgressInv, Working, Own
<1>4. /\ a.req \in HostRequests /\ b \in Nat /\ Place(packet)[done] = b + 2
      /\ b + 1 < Len(packet.stream) => packet.stream[b + 2].data = a.data
  <2>1. done \in 1 .. packet.n
    BY <1>2, <1>3
  <2> QED
    BY <1>2, <1>3, <2>1, TransferRequest
<1> HIDE DEF a, b
<1>5. ~Posts(tfrReq) /\ tfrReq # Rdbuff
  BY <1>3, <1>4, RequestIs DEF Posts
<1>6. readDelay = FALSE /\ Posts(tfrReq) = FALSE /\ ~readIgnore /\ owed = words
  <2>1. readDelay \in BOOLEAN /\ isJTAG \in BOOLEAN
    BY DEF CallInv, CallTypes
  <2>2. readDelay = Posts(tfrReq) /\ ~readIgnore /\ owed = words
    BY <1>1, <1>5 DEF CallInv, ValuesInv, Working, Own, Collecting
  <2> QED
    BY <1>5, <2>1, <2>2 DEF Posts
<1>7. left # << >> =>
        /\ IsRest(Tail(left), packet.stream, b + 2) /\ Tail(left) \in Seq(Items) /\ Head(left).data = a.data
  <2> SUFFICES ASSUME left # << >>
               PROVE  /\ IsRest(Tail(left), packet.stream, b + 2) /\ Tail(left) \in Seq(Items)
                      /\ Head(left).data = a.data
    OBVIOUS
  <2> DEFINE c == b + 1
  <2>1. c \in Nat /\ c + 1 = b + 2 /\ IsRest(left, packet.stream, c)
    BY <1>3, <1>4 DEF LeftFrom
  <2>2. c < Len(packet.stream) => packet.stream[c + 1].data = a.data
    BY <1>4, <2>1
  <2> HIDE DEF c
  <2>3. c < Len(packet.stream) /\ Head(left) = packet.stream[c + 1] /\ Tail(left) \in Seq(Items)
        /\ IsRest(Tail(left), packet.stream, c + 1)
    BY <1>2, <2>1, RestHead
  <2> QED
    BY <2>1, <2>2, <2>3
<1>8. CallTypes'
  BY <1>1, <1>7 DEF CallInv, CallTypes
<1>9. CalledInv' /\ ReadyInv' /\ BeginInv' /\ BlockInv'
  BY <1>1, <1>2 DEF CalledInv, ReadyInv, BeginInv, BlockInv
<1>10. AttemptsInv'
  <2>1. tries = 0 /\ retries = waitRetry /\ waitRetry \in Nat
    BY <1>1, Modulos DEF CallInv, AttemptsInv, CallTypes
  <2> QED
    BY <1>1, <1>2, <2>1 DEF AttemptsInv, TriesBounded
<1>11. LogHas(done - 1)'
  BY <1>1, <1>3 DEF LogHas
<1>12. ProgressInv' /\ OverInv'
  <2>1. CASE left = << >>
    <3>1. st' = "ERROR" /\ packet' = packet
      BY <1>1, <2>1
    <3>2. Len(log') <= packet'.n /\ LogHas(Len(log))'
      BY <1>1, <1>2, <1>3, <1>11 DEF LogHas, AreMade
    <3>3. WordsRight'
      BY <1>1, <1>2, <1>6, <3>1 DEF WordsRight, CallOver, Good, IsPrefix
    <3> QED
      BY <1>2, <3>1, <3>2, <3>3 DEF ProgressInv, Working, OverInv
  <2>2. CASE left # << >>
    <3>1. st' = "ISSUE" /\ tfrData' = a.data /\ left' = Tail(left)
      BY <1>1, <1>7, <2>2
    <3>2. LeftFrom(Place(packet)[done])'
      BY <1>1, <1>4, <1>7, <2>2, <3>1 DEF LeftFrom
    <3>3. tfrReq' = packet'.accesses[done'].req /\ tfrData' = packet'.accesses[done'].data
      BY <1>1, <1>3, <3>1 DEF a
    <3>4. ProgressInv'
      BY <1>1, <1>2, <1>3, <1>5, <1>11, <3>1, <3>2, <3>3 DEF ProgressInv, Working, Own
    <3> QED
      BY <3>1, <3>4 DEF OverInv
  <2> QED
    BY <2>1, <2>2
<1>13. ValuesInv'
  <2>1. Posts(tfrReq)' = Posts(tfrReq)
    BY <1>1 DEF Posts
  <2> QED
    BY <1>1, <1>3, <1>5, <1>6, <2>1 DEF ValuesInv, Working, Own, Collecting
<1> QED
  BY <1>8, <1>9, <1>10, <1>12, <1>13 DEF CallInv

\* What an access that is accepted does.
LEMMA AcceptRdbuff ==
  ASSUME CallTypes, Accept(Rdbuff)
  PROVE  serial' = serial /\ dread' = posted /\ posted' \in Values /\ owed' = owed /\ log' = log
<1>1. posted' = NONE /\ NONE \in Values
  BY Modulos DEF Accept, Values, NONE
<1> QED
  BY <1>1 DEF Accept, Rdbuff

LEMMA AcceptRequest ==
  ASSUME CallTypes, NEW r \in HostRequests, ~r.match, Accept(r)
  PROVE  /\ log' = Append(log, [req |-> r, data |-> IF r.rnw THEN 0 ELSE tfrData])
         /\ ~r.rnw => owed' = owed
         /\ r.rnw => owed' = Append(owed, serial)
         /\ Posts(r) => dread' = posted /\ posted' = serial /\ r.rnw
         /\ r.rnw /\ ~Posts(r) => dread' = serial /\ posted' = posted
         /\ serial' \in 0 .. SerialMod - 1 /\ dread' \in Values /\ posted' \in Values /\ owed' \in Seq(Values)
<1>1. r # Rdbuff /\ r.rnw \in BOOLEAN /\ Posts(r) \in BOOLEAN /\ (Posts(r) => r.rnw)
  BY RequestIs DEF CallTypes, Posts
<1>2. /\ log' = Append(log, [req |-> r, data |-> IF r.rnw THEN 0 ELSE tfrData])
      /\ ~r.rnw => owed' = owed
      /\ r.rnw => owed' = Append(owed, serial)
  BY <1>1 DEF Accept
<1>3. /\ dread' = IF Posts(r) THEN posted ELSE IF r.rnw THEN serial ELSE dread
      /\ posted' = IF ~r.rnw THEN NONE ELSE IF Posts(r) THEN serial ELSE posted
  BY <1>1 DEF Accept
<1>4. serial \in Values /\ NONE \in Values
  BY Modulos DEF CallTypes, Values, NONE
<1>5. serial' \in 0 .. SerialMod - 1
  <2>1. serial \in 0 .. SerialMod - 1 /\ (serial + 1) % SerialMod \in 0 .. SerialMod - 1
    BY Modulos, ModNext DEF CallTypes
  <2> QED
    BY <2>1 DEF Accept
<1>6. dread' \in Values /\ posted' \in Values
  BY <1>3, <1>4 DEF CallTypes
<1>7. owed' \in Seq(Values)
  <2>1. owed \in Seq(Values)
    BY DEF CallTypes
  <2> HIDE DEF Values
  <2> QED
    BY <1>1, <1>2, <1>4, <2>1, AppendProperties
<1> QED
  BY <1>1, <1>2, <1>3, <1>5, <1>6, <1>7

\* The words sent are the first of the values read, whatever came last.
LEMMA WordsFirst ==
  ASSUME NEW w \in Seq(Values), NEW o, NEW x \in Values, NEW y \in Values,
         o \in {w, Append(w, x), Append(w, y), Append(Append(w, x), y)}
  PROVE  IsPrefix(w, o)
<1> HIDE DEF Values
<1> QED
  BY PrefixAppend

LEMMA IssueInv == ASSUME Plainly, CallInv, Issue PROVE CallInv'
<1> USE DEF conf, request, block, target
<1>1. /\ st = "ISSUE" /\ Access(tfrReq) /\ Tried
      /\ retries' = IF ack' = "WAIT" THEN Spent ELSE retries
      /\ st' = CASE ack' = "WAIT" -> IF RetryLeft THEN "ISSUE" ELSE "IDLE"
                 [] ack' = "OK" -> "SETTLE"
                 [] OTHER -> "IDLE"
      /\ UNCHANGED <<conf, packet, left, request, block, count, done, words>>
  BY DEF Issue
<1>2. /\ packet \in Calls /\ packet.call = "TRANSFER" /\ packet.n \in Nat /\ done \in Nat /\ count \in Nat
      /\ packet.stream \in Seq(Items) /\ left \in Seq(Items) /\ count + done = packet.n
      /\ words \in Seq(Values) /\ owed \in Seq(Values) /\ log \in Seq(Accs)
  BY <1>1, WorkingFacts DEF Working
<1> DEFINE own == tfrReq # Rdbuff
           a == packet.accesses[done]
           made == readAgain \/ own
<1>3. /\ made => done >= 1
      /\ LogHas(IF made THEN done - 1 ELSE done)
      /\ LeftFrom(IF readAgain THEN Place(packet)[done - 1] + 1 ELSE Place(packet)[done])
      /\ own => tfrReq = a.req /\ ~readAgain /\ (~tfrReq.rnw => tfrData = a.data)
      /\ readAgain => PendPayload = a.req
  BY <1>1 DEF CallInv, ProgressInv, Working, Own
<1>4. /\ own => readDelay = Posts(tfrReq) /\ (readIgnore => Posts(tfrReq))
      /\ ~own => ~readDelay /\ ~readIgnore
      /\ owed = IF own THEN (IF Posts(tfrReq) /\ ~readIgnore THEN Append(words, posted) ELSE words)
                ELSE Append(words, posted)
  BY <1>1 DEF CallInv, ValuesInv, Working, Own, Collecting
<1>5. own => /\ tfrReq \in HostRequests /\ ~tfrReq.match /\ a \in Accs
             /\ a = [req |-> tfrReq, data |-> IF tfrReq.rnw THEN 0 ELSE tfrData]
  <2> SUFFICES ASSUME own
               PROVE  /\ tfrReq \in HostRequests /\ ~tfrReq.match /\ a \in Accs
                      /\ a = [req |-> tfrReq, data |-> IF tfrReq.rnw THEN 0 ELSE tfrData]
    OBVIOUS
  <2>1. done \in 1 .. packet.n
    BY <1>2, <1>3
  <2>2. /\ a \in Accs /\ a.req \in HostRequests /\ ~a.req.match
        /\ a = [req |-> a.req, data |-> IF a.req.rnw THEN 0 ELSE a.data]
    BY <1>2, <2>1, TransferRequest
  <2> HIDE DEF a
  <2> QED
    BY <1>3, <2>2
<1>6. /\ readAgain \in BOOLEAN /\ posted \in Values /\ serial \in Values /\ dread \in Values
      /\ isJTAG \in BOOLEAN /\ CallTypes
  BY Modulos DEF CallInv, CallTypes, Values
<1>7. ack' \in {"OK", "PERR", "WAIT", "ERROR"}
  BY <1>1 DEF Access
<1>8. Posts(tfrReq)' = Posts(tfrReq)
  BY <1>1 DEF Posts
\* The attempts.
<1>9. /\ retries \in Nat /\ waitRetry \in Nat /\ tries \in Nat /\ tries + retries = waitRetry
      /\ tries' = tries + 1 /\ retries' \in 0 .. RetryMod - 1
      /\ st' = "ISSUE" => tries' + retries' = waitRetry
  <2>1. retries \in 0 .. RetryMod - 1 /\ waitRetry \in 0 .. RetryMod - 1 /\ tries \in Nat
        /\ tries + retries = waitRetry
    BY <1>1 DEF CallInv, CallTypes, AttemptsInv
  <2>2. Spent = IF retries = 0 THEN RetryMod - 1 ELSE retries - 1
    BY <2>1, SpentIs DEF Spent
  <2>3. retries \in Nat /\ waitRetry \in Nat /\ ~(tries > RetryMod)
    BY <2>1, Modulos
  <2>4. tries' = tries + 1
    BY <1>1, <2>3 DEF Tried
  <2>5. retries' \in 0 .. RetryMod - 1
    BY <1>1, <2>1, <2>2, Modulos
  <2>6. st' = "ISSUE" => ack' = "WAIT" /\ retries # 0
    BY <1>1, <1>7 DEF RetryLeft
  <2> QED
    BY <1>1, <2>1, <2>2, <2>3, <2>4, <2>5, <2>6
<1>10. AttemptsInv'
  <2>1. st' \in {"ISSUE", "IDLE", "SETTLE"}
    BY <1>1, <1>7
  <2>2. waitRetry' = waitRetry /\ packet'.call = "TRANSFER"
    BY <1>1, <1>2
  <2> QED
    BY <1>9, <2>1, <2>2 DEF AttemptsInv, TriesBounded
\* What the target answers.
<1>11. /\ CallTypes' /\ ProgressInv' /\ ValuesInv' /\ OverInv'
  <2>1. CASE ack' \in {"WAIT", "ERROR"}
    <3>1. UNCHANGED <<target, dread>>
      BY <1>1, <2>1 DEF Access
    <3>2. st' \in {"ISSUE", "IDLE"} /\ (st' = "IDLE" => ack' # "OK")
      BY <1>1, <2>1
    <3>3. CallTypes'
      BY <1>1, <1>9, <3>1 DEF CallInv, CallTypes
    <3>4. ProgressInv'
      <4>1. /\ LogHas(IF made THEN done - 1 ELSE done)'
            /\ LeftFrom(IF readAgain THEN Place(packet)[done - 1] + 1 ELSE Place(packet)[done])'
        BY <1>1, <1>3, <3>1 DEF LogHas, LeftFrom
      <4> QED
        BY <1>1, <1>2, <1>3, <3>2, <4>1 DEF ProgressInv, Working, Own
    <3>5. ValuesInv'
      BY <1>1, <1>4, <1>8, <3>1, <3>2 DEF ValuesInv, Working, Own, Collecting
    <3>6. OverInv'
      <4>1. Len(log') <= packet'.n /\ LogHas(Len(log))'
        BY <1>1, <1>2, <1>3, <1>6, <3>1 DEF LogHas, AreMade
      <4>2. IsPrefix(words', owed')
        BY <1>1, <1>2, <1>4, <1>6, <3>1, WordsFirst
      <4> QED
        BY <1>1, <1>2, <3>2, <4>1, <4>2 DEF OverInv, WordsRight, CallOver, Good
    <3> QED
      BY <3>3, <3>4, <3>5, <3>6
  <2>2. CASE ack' \in {"OK", "PERR"} /\ ~own
    <3>1. serial' = serial /\ dread' = posted /\ posted' \in Values /\ owed' = owed /\ log' = log
      BY <1>1, <1>6, <2>2, AcceptRdbuff DEF Access
    <3>2. st' = IF ack' = "OK" THEN "SETTLE" ELSE "IDLE"
      BY <1>1, <2>2
    <3>3. CallTypes'
      BY <1>1, <1>6, <1>9, <3>1 DEF CallTypes
    <3>4. ProgressInv'
      <4>1. /\ LogHas(IF readAgain THEN done - 1 ELSE done)'
            /\ LeftFrom(IF readAgain THEN Place(packet)[done - 1] + 1 ELSE Place(packet)[done])'
        BY <1>1, <1>3, <2>2, <3>1 DEF LogHas, LeftFrom
      <4> QED
        BY <1>1, <1>2, <1>3, <2>2, <3>2, <4>1 DEF ProgressInv, Working, Own
    <3>5. ValuesInv'
      BY <1>1, <1>4, <2>2, <3>1, <3>2 DEF ValuesInv, Working, Own, Collecting
    <3>6. OverInv'
      <4> SUFFICES ASSUME ack' = "PERR" PROVE OverInv'
        BY <2>2, <3>2 DEF OverInv
      <4>1. Len(log') <= packet'.n /\ LogHas(Len(log))'
        BY <1>1, <1>2, <1>3, <1>6, <2>2, <3>1 DEF LogHas, AreMade
      <4>2. IsPrefix(words', owed')
        BY <1>1, <1>2, <1>4, <1>6, <3>1, WordsFirst
      <4> QED
        BY <1>1, <1>2, <3>2, <4>1, <4>2 DEF OverInv, WordsRight, CallOver, Good
    <3> QED
      BY <3>3, <3>4, <3>5, <3>6
  <2>3. CASE ack' \in {"OK", "PERR"} /\ own
    <3>1. /\ log' = Append(log, a)
          /\ ~tfrReq.rnw => owed' = owed
          /\ tfrReq.rnw => owed' = Append(owed, serial)
          /\ Posts(tfrReq) => dread' = posted /\ posted' = serial /\ tfrReq.rnw
          /\ tfrReq.rnw /\ ~Posts(tfrReq) => dread' = serial /\ posted' = posted
          /\ serial' \in 0 .. SerialMod - 1 /\ dread' \in Values /\ posted' \in Values /\ owed' \in Seq(Values)
      BY <1>1, <1>5, <1>6, <2>3, AcceptRequest DEF Access
    <3>2. st' = IF ack' = "OK" THEN "SETTLE" ELSE "IDLE"
      BY <1>1, <2>3
    <3>3. log' \in Seq(Accs) /\ LogHas(done)'
      <4>1. done - 1 \in Nat /\ AreMade(log, packet, done - 1) /\ a = Made(packet, done - 1 + 1)
        BY <1>2, <1>3, <2>3 DEF LogHas, Made
      <4>2. done - 1 + 1 = done
        BY <1>2
      <4> DEFINE m == done - 1
      <4> HIDE DEF m, a, own, made
      <4>3. AreMade(Append(log, a), packet, m + 1)
        BY <1>2, <1>5, <2>3, <4>1, MadeMore DEF m
      <4> QED
        BY <1>1, <1>2, <1>5, <2>3, <3>1, <4>2, <4>3 DEF LogHas, m
    <3>4. CallTypes'
      BY <1>1, <1>6, <1>9, <3>1, <3>3, SMTT(30) DEF CallTypes
    <3>5. ProgressInv'
      <4>1. LeftFrom(Place(packet)[done])'
        BY <1>1, <1>3, <2>3 DEF LeftFrom
      <4> QED
        BY <1>1, <1>2, <1>3, <2>3, <3>2, <3>3, <4>1 DEF ProgressInv, Working, Own
    <3>6. ~Posts(tfrReq) \/ tfrReq.rnw
      BY <3>1
    <3>7. owed' = IF ~tfrReq.rnw THEN words
                  ELSE IF ~Posts(tfrReq) THEN Append(words, dread')
                  ELSE IF readIgnore THEN Append(words, posted')
                  ELSE Append(Append(words, dread'), posted')
      BY <1>4, <2>3, <3>1
    <3>8. ValuesInv'
      BY <1>1, <1>4, <1>8, <2>3, <3>2, <3>7 DEF ValuesInv, Working, Own, Collecting
    <3>9. OverInv'
      <4> SUFFICES ASSUME ack' = "PERR" PROVE OverInv'
        BY <2>3, <3>2 DEF OverInv
      <4>1. Len(log') <= packet'.n /\ LogHas(Len(log))'
        BY <1>1, <1>2, <3>3 DEF LogHas, AreMade
      <4>2. IsPrefix(words, owed')
        BY <1>2, <3>1, <3>7, WordsFirst
      <4> QED
        BY <1>1, <1>2, <3>2, <4>1, <4>2 DEF OverInv, WordsRight, CallOver, Good
    <3> QED
      BY <3>4, <3>5, <3>8, <3>9
  <2> QED
    BY <1>7, <2>1, <2>2, <2>3
<1>12. CalledInv' /\ ReadyInv' /\ BeginInv' /\ BlockInv'
  <2>1. st' \in {"ISSUE", "IDLE", "SETTLE"}
    BY <1>1, <1>7
  <2> QED
    BY <1>1, <1>2, <2>1 DEF CalledInv, ReadyInv, BeginInv, BlockInv
<1> QED
  BY <1>10, <1>11, <1>12 DEF CallInv

LEMMA SettleInv == ASSUME Plainly, CallInv, Settle PROVE CallInv'
<1> USE DEF conf, block, target
<1>1. /\ st = "SETTLE"
      /\ UNCHANGED <<conf, packet, left, tfrReq, tfrData, PendPayload, readAgain, readDelay, block, count,
                     retries, done, ack, dread, target, tries>>
  BY DEF Settle
<1>2. /\ packet \in Calls /\ packet.call = "TRANSFER" /\ packet.n \in Nat /\ done \in Nat /\ count \in Nat
      /\ packet.stream \in Seq(Items) /\ left \in Seq(Items) /\ count + done = packet.n
      /\ words \in Seq(Values) /\ owed \in Seq(Values) /\ log \in Seq(Accs)
  BY <1>1, WorkingFacts DEF Working
<1> DEFINE own == tfrReq # Rdbuff
           a == packet.accesses[done]
<1>3. /\ readAgain \/ own => done >= 1
      /\ LogHas(IF readAgain THEN done - 1 ELSE done)
      /\ LeftFrom(IF readAgain THEN Place(packet)[done - 1] + 1 ELSE Place(packet)[done])
      /\ own => tfrReq = a.req /\ ~readAgain
      /\ readAgain => PendPayload = a.req
      /\ ack = "OK"
  BY <1>1 DEF CallInv, ProgressInv, Working, Own
<1>4. ~tfrReq.match /\ tfrReq.rnw \in BOOLEAN /\ (~own => tfrReq.rnw)
  <2>1. CASE own
    <3>1. done \in 1 .. packet.n
      BY <1>2, <1>3, <2>1
    <3>2. a.req \in HostRequests /\ ~a.req.match
      BY <1>2, <3>1, TransferRequest
    <3> QED
      BY <1>3, <2>1, <3>2, RequestIs
  <2>2. CASE ~own
    <3>1. Rdbuff.match = FALSE /\ Rdbuff.rnw = TRUE
      BY DEF Rdbuff
    <3> QED
      BY <2>2, <3>1
  <2> QED
    BY <2>1, <2>2
<1>5. /\ readIgnore' = FALSE /\ st' = "NEXT" /\ UNCHANGED matchretries
      /\ words' = IF ~readIgnore /\ tfrReq.rnw THEN Append(words, dread) ELSE words
  BY <1>4 DEF Settle
<1>6. /\ dread \in Values /\ posted \in Values /\ readDelay \in BOOLEAN /\ readIgnore \in BOOLEAN
      /\ isJTAG \in BOOLEAN /\ readAgain \in BOOLEAN
  BY DEF CallInv, CallTypes
<1>7. CallTypes'
  <2>1. words' \in Seq(Values)
    BY <1>2, <1>5, <1>6
  <2> QED
    BY <1>1, <1>5, <2>1 DEF CallInv, CallTypes
<1>8. ProgressInv'
  <2>1. /\ LogHas(IF readAgain THEN done - 1 ELSE done)'
        /\ LeftFrom(IF readAgain THEN Place(packet)[done - 1] + 1 ELSE Place(packet)[done])'
    BY <1>1, <1>3 DEF LogHas, LeftFrom
  <2> QED
    BY <1>1, <1>2, <1>3, <1>5, <2>1 DEF ProgressInv, Working, Own
<1>9. ValuesInv'
  <2>1. readAgain => ~readDelay
    BY <1>1, <1>3 DEF CallInv, ValuesInv, Working, Own, Collecting
  <2>2. owed = IF readDelay THEN Append(words', posted) ELSE words'
    <3>1. CASE own
      <4>1. readDelay = Posts(tfrReq) /\ (readIgnore => Posts(tfrReq))
        BY <1>1, <3>1 DEF CallInv, ValuesInv, Working, Own, Collecting
      <4>2. owed = IF ~tfrReq.rnw THEN words
                   ELSE IF ~Posts(tfrReq) THEN Append(words, dread)
                   ELSE IF readIgnore THEN Append(words, posted)
                   ELSE Append(Append(words, dread), posted)
        BY <1>1, <3>1 DEF CallInv, ValuesInv, Working, Own, Collecting
      <4>3. Posts(tfrReq) => tfrReq.rnw
        BY DEF Posts
      <4> QED
        BY <1>5, <1>6, <4>1, <4>2, <4>3
    <3>2. CASE ~own
      <4>1. ~readDelay /\ ~readIgnore /\ owed = Append(words, dread)
        BY <1>1, <3>2 DEF CallInv, ValuesInv, Working, Own, Collecting
      <4> QED
        BY <1>4, <1>5, <3>2, <4>1
    <3> QED
      BY <3>1, <3>2
  <2> QED
    BY <1>1, <1>5, <2>1, <2>2 DEF ValuesInv, Working, Own, Collecting
<1>10. AttemptsInv'
  BY <1>1, <1>2, <1>5 DEF CallInv, AttemptsInv, TriesBounded
<1>11. CalledInv' /\ ReadyInv' /\ BeginInv' /\ BlockInv' /\ OverInv'
  BY <1>1, <1>2, <1>5 DEF CalledInv, ReadyInv, BeginInv, BlockInv, OverInv
<1> QED
  BY <1>7, <1>8, <1>9, <1>10, <1>11 DEF CallInv

\* The answer is with the host; of a run of blocks what is owed is kept.
LEMMA TargetAnswersInv == ASSUME Plainly, CallInv, TargetAnswers PROVE CallInv'
<1> USE DEF conf
<1>1. /\ st \in {"IDLE", "ERROR"} /\ st' = "READY"
      /\ packet' = IF packet.call = "BLOCK" /\ readBDelay
                   THEN [call |-> "BLOCK", req |-> packet.req, good |-> packet.n # 0 /\ ack = "OK"]
                   ELSE [call |-> "none"]
      /\ left' = << >> /\ words' = << >> /\ log' = << >> /\ tries' = 0
      /\ readAgain' = FALSE /\ readDelay' = FALSE /\ readIgnore' = FALSE /\ readBIgnore' = FALSE
      /\ count' = 0 /\ retries' = 0 /\ done' = 0 /\ dread' = NONE
      /\ IF readBDelay
         THEN owed' = SubSeq(owed, Len(words) + 1, Len(owed)) /\ UNCHANGED <<posted, serial>>
         ELSE owed' = << >> /\ posted' = NONE /\ serial' = 0
      /\ UNCHANGED <<conf, readBDelay>>
  BY DEF TargetAnswers
<1>2. /\ RetryMod \in Nat /\ RetryMod >= 1 /\ SerialMod \in Nat /\ SerialMod >= 1
      /\ waitRetry \in 0 .. RetryMod - 1 /\ NONE \in Values
      /\ words \in Seq(Values) /\ owed \in Seq(Values) /\ posted \in Values
      /\ 0 \in 0 .. RetryMod - 1 /\ 0 \in 0 .. SerialMod - 1
  BY Modulos DEF CallInv, CallTypes, Values, NONE
<1>3. owed' \in Seq(Values)
  <2>1. CASE readBDelay
    <3> DEFINE w == Len(words) + 1
               n == Len(owed)
    <3>1. w \in 1 .. n + 1 \/ w > n
      BY <1>2
    <3>2. w \in Nat /\ n \in Nat /\ w >= 1 /\ n = Len(owed)
      BY <1>2
    <3> HIDE DEF w, n, Values
    <3>3. SubSeq(owed, w, n) \in Seq(Values)
      BY <1>2, <3>2, SubSeqProperties
    <3> QED
      BY <1>1, <2>1, <3>3 DEF w, n
  <2>2. CASE ~readBDelay
    BY <1>1, <2>2, Empties
  <2> QED
    BY <2>1, <2>2
<1>4. CallTypes'
  BY <1>1, <1>2, <1>3, Empties DEF CallInv, CallTypes
<1>5. ASSUME packet'.call = "BLOCK", packet'.good
      PROVE  owed' = <<posted'>>
  <2>1. packet.call = "BLOCK" /\ readBDelay /\ packet.n # 0 /\ ack = "OK"
    BY <1>1, <1>5
  <2>2. owed = Append(words, posted) /\ owed' = SubSeq(owed, Len(words) + 1, Len(owed)) /\ posted' = posted
    BY <1>1, <2>1 DEF CallInv, OverInv
  <2>3. Len(words) \in Nat /\ Len(owed) = Len(words) + 1 /\ owed[Len(words) + 1] = posted
    BY <1>2, <2>2
  <2> DEFINE w == Len(words) + 1
  <2> HIDE DEF w
  <2>4. w \in Nat /\ w >= 1 /\ Len(owed) = w /\ owed[w] = posted /\ owed' = SubSeq(owed, w, w)
    BY <2>2, <2>3 DEF w
  <2>5. SubSeq(owed, w, w) = <<owed[w]>>
    <3>1. SubSeq(owed, w, w) = [i \in 1 .. w + 1 - w |-> owed[i + w - 1]]
      BY <1>2, <2>4, SubSeqProperties
    <3> QED
      BY <2>4, <3>1
  <2> QED
    BY <2>2, <2>4, <2>5
<1>6. ReadyInv'
  BY <1>1, <1>5 DEF ReadyInv
<1>7. CalledInv' /\ BeginInv' /\ ProgressInv' /\ ValuesInv' /\ BlockInv' /\ OverInv'
  BY <1>1 DEF CalledInv, BeginInv, ProgressInv, ValuesInv, BlockInv, OverInv, Working
<1>8. AttemptsInv'
  BY <1>1, <1>2 DEF AttemptsInv, TriesBounded
<1> QED
  BY <1>4, <1>6, <1>7, <1>8 DEF CallInv

-----------------------------------------------------------------------------
LEMMA BlockSetupInv == ASSUME Plainly, CallInv, BlockSetup PROVE CallInv'
<1> USE DEF conf
<1>1. /\ st = "BLOCK"
      /\ readBDelay' = Posts(packet.req) /\ readBIgnore' = BlockIgnores(packet.req)
      /\ tfrReq' = packet.req
      /\ count' = IF packet.n # 0 THEN packet.n - 1 ELSE count
      /\ done' = 0 /\ words' = << >> /\ retries' = waitRetry /\ ack' = "OK"
      /\ owed' = IF readBDelay /\ Posts(packet.req) THEN owed ELSE << >>
      /\ st' = IF packet.n = 0 THEN "IDLE" ELSE IF packet.req.rnw THEN "BLOCK_ISSUE" ELSE "BLOCK_DATA"
      /\ UNCHANGED <<conf, packet, left, tfrData, readAgain, readDelay, readIgnore,
                     dread, posted, serial, log, tries>>
  BY DEF BlockSetup
<1>2. /\ packet \in Calls /\ packet.call = "BLOCK" /\ left = packet.stream
      /\ log = << >> /\ tries = 0
      /\ readBDelay /\ Posts(packet.req) => owed = <<posted>>
  BY <1>1 DEF CallInv, CalledInv, BeginInv
<1>3. /\ packet.n \in 0 .. RetryMod - 1 /\ packet.n \in Nat /\ packet.req \in HostRequests
      /\ packet.stream \in Seq(Items)
  BY <1>2, CallIs, BlockIs
<1>4. /\ packet.req.rnw \in BOOLEAN /\ Posts(packet.req) \in BOOLEAN /\ (Posts(packet.req) => packet.req.rnw)
      /\ Posts(packet.req)' = Posts(packet.req) /\ readBDelay \in BOOLEAN
  BY <1>1, <1>3, RequestIs DEF CallInv, CallTypes, Posts
<1>5. /\ RetryMod \in Nat /\ RetryMod >= 1 /\ waitRetry \in 0 .. RetryMod - 1 /\ waitRetry \in Nat
      /\ owed \in Seq(Values) /\ posted \in Values
  BY Modulos DEF CallInv, CallTypes
<1>6. CallTypes'
  <2>1. owed' \in Seq(Values) /\ words' \in Seq(Values)
    BY <1>1, <1>5, Empties
  <2>2. readBDelay' \in BOOLEAN /\ readBIgnore' \in BOOLEAN
    BY <1>1, <1>4 DEF BlockIgnores
  <2>3. count' \in Nat /\ done' \in Nat
    BY <1>1, <1>3 DEF CallInv, CallTypes
  <2> QED
    BY <1>1, <1>5, <2>1, <2>2, <2>3 DEF CallInv, CallTypes
<1>7. LogHas(0)' /\ LeftFrom(0)'
  BY <1>1, <1>2, <1>3, EmptyMade, RestAll DEF LogHas, LeftFrom
<1>8. CalledInv' /\ ReadyInv' /\ BeginInv' /\ ProgressInv' /\ ValuesInv'
  BY <1>1, <1>2 DEF CalledInv, ReadyInv, BeginInv, ProgressInv, ValuesInv, Working
<1>9. AttemptsInv'
  BY <1>1, <1>2, <1>5 DEF AttemptsInv, TriesBounded
<1>10. BlockInv'
  <2> SUFFICES ASSUME packet.n # 0 PROVE BlockInv'
    BY <1>1 DEF BlockInv
  <2>1. 0 < packet.n /\ count' = packet.n - 1 - 0
    BY <1>1, <1>3
  <2>2. /\ readBIgnore' => Posts(packet.req) /\ owed' = << >>
        /\ ~readBIgnore' /\ Posts(packet.req) => owed' = Append(words', posted)
        /\ ~Posts(packet.req) => owed' = words'
    <3>1. <<posted>> = Append(<< >>, posted)
      BY <1>5
    <3> QED
      BY <1>1, <1>2, <1>4, <3>1 DEF BlockIgnores
  <2>3. Len(words') = 0
    BY <1>1, Empties
  <2>4. IF waitRetry = 0 THEN 0 < RetryMod /\ retries' = 0 ELSE 0 < waitRetry /\ retries' = waitRetry - 0
    BY <1>1, <1>5
  <2> QED
    BY <1>1, <1>2, <1>4, <1>7, <2>1, <2>2, <2>3, <2>4 DEF BlockInv
<1>11. OverInv'
  <2> SUFFICES ASSUME packet.n = 0 PROVE OverInv'
    BY <1>1 DEF OverInv
  <2>1. Len(log') = 0 /\ LogHas(Len(log))'
    BY <1>1, <1>2, <1>7, Empties DEF LogHas
  <2>2. Len(words') = 0 /\ IsPrefix(words', owed')
    <3>1. words' = << >> /\ owed' \in {<< >>, Append(<< >>, posted)}
      <4>1. <<posted>> = Append(<< >>, posted)
        BY <1>5
      <4> QED
        BY <1>1, <1>2, <4>1
    <3> QED
      BY <1>5, <3>1, Empties, WordsFirst
  <2> QED
    BY <1>1, <1>2, <1>4, <2>1, <2>2 DEF OverInv, WordsRight, CallOver, Good
<1> QED
  BY <1>6, <1>8, <1>9, <1>10, <1>11 DEF CallInv

\* One access more of a block.
LEMMA BlockMade ==
  ASSUME Plainly, NEW p \in Calls, p.call = "BLOCK", NEW l \in Seq(Accs), NEW m \in Nat, AreMade(l, p, m),
         NEW d, p.req.rnw \/ (m < p.n /\ d = p.accesses[m + 1].data)
  PROVE  LET x == [req |-> p.req, data |-> IF p.req.rnw THEN 0 ELSE d]
         IN  AreMade(Append(l, x), p, m + 1) /\ Append(l, x) \in Seq(Accs)
<1> DEFINE x == [req |-> p.req, data |-> IF p.req.rnw THEN 0 ELSE d]
           k == m + 1
<1>1. /\ p.n \in Nat /\ p.accesses \in Seq(Accs) /\ Len(p.accesses) = p.n /\ p.req \in HostRequests
      /\ \A i \in 1 .. p.n : p.accesses[i].req = p.req /\ (p.req.rnw => p.accesses[i].data = 0)
  BY CallIs, BlockIs
<1>2. p.req.rnw \in BOOLEAN
  BY <1>1, RequestIs
<1>3. x = Made(p, k) /\ x \in Accs
  <2>1. CASE k <= p.n
    <3> DEFINE a == p.accesses[k]
    <3>1. k \in 1 .. p.n
      BY <1>1, <2>1
    <3>2. a \in Accs /\ a.req = p.req /\ (p.req.rnw => a.data = 0) /\ (~p.req.rnw => a.data = d)
      <4> HIDE DEF k
      <4>1. a \in Accs /\ a.req = p.req /\ (p.req.rnw => a.data = 0)
        BY <1>1, <3>1
      <4> QED
        BY <4>1 DEF k
    <3>3. a = [req |-> a.req, data |-> a.data]
      BY <3>2, AccessIs
    <3>4. a = x
      <4> HIDE DEF a
      <4> QED
        BY <1>2, <3>2, <3>3
    <3> QED
      BY <2>1, <3>2, <3>4 DEF Made
  <2>2. CASE ~(k <= p.n)
    <3>1. p.req.rnw
      BY <1>1, <2>2
    <3>2. x = [req |-> p.req, data |-> 0]
      BY <3>1
    <3>3. x \in Accs
      BY <1>1, <3>2 DEF Accs
    <3> QED
      BY <2>2, <3>2, <3>3 DEF Made
  <2> QED
    BY <2>1, <2>2
<1>4. AreMade(Append(l, x), p, m + 1)
  <2> HIDE DEF x
  <2> QED
    BY <1>3, MadeMore DEF k
<1>5. Append(l, x) \in Seq(Accs)
  <2> HIDE DEF x
  <2> QED
    BY <1>3, AppendProperties
<1> QED
  BY <1>4, <1>5

LEMMA BlockFacts ==
  ASSUME Plainly, CallInv, st \in {"BLOCK_DATA", "BLOCK_ISSUE"}
  PROVE  /\ packet \in Calls /\ packet.call = "BLOCK" /\ packet.n \in Nat /\ packet.n < RetryMod
         /\ packet.req \in HostRequests /\ ~packet.req.match /\ packet.stream \in Seq(Items)
         /\ done \in Nat /\ done < packet.n /\ count = packet.n - 1 - done
         /\ packet.req.rnw \in BOOLEAN /\ Posts(packet.req) \in BOOLEAN /\ (Posts(packet.req) => packet.req.rnw)
         /\ words \in Seq(Values) /\ owed \in Seq(Values) /\ log \in Seq(Accs) /\ left \in Seq(Items)
         /\ dread \in Values /\ posted \in Values /\ serial \in Values
         /\ RetryMod \in Nat /\ waitRetry \in Nat /\ waitRetry < RetryMod
<1>1. packet \in Calls /\ packet.call = "BLOCK" /\ done < packet.n /\ count = packet.n - 1 - done
  BY DEF CallInv, CalledInv, BlockInv
<1>2. /\ packet.n \in 0 .. RetryMod - 1 /\ packet.n \in Nat /\ packet.req \in HostRequests /\ ~packet.req.match
      /\ packet.stream \in Seq(Items)
  BY <1>1, CallIs, BlockIs
<1>3. packet.req.rnw \in BOOLEAN /\ Posts(packet.req) \in BOOLEAN /\ (Posts(packet.req) => packet.req.rnw)
  BY <1>2, RequestIs DEF CallInv, CallTypes, Posts
<1>4. RetryMod \in Nat /\ SerialMod \in Nat
  BY Modulos
<1> QED
  BY <1>1, <1>2, <1>3, <1>4 DEF CallInv, CallTypes, Values

LEMMA BlockDataInv == ASSUME Plainly, CallInv, Data, st = "BLOCK_DATA" PROVE CallInv'
<1> USE DEF conf, block, budget, target
<1>1. /\ st = "BLOCK_DATA"
      /\ UNCHANGED <<conf, packet, tfrReq, PendPayload, readAgain, readDelay, readIgnore, block, count,
                     budget, done, ack, dread, words, target, tries>>
      /\ IF left = << >> THEN st' = "ERROR" /\ UNCHANGED <<tfrData, left>>
         ELSE tfrData' = Head(left).data /\ left' = Tail(left) /\ st' = "BLOCK_ISSUE"
  BY DEF Data
<1>2. /\ packet \in Calls /\ packet.call = "BLOCK" /\ packet.n \in Nat
      /\ packet.stream \in Seq(Items) /\ left \in Seq(Items)
      /\ done \in Nat /\ done < packet.n /\ count = packet.n - 1 - done
      /\ Posts(packet.req) \in BOOLEAN /\ (Posts(packet.req) => packet.req.rnw)
      /\ words \in Seq(Values) /\ log \in Seq(Accs) /\ waitRetry \in Nat /\ RetryMod \in Nat
  BY <1>1, BlockFacts
<1>3. /\ tfrReq = packet.req /\ readBDelay = Posts(packet.req) /\ ~packet.req.rnw /\ LeftFrom(done)
      /\ ~Posts(packet.req) /\ ~readBIgnore /\ owed = words /\ LogHas(done)
      /\ Len(words) = (IF packet.req.rnw THEN done ELSE 0)
      /\ IF waitRetry = 0 THEN tries < RetryMod /\ retries = (IF tries = 0 THEN 0 ELSE RetryMod - tries)
         ELSE tries < waitRetry /\ retries = waitRetry - tries
  BY <1>1, <1>2 DEF CallInv, BlockInv
<1>4. left # << >> =>
        /\ IsRest(Tail(left), packet.stream, done + 1) /\ Tail(left) \in Seq(Items)
        /\ Head(left).data = packet.accesses[done + 1].data
  <2> SUFFICES ASSUME left # << >>
               PROVE  /\ IsRest(Tail(left), packet.stream, done + 1) /\ Tail(left) \in Seq(Items)
                      /\ Head(left).data = packet.accesses[done + 1].data
    OBVIOUS
  <2>1. done < Len(packet.stream) /\ Head(left) = packet.stream[done + 1] /\ Tail(left) \in Seq(Items)
        /\ IsRest(Tail(left), packet.stream, done + 1)
    BY <1>2, <1>3, RestHead DEF LeftFrom
  <2>2. done + 1 \in 1 .. Len(packet.stream)
    BY <1>2, <2>1
  <2>3. packet.stream[done + 1].data = packet.accesses[done + 1].data
    BY <1>2, <2>2, BlockIs
  <2> QED
    BY <2>1, <2>3
<1>5. CallTypes'
  BY <1>1, <1>4 DEF CallInv, CallTypes
<1>6. CalledInv' /\ ReadyInv' /\ BeginInv' /\ ProgressInv' /\ ValuesInv'
  BY <1>1, <1>2 DEF CalledInv, ReadyInv, BeginInv, ProgressInv, ValuesInv, Working
<1>7. AttemptsInv'
  BY <1>1, <1>2 DEF CallInv, AttemptsInv, TriesBounded
<1>8. LogHas(done)' /\ Posts(packet.req)' = Posts(packet.req)
  BY <1>1, <1>3 DEF LogHas, Posts
<1>9. BlockInv' /\ OverInv'
  <2>1. CASE left = << >>
    <3>1. st' = "ERROR" /\ packet' = packet
      BY <1>1, <2>1
    <3>2. Len(log') <= packet'.n /\ LogHas(Len(log))'
      BY <1>1, <1>2, <1>8 DEF LogHas, AreMade
    <3>3. WordsRight'
      BY <1>1, <1>2, <1>3, <3>1 DEF WordsRight, CallOver, Good, IsPrefix
    <3>4. readBDelay' = FALSE
      BY <1>1, <1>2, <1>3
    <3> QED
      BY <1>2, <3>1, <3>2, <3>3, <3>4 DEF BlockInv, OverInv
  <2>2. CASE left # << >>
    <3>1. st' = "BLOCK_ISSUE" /\ tfrData' = packet'.accesses[done' + 1].data /\ left' = Tail(left)
      BY <1>1, <1>4, <2>2
    <3>2. LeftFrom(done + 1)'
      BY <1>1, <1>4, <2>2, <3>1 DEF LeftFrom
    <3>3. BlockInv'
      BY <1>1, <1>2, <1>3, <1>8, <3>1, <3>2 DEF BlockInv
    <3> QED
      BY <3>1, <3>3 DEF OverInv
  <2> QED
    BY <2>1, <2>2
<1> QED
  BY <1>5, <1>6, <1>7, <1>9 DEF CallInv

LEMMA BlockIssueInv == ASSUME Plainly, CallInv, BlockIssue PROVE CallInv'
<1> USE DEF conf, request, target
<1> DEFINE r == packet.req
           more == count # 0 \/ readBIgnore
           accepted == ack' \in {"OK", "PERR"}
<1>1. /\ st = "BLOCK_ISSUE" /\ Access(tfrReq)
      /\ IF ack' = "OK" THEN tries' = 0 ELSE Tried
      /\ UNCHANGED <<conf, packet, left, request, readBDelay>>
  BY DEF BlockIssue
<1>2. /\ packet \in Calls /\ packet.call = "BLOCK" /\ packet.n \in Nat /\ packet.n < RetryMod
      /\ r \in HostRequests /\ ~r.match
      /\ done \in Nat /\ done < packet.n /\ count = packet.n - 1 - done /\ count \in 0 .. RetryMod - 1
      /\ r.rnw \in BOOLEAN /\ Posts(r) \in BOOLEAN /\ (Posts(r) => r.rnw)
      /\ words \in Seq(Values) /\ owed \in Seq(Values) /\ log \in Seq(Accs)
      /\ dread \in Values /\ posted \in Values /\ serial \in Values
      /\ RetryMod \in Nat /\ waitRetry \in Nat /\ waitRetry < RetryMod
  BY <1>1, BlockFacts
<1>3. /\ tfrReq = r /\ readBDelay = Posts(r)
      /\ readBIgnore => Posts(r) /\ done = 0 /\ owed = << >> /\ LogHas(0)
      /\ ~readBIgnore /\ Posts(r) => owed = Append(words, posted) /\ (LogHas(done) \/ LogHas(done + 1))
      /\ ~Posts(r) => owed = words /\ LogHas(done)
      /\ Len(words) = (IF r.rnw THEN done ELSE 0)
      /\ ~r.rnw => LeftFrom(done + 1) /\ tfrData = packet.accesses[done + 1].data
      /\ IF waitRetry = 0 THEN tries < RetryMod /\ retries = (IF tries = 0 THEN 0 ELSE RetryMod - tries)
         ELSE tries < waitRetry /\ retries = waitRetry - tries
  BY <1>1 DEF CallInv, BlockInv
<1>4. /\ ack' = "WAIT" => /\ st' = IF Spent # 0 THEN "BLOCK_ISSUE" ELSE "IDLE"
                          /\ retries' = Spent /\ UNCHANGED <<count, done, words, readBIgnore>>
      /\ ack' \notin {"OK", "WAIT"} =>
           st' = "IDLE" /\ retries' = Spent /\ UNCHANGED <<count, done, words, readBIgnore>>
      /\ ack' = "OK" => /\ readBIgnore' = FALSE
                        /\ IF readBIgnore THEN UNCHANGED <<count, done, words>>
                           ELSE /\ count' = (count + RetryMod - 1) % RetryMod /\ done' = done + 1
                                /\ IF r.rnw THEN words' = Append(words, dread') ELSE words' = words
                        /\ retries' = IF more THEN waitRetry ELSE Spent
                        /\ st' = IF ~more THEN "IDLE" ELSE IF r.rnw THEN "BLOCK_ISSUE" ELSE "BLOCK_DATA"
  BY <1>3 DEF BlockIssue
<1>5. /\ CallTypes /\ readBIgnore \in BOOLEAN /\ tries \in Nat /\ retries \in 0 .. RetryMod - 1
      /\ ack' \in {"OK", "PERR", "WAIT", "ERROR"}
  BY <1>1 DEF Access, CallInv, CallTypes
<1>6. Posts(r)' = Posts(r) /\ r' = r
  BY <1>1 DEF Posts
\* The attempts.
<1>7. Spent = IF retries = 0 THEN RetryMod - 1 ELSE retries - 1
  BY <1>5, SpentIs DEF Spent
<1>8. /\ Spent \in 0 .. RetryMod - 1
      /\ ack' # "OK" => /\ tries' = tries + 1
                        /\ Spent = IF waitRetry = 0 THEN RetryMod - tries' ELSE waitRetry - tries'
  <2>1. Spent \in 0 .. RetryMod - 1
    BY <1>2, <1>5, <1>7
  <2>2. ack' # "OK" => tries' = tries + 1
    BY <1>1, <1>2, <1>3, <1>5 DEF Tried
  <2>3. ack' # "OK" => Spent = IF waitRetry = 0 THEN RetryMod - tries' ELSE waitRetry - tries'
    BY <1>2, <1>3, <1>5, <1>7, <2>2, SMTT(30)
  <2> QED
    BY <2>1, <2>2, <2>3
<1>9. AttemptsInv'
  <2>1. tries' <= IF waitRetry = 0 THEN RetryMod ELSE waitRetry
    BY <1>1, <1>2, <1>3, <1>5, <1>8
  <2>2. waitRetry' = waitRetry /\ packet' = packet /\ st' \in {"BLOCK_ISSUE", "BLOCK_DATA", "IDLE"}
    BY <1>1, <1>4, <1>5
  <2> QED
    BY <1>2, <2>1, <2>2 DEF AttemptsInv, TriesBounded
\* What the target does with the access.
<1>10. ~accepted => UNCHANGED <<posted, serial, owed, log, dread>>
  BY <1>1, <1>5 DEF Access
<1>11. accepted =>
         /\ log' = Append(log, [req |-> r, data |-> IF r.rnw THEN 0 ELSE tfrData])
         /\ ~r.rnw => owed' = owed
         /\ r.rnw => owed' = Append(owed, serial)
         /\ Posts(r) => dread' = posted /\ posted' = serial
         /\ r.rnw /\ ~Posts(r) => dread' = serial
         /\ serial' \in 0 .. SerialMod - 1 /\ dread' \in Values /\ posted' \in Values /\ owed' \in Seq(Values)
  BY <1>1, <1>2, <1>3, <1>5, AcceptRequest DEF Access
<1>12. ASSUME accepted, NEW m \in Nat, LogHas(m), r.rnw \/ m = done
       PROVE  LogHas(m + 1)' /\ log' \in Seq(Accs)
  <2>1. r.rnw \/ (m < packet.n /\ tfrData = packet.accesses[m + 1].data)
    BY <1>2, <1>3, <1>12
  <2>2. LET x == [req |-> packet.req, data |-> IF packet.req.rnw THEN 0 ELSE tfrData]
        IN  AreMade(Append(log, x), packet, m + 1) /\ Append(log, x) \in Seq(Accs)
    BY <1>2, <1>12, <2>1, BlockMade DEF LogHas
  <2> QED
    BY <1>1, <1>11, <1>12, <2>2 DEF LogHas
<1>13. /\ log' \in Seq(Accs)
       /\ ~accepted => \A m \in Nat : LogHas(m) => LogHas(m)'
  <2>1. CASE accepted
    <3>1. (LogHas(0) /\ done = 0) \/ LogHas(done) \/ (r.rnw /\ LogHas(done + 1))
      BY <1>2, <1>3, <1>5
    <3>2. done + 1 \in Nat /\ done \in Nat
      BY <1>2
    <3> HIDE DEF accepted
    <3> QED
      BY <1>12, <2>1, <3>1, <3>2
  <2>2. CASE ~accepted
    BY <1>1, <1>2, <1>10, <2>2 DEF LogHas
  <2> QED
    BY <2>1, <2>2, <1>1, <1>10 DEF LogHas
<1>14. words' \in Seq(Values)
  <2>1. words \in Seq(Values)
    BY <1>2
  <2>2. words' = words \/ (ack' = "OK" /\ words' = Append(words, dread'))
    BY <1>4, <1>5
  <2>3. ack' = "OK" => dread' \in Values
    BY <1>11
  <2> HIDE DEF Values
  <2> QED
    BY <2>1, <2>2, <2>3, AppendProperties
<1>15. CallTypes'
  <2>1. count' \in Nat /\ done' \in Nat /\ readBIgnore' \in BOOLEAN
    <3>1. count \in 0 .. RetryMod - 1 /\ RetryMod \in Nat
      BY <1>2
    <3>2. (count + RetryMod - 1) % RetryMod = IF count = 0 THEN RetryMod - 1 ELSE count - 1
      BY <3>1, SpentIs
    <3>3. (count + RetryMod - 1) % RetryMod \in Nat /\ count \in Nat
      BY <3>1, <3>2
    <3>4. count' = count \/ count' = (count + RetryMod - 1) % RetryMod
      BY <1>4, <1>5
    <3>5. done' = done \/ done' = done + 1
      BY <1>4, <1>5
    <3>6. readBIgnore' = readBIgnore \/ readBIgnore' = FALSE
      BY <1>4, <1>5
    <3>7. count' \in Nat
      BY <3>3, <3>4
    <3>8. done' \in Nat
      BY <1>2, <3>5
    <3> QED
      BY <1>5, <3>6, <3>7, <3>8
  <2>2. retries' \in 0 .. RetryMod - 1 /\ tries' \in Nat
    <3>1. retries' = waitRetry \/ retries' = Spent
      BY <1>4, <1>5
    <3>2. waitRetry \in 0 .. RetryMod - 1
      BY <1>2
    <3>3. tries' = 0 \/ tries' = tries + 1
      BY <1>1, <1>8
    <3>4. tries' \in Nat
      BY <1>5, <3>3
    <3> QED
      BY <1>8, <3>1, <3>2, <3>4
  <2>3. /\ serial' \in 0 .. SerialMod - 1 /\ dread' \in Values /\ posted' \in Values /\ owed' \in Seq(Values)
    BY <1>2, <1>5, <1>10, <1>11 DEF CallTypes
  <2> QED
    BY <1>1, <1>5, <1>13, <1>14, <2>1, <2>2, <2>3 DEF CallTypes
<1>16. CalledInv' /\ ReadyInv' /\ BeginInv' /\ ProgressInv' /\ ValuesInv'
  <2>1. packet' = packet /\ st' \in {"BLOCK_ISSUE", "BLOCK_DATA", "IDLE"}
    BY <1>1, <1>4, <1>5
  <2> QED
    BY <1>2, <2>1 DEF CalledInv, ReadyInv, BeginInv, ProgressInv, ValuesInv, Working
<1>17. BlockInv' /\ OverInv'
  <2>1. CASE ack' \in {"WAIT", "ERROR"}
    <3>1. ~accepted /\ UNCHANGED <<posted, owed, log, count, done, words, readBIgnore>>
      BY <1>4, <1>10, <2>1
    <3>2. LogHas(0) => LogHas(0)'
      BY <1>1, <3>1 DEF LogHas
    <3>3. (LogHas(done) => LogHas(done)') /\ (LogHas(done + 1) => LogHas(done + 1)')
      BY <1>1, <3>1 DEF LogHas
    <3>4. LeftFrom(done + 1) => LeftFrom(done + 1)'
      BY <1>1, <3>1 DEF LeftFrom
    <3>5. CASE st' = "BLOCK_ISSUE"
      <4>1. ack' = "WAIT" /\ Spent # 0 /\ retries' = Spent
        BY <1>4, <2>1, <3>5
      <4>2. IF waitRetry = 0
            THEN tries' < RetryMod /\ retries' = (IF tries' = 0 THEN 0 ELSE RetryMod - tries')
            ELSE tries' < waitRetry /\ retries' = waitRetry - tries'
        BY <1>2, <1>5, <1>8, <4>1
      <4>3. BlockInv'
        BY <1>1, <1>2, <1>3, <1>6, <3>1, <3>2, <3>3, <3>4, <3>5, <4>2 DEF BlockInv
      <4> QED
        BY <3>5, <4>3 DEF OverInv
    <3>6. CASE st' = "IDLE"
      <4>1. (LogHas(0) /\ done = 0) \/ LogHas(done) \/ LogHas(done + 1)
        BY <1>2, <1>3, <1>5
      <4>2. Len(log') <= packet'.n /\ LogHas(Len(log))'
        BY <1>1, <1>2, <3>2, <3>3, <3>1, <4>1 DEF LogHas, AreMade
      <4>3. IsPrefix(words', owed')
        <5>1. words = << >> \/ owed = words \/ owed = Append(words, posted)
          BY <1>2, <1>3, <1>5
        <5>2. readBIgnore => words = owed
          <6>1. readBIgnore => Len(words) = 0
            BY <1>2, <1>3
          <6> QED
            BY <1>2, <1>3, <6>1
        <5>3. owed = words \/ owed = Append(words, posted)
          BY <1>2, <1>3, <1>5, <5>2
        <5> QED
          BY <1>2, <3>1, <5>3, WordsFirst
      <4> QED
        BY <1>1, <1>2, <2>1, <3>6, <4>2, <4>3, SMTT(30) DEF BlockInv, OverInv, WordsRight, CallOver, Good
    <3> QED
      BY <1>4, <2>1, <3>5, <3>6
  <2>2. CASE accepted /\ readBIgnore
    <3>1. /\ Posts(r) /\ done = 0 /\ r.rnw /\ LogHas(done + 1)' /\ posted' = serial
          /\ words = << >> /\ owed' = Append(words, posted')
      <4>1. Posts(r) /\ done = 0 /\ owed = << >> /\ LogHas(0) /\ r.rnw
        BY <1>2, <1>3, <2>2
      <4>2. LogHas(1)'
        <5> HIDE DEF accepted
        <5>1. LogHas(0 + 1)'
          BY <1>12, <2>2, <4>1
        <5> QED
          BY <5>1
      <4>3. words = << >>
        <5>1. Len(words) = 0
          BY <1>3, <4>1
        <5> QED
          BY <1>2, <5>1
      <4>4. done' = done
        BY <1>4, <1>5, <2>2
      <4>5. LogHas(done + 1)'
        BY <4>1, <4>2, <4>4
      <4> QED
        BY <1>11, <2>2, <4>1, <4>3, <4>5
    <3>2. UNCHANGED <<count, done, words>>
      BY <1>4, <1>5, <2>2
    <3>3. CASE ack' = "OK"
      <4>1. st' = "BLOCK_ISSUE" /\ readBIgnore' = FALSE /\ retries' = waitRetry /\ tries' = 0
        BY <1>1, <1>4, <2>2, <3>1, <3>3
      <4>2. IF waitRetry = 0
            THEN tries' < RetryMod /\ retries' = (IF tries' = 0 THEN 0 ELSE RetryMod - tries')
            ELSE tries' < waitRetry /\ retries' = waitRetry - tries'
        BY <1>2, <4>1
      <4>3. BlockInv'
        BY <1>1, <1>2, <1>3, <1>6, <3>1, <3>2, <4>1, <4>2 DEF BlockInv
      <4> QED
        BY <4>1, <4>3 DEF OverInv
    <3>4. CASE ack' = "PERR"
      <4>1. st' = "IDLE"
        BY <1>4, <3>4
      <4>2. Len(log') <= packet'.n /\ LogHas(Len(log))'
        BY <1>1, <1>2, <3>1, <3>2 DEF LogHas, AreMade
      <4>3. IsPrefix(words', owed')
        BY <1>2, <3>1, <3>2, <1>11, <2>2, WordsFirst
      <4> QED
        BY <1>1, <1>2, <3>4, <4>1, <4>2, <4>3 DEF BlockInv, OverInv, WordsRight, CallOver, Good
    <3> QED
      BY <2>2, <3>3, <3>4
  <2>3. CASE accepted /\ ~readBIgnore
    <3> DEFINE sent == IF r.rnw THEN Append(words, dread') ELSE words
    <3>1. owed' = IF Posts(r) THEN Append(sent, posted') ELSE sent
      BY <1>2, <1>3, <1>11, <2>3
    <3>2. LogHas(done + 1) \/ LogHas(done)
      BY <1>2, <1>3, <2>3
    <3>3. \E m \in {done + 1, done + 2} : LogHas(m)' /\ (m = done + 2 => Posts(r))
      <4> SUFFICES \E m \in {done + 1, done + 2} : AreMade(log', packet', m) /\ (m = done + 2 => Posts(r))
        BY DEF LogHas
      <4>1. CASE LogHas(done)
        <5> HIDE DEF accepted
        <5>1. AreMade(log', packet', done + 1)
          BY <1>2, <1>12, <2>3, <4>1 DEF LogHas
        <5> QED
          BY <1>2, <5>1
      <4>2. CASE ~LogHas(done)
        <5>1. Posts(r) /\ r.rnw /\ LogHas(done + 1)
          BY <1>2, <1>3, <2>3, <4>2
        <5> DEFINE m == done + 1
        <5>2. m \in Nat /\ m + 1 = done + 2
          BY <1>2
        <5> HIDE DEF accepted, m
        <5>3. AreMade(log', packet', m + 1)
          BY <1>12, <2>3, <5>1, <5>2 DEF LogHas, m
        <5> QED
          BY <5>1, <5>2, <5>3
      <4> QED
        BY <4>1, <4>2
    <3>4. PICK m \in {done + 1, done + 2} : AreMade(log', packet', m) /\ (m = done + 2 => Posts(r))
      BY <3>3 DEF LogHas
    <3>5. sent \in Seq(Values) /\ Len(sent) = IF r.rnw THEN done + 1 ELSE 0
      BY <1>2, <1>3, <1>11, <2>3
    <3>6. CASE ack' = "OK"
      <4>1. /\ done' = done + 1 /\ words' = sent /\ readBIgnore' = FALSE /\ tries' = 0
            /\ count' = (count + RetryMod - 1) % RetryMod
        BY <1>1, <1>4, <2>3, <3>6
      <4>2. CASE count # 0
        <5>1. count' = packet.n - 1 - done' /\ done' < packet.n
          <6>1. count \in 0 .. RetryMod - 1 /\ count = packet.n - 1 - done /\ packet.n \in Nat /\ done \in Nat
                /\ RetryMod \in Nat /\ done < packet.n
            BY <1>2
          <6>2. count' = count - 1
            BY <4>1, <4>2, <6>1, SpentIs
          <6>3. done' = done + 1
            BY <4>1
          <6> QED
            BY <4>2, <6>1, <6>2, <6>3
        <5>2. st' = IF r.rnw THEN "BLOCK_ISSUE" ELSE "BLOCK_DATA"
          BY <1>4, <3>6, <4>2
        <5>3. retries' = waitRetry
          BY <1>4, <3>6, <4>2
        <5>4. IF waitRetry = 0
              THEN tries' < RetryMod /\ retries' = (IF tries' = 0 THEN 0 ELSE RetryMod - tries')
              ELSE tries' < waitRetry /\ retries' = waitRetry - tries'
          BY <1>2, <4>1, <5>3
        <5>5. /\ Posts(r) => AreMade(log', packet', done') \/ AreMade(log', packet', done' + 1)
              /\ ~Posts(r) => AreMade(log', packet', done')
          <6>1. done' = done + 1 /\ done' + 1 = done + 2
            BY <1>2, <4>1
          <6>2. m = done' \/ (m = done' + 1 /\ Posts(r))
            BY <3>4, <6>1
          <6> HIDE DEF r
          <6> QED
            BY <3>4, <6>2
        <5>6. ~r.rnw => IsRest(left', packet'.stream, done')
          BY <1>1, <1>3, <4>1 DEF LeftFrom
        <5>7. BlockInv'
          BY <1>1, <1>2, <1>3, <1>6, <3>1, <3>5, <4>1, <5>1, <5>2, <5>4, <5>5, <5>6
          DEF BlockInv, LogHas, LeftFrom
        <5> QED
          BY <5>2, <5>7 DEF OverInv
      <4>3. CASE count = 0
        <5>1. st' = "IDLE" /\ done' = packet'.n
          <6>1. ~more
            BY <2>3, <4>3
          <6>2. st' = "IDLE"
            BY <1>4, <3>6, <6>1
          <6>3. packet.n \in Nat /\ done \in Nat /\ packet.n - 1 - done = 0
            BY <1>2, <4>3
          <6>4. done' = packet.n /\ packet' = packet
            BY <1>1, <4>1, <6>3
          <6> QED
            BY <6>2, <6>4
        <5>2. /\ Len(log') = m /\ AreMade(log', packet', Len(log'))
              /\ packet'.n <= m /\ m <= packet'.n + IF Posts(r) THEN 1 ELSE 0
          <6>1. Len(log') = m
            BY <3>4 DEF AreMade
          <6>2. packet'.n = done + 1 /\ done \in Nat
            BY <1>2, <4>1, <5>1
          <6>3. packet'.n <= m /\ m <= packet'.n + IF Posts(r) THEN 1 ELSE 0
            <7> HIDE DEF r
            <7> QED
              BY <3>4, <6>2
          <6> QED
            BY <3>4, <6>1, <6>3
        <5>3. IsPrefix(words', owed')
          BY <1>11, <2>3, <3>1, <3>5, <4>1, WordsFirst
        <5>4. r.rnw => /\ Len(words') = packet'.n
                       /\ Len(owed') = packet'.n + IF Posts(r) THEN 1 ELSE 0
          <6> SUFFICES ASSUME r.rnw PROVE /\ Len(words') = packet'.n
                                          /\ Len(owed') = packet'.n + IF Posts(r) THEN 1 ELSE 0
            OBVIOUS
          <6>1. Len(words') = packet'.n /\ words' \in Seq(Values) /\ owed' = IF Posts(r) THEN Append(words', posted') ELSE words'
            BY <3>1, <3>5, <4>1, <5>1
          <6>2. packet'.n \in Nat
            BY <1>1, <1>2
          <6> QED
            BY <1>2, <1>11, <2>3, <6>1, <6>2, SMTT(30)
        <5>5. WordsRight'
          BY <1>1, <1>2, <1>6, <5>1, <5>3, <5>4 DEF WordsRight, CallOver, Good
        <5>6. readBDelay' => owed' = Append(words', posted')
          BY <1>1, <1>3, <3>1, <4>1
        <5>7. OverInv'
          BY <1>1, <1>2, <1>6, <5>1, <5>2, <5>5, <5>6 DEF OverInv, LogHas
        <5> QED
          BY <5>1, <5>7 DEF BlockInv
      <4> QED
        BY <4>2, <4>3
    <3>7. CASE ack' = "PERR"
      <4>1. st' = "IDLE" /\ words' = words
        BY <1>4, <3>7
      <4>2. Len(log') <= packet'.n + (IF Posts(r) THEN 1 ELSE 0) /\ AreMade(log', packet', Len(log'))
        <5>1. Len(log') = m
          BY <3>4 DEF AreMade
        <5> QED
          BY <1>1, <1>2, <3>4, <5>1
      <4>3. IsPrefix(words', owed')
        BY <1>2, <1>11, <2>3, <3>1, <4>1, WordsFirst
      <4> QED
        BY <1>1, <1>2, <1>6, <3>7, <4>1, <4>2, <4>3 DEF BlockInv, OverInv, WordsRight, CallOver, Good, LogHas
    <3> QED
      BY <2>3, <3>6, <3>7
  <2> QED
    BY <1>5, <2>1, <2>2, <2>3
<1> QED
  BY <1>9, <1>15, <1>16, <1>17 DEF CallInv

-----------------------------------------------------------------------------
LEMMA CallStutter == ASSUME CallInv, UNCHANGED callVars PROVE CallInv'
<1> USE DEF callVars, conf, request, block, budget, target
<1>1. CallTypes' /\ CalledInv' /\ ReadyInv' /\ BeginInv'
  BY DEF CallInv, CallTypes, CalledInv, ReadyInv, BeginInv, Posts
<1>2. ProgressInv'
  BY DEF CallInv, ProgressInv, Working, Own, LogHas, LeftFrom
<1>3. ValuesInv'
  BY DEF CallInv, ValuesInv, Working, Own, Collecting, Posts
<1>4. AttemptsInv'
  BY DEF CallInv, AttemptsInv, TriesBounded
<1>5. BlockInv'
  BY DEF CallInv, BlockInv, Posts, LogHas, LeftFrom
<1>6. OverInv'
  BY DEF CallInv, OverInv, Posts, LogHas, WordsRight, CallOver, Good
<1> QED
  BY <1>1, <1>2, <1>3, <1>4, <1>5, <1>6 DEF CallInv

LEMMA CallInvHolds == ASSUME Plainly PROVE CallSpec => []CallInv
<1>1. ASSUME CallInv, [CallNext]_callVars PROVE CallInv'
  BY <1>1, HostCallsInv, OtherInv, TransferSetupInv, NextRequestInv, KindInv, DataInv, IssueInv, SettleInv,
     TargetAnswersInv, BlockSetupInv, BlockDataInv, BlockIssueInv, CallStutter
  DEF CallNext, Step, Data
<1> QED
  BY <1>1, CallInitInv, PTL DEF CallSpec

\* A call makes each of its requests on the target once, in order and with its own word,
\* tries no more often than it may, and the words it sends are the values its requests
\* read, whatever comes with a later access.
THEOREM CallIsRight == ASSUME Plainly PROVE CallSpec => []CallRight
<1>1. ASSUME CallInv PROVE CallRight
  <2>1. TriesBounded
    BY <1>1 DEF CallInv, AttemptsInv
  <2>2. WordsRight
    BY <1>1 DEF CallInv, OverInv, WordsRight, CallOver
  <2>3. RequestsOnce
    <3> SUFFICES ASSUME CallOver PROVE RequestsOnce
      BY DEF RequestsOnce
    <3> DEFINE posts == packet.call = "BLOCK" /\ Posts(packet.req)
               extra == IF posts THEN <<[req |-> packet.req, data |-> 0]>> ELSE << >>
    <3>1. packet \in Calls
      BY <1>1 DEF CallInv, CalledInv, CallOver
    <3>2. packet.accesses \in Seq(Accs) /\ packet.n \in Nat /\ Len(packet.accesses) = packet.n
      BY <3>1, CallIs
    <3>3. /\ AreMade(log, packet, Len(log)) /\ log \in Seq(Accs)
          /\ Len(log) <= packet.n + IF posts THEN 1 ELSE 0
          /\ Good => done = packet.n /\ Len(log) >= packet.n
      BY <1>1 DEF CallInv, CallTypes, OverInv, CallOver, Good, LogHas
    <3>4. extra \in Seq(Accs)
      <4>1. posts => [req |-> packet.req, data |-> 0] \in Accs
        BY <3>1, BlockIs DEF Accs
      <4> HIDE DEF Accs
      <4> QED
        BY <4>1, Empties
    <3>5. Len(log) <= packet.n \/ (Len(log) = packet.n + 1 /\ extra = <<[req |-> packet.req, data |-> 0]>>)
      BY <3>2, <3>3
    <3>6. /\ IsPrefix(log, packet.accesses \o extra)
          /\ packet.n <= Len(log) => IsPrefix(packet.accesses, log)
      <4> HIDE DEF extra
      <4> QED
        BY <3>2, <3>3, <3>4, <3>5, MadePrefix
    <3> QED
      BY <3>2, <3>3, <3>6 DEF RequestsOnce
  <2> QED
    BY <2>1, <2>2, <2>3 DEF CallRight
<1> QED
  BY <1>1, CallInvHolds, PTL
=============================================================================
