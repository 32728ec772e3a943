-------------------------------- MODULE Bench --------------------------------
(* The bring-up command line (trace_doctor.py with trace_ctrl.py): each       *)
(* invocation is a process of its own that works on the FPGA over UDP, on the *)
(* STM32 through openocd, and on the state file, which it loads and writes    *)
(* back whole and without a lock.  Another invocation or the bench itself may *)
(* move between two steps.  openocd and openFPGALoader are external: a call   *)
(* of theirs works, or fails before or after it did its work, and the command *)
(* stops with its exit code.                                                  *)
EXTENDS Integers, Sequences, FiniteSets, SequencesExt

CONSTANTS
    Procs,          \* invocations that may run at the same time
    Commands,       \* of Program, what may be invoked
    Bitstreams,           \* bitstreams on the disk
    Flash,          \* the one a power cycle boots from the QSPI flash
    Kind(_),        \* what the DEPTH register gives away of a bitstream
    Widths,         \* port widths: "4" is what both ends come up with
    MaxMoves, MaxEvents         \* bounds: of invocations and events together, of events

VARIABLES
    fpga,           \* [up, bit, width, ramp]: answers on UDP, what it runs, CSR 0x08 and 0x09
    stm,            \* [probe, alive, width, etm, pattern]: SWD works, CPU in flash, TPIU and ETM
    state_file,     \* section.key -> value
    out,            \* what the capture file of the ramp test holds
    proc,           \* per invocation where it is; see Idle
    past            \* [starts, events, doubt]: history, and what the file may be wrong about

benchVars == <<fpga, stm, state_file, out, proc, past>>

None == "none"
Idle == [cmd |-> None, arg |-> None, pc |-> 1, mine |-> None, bad |-> FALSE, rc |-> 0, quiet |-> FALSE]
EmptyState == [bit |-> None, fpga_width |-> None, etm_width |-> None, etm |-> None]
SaveStep == [bit |-> "save_bit", fpga_width |-> "save_fpga_width", etm_width |-> "save_etm_width", etm |-> "save_etm"]

\* The steps of each command, in the order of the code; open empties the file and save_x
\* writes the copy of the last load back with x in it.
Program == [
    burn_fpga |-> <<"burn", "load", "open", "save_bit", "rearm">>,
    tap_set_width |-> <<"csr_width", "load", "open", "save_fpga_width">>,
    etm_width |-> <<"ocd_width", "csr_width", "load", "open", "save_etm_width", "load", "open", "save_fpga_width">>,
    etm_enable |-> <<"ocd_enable", "load", "open", "save_etm">>,
    clear_curtpm |-> <<"ocd_curtpm">>,
    stream_link |-> <<"ramp_on", "bind", "receive", "judge", "ramp_off">>,
    diag |-> <<"L1", "L2", "L3", "L4", "L7">>,
    diag_deep |-> <<"L1", "L2", "L3", "L4", "L7">>]

ASSUME BenchAssumption ==
    /\ Commands \subseteq DOMAIN Program
    /\ None \notin Bitstreams

Running(i) == proc[i].cmd # None /\ proc[i].pc <= Len(Program[proc[i].cmd])
Ended(i) == proc[i].cmd # None /\ ~Running(i)
AtStep(i, step) == Running(i) /\ Program[proc[i].cmd][proc[i].pc] = step

\* A move of i: everyone else's view is disturbed.
Goto(i, p) == proc' = [j \in Procs |-> IF j = i THEN p ELSE [proc[j] EXCEPT !.quiet = FALSE]]
\* What is left of a command that has ended: the verdict, of a test or a diagnosis.
Stop(p, rc) ==
    IF p.cmd \in {"stream_link", "diag", "diag_deep"}
    THEN [Idle EXCEPT !.cmd = p.cmd, !.pc = Len(Program[p.cmd]) + 1, !.rc = rc, !.quiet = p.quiet]
    ELSE Idle
Next1(p) == IF p.pc = Len(Program[p.cmd]) THEN Stop(p, p.rc) ELSE [p EXCEPT !.pc = @ + 1]
Advance(i) == Goto(i, Next1(proc[i]))
Doubted(entries) == [past EXCEPT !.doubt = @ \cup entries]
Fail(i, entries) == Goto(i, Stop(proc[i], 1)) /\ past' = Doubted(entries)

Invoke(i) ==
    /\ ~Running(i)
    /\ past.starts + past.events < MaxMoves
    /\ \E c \in Commands : \E a \in IF c = "burn_fpga" THEN Bitstreams
                                    ELSE IF c \in {"tap_set_width", "etm_width"} THEN Widths ELSE {None} :
        Goto(i, [Idle EXCEPT !.cmd = c, !.arg = a, !.quiet = \A j \in Procs \ {i} : ~Running(j)])
    /\ past' = [past EXCEPT !.starts = @ + 1]
    /\ UNCHANGED <<fpga, stm, state_file, out>>

(***************************************************************************)
(* The state file.                                                         *)
(***************************************************************************)
Entries == DOMAIN EmptyState
Opened(i) == \E key \in Entries : AtStep(i, SaveStep[key])

\* A file that another command has opened to write is empty, and read as if there were none.
state_load(i) ==
    /\ AtStep(i, "load")
    /\ Goto(i, Next1([proc[i] EXCEPT !.mine = state_file]))
    /\ past' = Doubted(IF \E j \in Procs \ {i} : Opened(j) THEN Entries ELSE {})
    /\ UNCHANGED <<fpga, stm, state_file, out>>

state_open(i) ==
    /\ AtStep(i, "open")
    /\ state_file' = EmptyState
    /\ Advance(i)
    /\ UNCHANGED <<fpga, stm, out, past>>

\* Mutant: the file is written with the new entry alone.
SavedAlone(s, key, v) == [EmptyState EXCEPT ![key] = v]

\* The loaded copy with one entry changed: what is written back.
Saved(s, key, v) == [s EXCEPT ![key] = v]

\* A file that another command has written since it was opened is written over, and its
\* rest makes it unreadable if it was longer.
state_save(i) ==
    \E key \in Entries :
        /\ AtStep(i, SaveStep[key])
        /\ \/ state_file' = Saved(proc[i].mine, key, IF key = "etm" THEN "on" ELSE proc[i].arg)
           \/ state_file # EmptyState /\ state_file' = EmptyState
        /\ Advance(i)
        /\ past' = IF state_file # EmptyState THEN Doubted(Entries)
                   ELSE IF proc[i].quiet THEN [past EXCEPT !.doubt = @ \ {key}] ELSE Doubted({key})
        /\ UNCHANGED <<fpga, stm, out>>

(***************************************************************************)
(* Commands to the FPGA.                                                   *)
(***************************************************************************)
\* A CSR write is sent once and the reply is not needed: a lost one looks the same.
write_csr(i, f) ==
    \/ fpga.up /\ fpga' = f /\ Advance(i)
       /\ past' = IF AtStep(i, "ramp_off") THEN [past EXCEPT !.doubt = @ \ {"ramp"}] ELSE past
    \/ fpga' = fpga /\ Goto(i, Next1([proc[i] EXCEPT !.quiet = FALSE]))
       /\ past' = Doubted(IF AtStep(i, "ramp_off") THEN {"ramp"} ELSE {})

set_width(i) ==
    /\ AtStep(i, "csr_width")
    /\ write_csr(i, [fpga EXCEPT !.width = proc[i].arg])
    /\ UNCHANGED <<stm, state_file, out>>

rearm(i) == AtStep(i, "rearm") /\ Advance(i) /\ UNCHANGED <<fpga, stm, state_file, out, past>>

Fresh(bit) == [up |-> fpga.up, bit |-> bit, width |-> "4", ramp |-> FALSE]
burn_fpga(i) ==
    /\ AtStep(i, "burn")
    /\ \/ fpga' = Fresh(proc[i].arg) /\ Advance(i) /\ UNCHANGED past
       \/ Fail(i, {"bit"}) /\ fpga' \in {fpga, Fresh(proc[i].arg)}
    /\ UNCHANGED <<stm, state_file, out>>

\* The ramp test: the source of the stream is switched, a receiver is run, whatever file
\* is there afterwards is judged, and the source is switched back in every case.
stream_selftest(i) ==
    /\ AtStep(i, "ramp_on") \/ AtStep(i, "ramp_off")
    /\ write_csr(i, [fpga EXCEPT !.ramp = AtStep(i, "ramp_on")])
    /\ UNCHANGED <<stm, state_file, out>>

\* Only one receiver can have the port; the exit code of the other is not looked at.
stream_recv_bind(i) ==
    /\ AtStep(i, "bind")
    /\ IF \E j \in Procs : AtStep(j, "receive") THEN Goto(i, [proc[i] EXCEPT !.pc = @ + 2]) ELSE Advance(i)
    /\ UNCHANGED <<fpga, stm, state_file, out, past>>

stream_recv(i) ==
    /\ AtStep(i, "receive")
    /\ out' \in {"empty", "broken"} \cup (IF fpga.up /\ fpga.ramp THEN {"ramp"} ELSE {})
    /\ Advance(i)
    /\ UNCHANGED <<fpga, stm, state_file, past>>

\* An empty file has no break; a missing one raises after the source is switched back.
Rc(file) == IF file \in {"ramp", "empty"} THEN 0 ELSE 1

judge(i) ==
    /\ AtStep(i, "judge")
    /\ Goto(i, Next1([proc[i] EXCEPT !.rc = Rc(out)]))
    /\ UNCHANGED <<fpga, stm, state_file, out, past>>

(***************************************************************************)
(* Commands to the STM32.                                                  *)
(***************************************************************************)
\* The TPIU takes the width only when its software lock is opened first, as the command
\* does; the enable script resets the core, sets the port to 4 bits and starts the ETM.
Ocd(step, p) ==
    CASE step = "ocd_width" -> [stm EXCEPT !.width = p.arg]
      [] step = "ocd_enable" -> [stm EXCEPT !.width = "4", !.etm = TRUE, !.alive = TRUE]
      [] step = "ocd_curtpm" -> [stm EXCEPT !.pattern = FALSE]

\* What the file says of it.
Recorded(step) == IF step = "ocd_width" THEN {"etm_width"} ELSE IF step = "ocd_enable" THEN {"etm"} ELSE {}

openocd(i) ==
    \E step \in {"ocd_width", "ocd_enable", "ocd_curtpm"} :
        /\ AtStep(i, step)
        /\ \/ stm.probe /\ stm' = Ocd(step, proc[i]) /\ Advance(i) /\ UNCHANGED past
           \/ Fail(i, Recorded(step)) /\ stm' \in {stm} \cup (IF stm.probe THEN {Ocd(step, proc[i])} ELSE {})
        /\ UNCHANGED <<fpga, state_file, out>>

(***************************************************************************)
(* The layered diagnosis.                                                  *)
(***************************************************************************)
\* Whether the DEPTH read back contradicts the bitstream the state file names.
Drift == LET named == IF state_file.bit = None THEN None ELSE Kind(state_file.bit)
         IN  /\ Kind(fpga.bit) \in {"pin_la", "clktap"}
             /\ named \in {"pin_la", "clktap"}
             /\ named # Kind(fpga.bit)

\* Whether a layer may report issues: L1 SWD, L2 status and drift, L3 three answers in a
\* row, L4 the wire test on pin_la alone, L7 the ETM registers and the CPU.
Issues(layer) ==
    CASE layer = "L1" -> {~stm.probe}
      [] layer = "L2" -> IF fpga.up THEN {Drift} ELSE {TRUE}
      [] layer = "L3" -> IF fpga.up THEN {FALSE, TRUE} ELSE {TRUE}
      [] layer = "L4" -> IF fpga.up /\ Kind(fpga.bit) = "pin_la" THEN {FALSE, TRUE} ELSE {FALSE}
      [] layer = "L7" -> {~(stm.probe /\ stm.alive /\ stm.etm /\ ~stm.pattern)}

With(p, issue) == [p EXCEPT !.bad = @ \/ issue]

\* Stops at the first layer with issues unless --deep is given.
diag(i) ==
    \E layer \in {"L1", "L2", "L3", "L4", "L7"} : \E issue \in Issues(layer) :
        /\ AtStep(i, layer)
        /\ LET p == With(proc[i], issue)
           IN  Goto(i, IF issue /\ p.cmd = "diag" THEN Stop(p, 1)
                       ELSE Next1([p EXCEPT !.rc = IF p.bad THEN 1 ELSE 0]))
        /\ UNCHANGED <<fpga, stm, state_file, out, past>>

(***************************************************************************)
(* The bench itself.                                                       *)
(***************************************************************************)
BenchEvent ==
    /\ past.events < MaxEvents /\ past.starts + past.events < MaxMoves
    /\ \/ fpga' = Fresh(Flash) /\ UNCHANGED stm                     \* power cycle
       \/ fpga' = [fpga EXCEPT !.up = ~@] /\ UNCHANGED stm          \* cable
       \/ stm' = [stm EXCEPT !.alive = FALSE] /\ UNCHANGED fpga     \* the CPU crashes
       \/ stm' = [stm EXCEPT !.probe = ~@] /\ UNCHANGED fpga        \* the probe's USB
    /\ past' = [past EXCEPT !.events = @ + 1, !.doubt = IF fpga'.bit # fpga.bit THEN @ \cup {"bit"} ELSE @]
    /\ proc' = [j \in Procs |-> [proc[j] EXCEPT !.quiet = FALSE]]
    /\ UNCHANGED <<state_file, out>>

BenchInit ==
    /\ fpga = [up |-> TRUE, bit |-> Flash, width |-> "4", ramp |-> FALSE]
    /\ \E on \in BOOLEAN : stm = [probe |-> TRUE, alive |-> TRUE, width |-> "4", etm |-> FALSE, pattern |-> on]
    /\ state_file = EmptyState
    /\ out = None
    /\ proc = [i \in Procs |-> Idle]
    /\ past = [starts |-> 0, events |-> 0, doubt |-> {}]

BenchNext ==
    \/ \E i \in Procs : \/ Invoke(i) \/ state_load(i) \/ state_open(i) \/ state_save(i) \/ set_width(i) \/ rearm(i)
                        \/ burn_fpga(i) \/ stream_selftest(i) \/ stream_recv_bind(i) \/ stream_recv(i)
                        \/ judge(i) \/ openocd(i) \/ diag(i)
    \/ BenchEvent
BenchSpec == BenchInit /\ [][BenchNext]_benchVars

(***************************************************************************)
(* Properties.                                                             *)
(***************************************************************************)
Settled == \A i \in Procs : ~Running(i)
Sure(entry) == entry \notin past.doubt

\* The state file is a cache: between commands, what it says of the bitstream and of the ETM
\* is so, and so are the widths, except those a burn, an enable or a power cycle has put
\* back to 4; and the ramp test has given the stream back.  An entry is in doubt after a
\* command for it that failed, lost its write or did not run alone, and the bitstream after
\* a power cycle: until a command for it has run alone, whatever the others did meanwhile.
\* Only commands that load or write the file while another writes it put all in doubt.
StateFollows ==
    Settled =>
        /\ Sure("bit") => fpga.bit = IF state_file.bit = None THEN Flash ELSE state_file.bit
        /\ Sure("fpga_width") => fpga.width \in {state_file.fpga_width, "4"}
        /\ Sure("etm_width") => stm.width \in {state_file.etm_width, "4"}
        /\ Sure("etm") => (stm.etm <=> state_file.etm # None)
        /\ Sure("ramp") => ~fpga.ramp

\* A diagnosis that ends green, with nothing else moving since it began, means the SWD
\* link works, the FPGA answers, runs no bitstream of another kind than the state file
\* names, and the ETM of a living CPU sends trace rather than the test pattern.
DiagTruthful ==
    \A i \in Procs : (Ended(i) /\ proc[i].cmd \in {"diag", "diag_deep"} /\ proc[i].rc = 0 /\ proc[i].quiet) =>
        stm.probe /\ stm.alive /\ stm.etm /\ ~stm.pattern /\ fpga.up /\ ~Drift

\* The state file and the diagnosis tell the truth under the conditions they can.
BenchRight == StateFollows /\ DiagTruthful
==============================================================================
