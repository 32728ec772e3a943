----------------------------- MODULE UsbAssembly -----------------------------
(***************************************************************************)
(* How soc.py puts the device together: OrbSoC.__init__ runs one add_*       *)
(* after another as its flags say, and each takes pads from the platform     *)
(* (platforms/orbtrace_mini.py), numbers from the allocator                  *)
(* (usb_allocator.py), and adds descriptors, endpoints and request handlers. *)
(* The flags are arguments of orbtrace_builder.py, any of which may be given *)
(* with any other; a profile only sets their defaults.                       *)
(***************************************************************************)
EXTENDS Naturals, Sequences, FiniteSets, SequencesExt, FiniteSetsExt, TLC

VARIABLES
  conf,                 \* the flags
  done_steps, failed,   \* how many steps are done, and whether one raised an error
  taken,                \* pads the platform has given
  domains,              \* clock domains made, and connected
  alloc,                \* USBAllocator
  described, joined,    \* interface descriptors, and first interfaces of associations
  listening,            \* endpoint handlers
  handlers, blacklist,  \* request handlers; what the standard handler leaves alone
  strings,              \* string descriptors, by index
  osSet                 \* the Microsoft OS 2.0 descriptor set

usbVars == <<alloc, described, joined, listening, handlers, blacklist, strings, osSet>>
assemblyVars == <<conf, done_steps, failed, taken, domains, usbVars>>

-----------------------------------------------------------------------------
Confs == [uart : BOOLEAN, debug : BOOLEAN, trace : BOOLEAN, power : BOOLEAN, auto_reset : BOOLEAN,
          reset_csr : BOOLEAN, test_io : BOOLEAN, dfu : {"none", "runtime", "bootloader"}]

Profile(features, dfu) ==
  [f \in {"uart", "debug", "trace", "power", "auto_reset", "reset_csr", "test_io"} |-> f \in features] @@ ("dfu" :> dfu)

Profiles == {Profile({"uart", "debug", "trace", "power"}, "none"),
             Profile({"uart", "auto_reset"}, "bootloader"),
             Profile({"uart", "reset_csr", "test_io"}, "bootloader")}

\* What __init__ does, in its order.
Steps(c) ==
  LET when(flag, steps) == IF flag THEN steps ELSE << >>
  IN <<"crg", "flash", "wrapper", "leds">> \o when(c.auto_reset, <<"auto_reset">>)
     \o when(c.reset_csr, <<"reset_csr">>) \o <<"usb", "serialnumber">> \o when(c.uart, <<"uart">>)
     \o <<"bridge">> \o when(c.trace, <<"trace">>) \o when(c.debug, <<"debug", "dap">>)
     \o when(c.power, <<"power">>) \o <<"platform">> \o when(c.dfu # "none", <<"dfu">>)
     \o when(c.test_io, <<"test_io">>) \o when(~c.auto_reset /\ ~c.test_io, <<"button">>)
     \o <<"version", "microsoft", "finalize">>

Gpio == {"gpio0", "gpio1", "gpio2", "gpio3", "gpio4", "gpio5"}

Platform == {"clk30", "serial_led", "programn", "btn", "debug", "trace", "target_power", "hyperram",
             "spiflash4x", "ulpi", "i2c"} \cup Gpio

\* The pads a step asks for.
Needs(s) ==
  CASE s = "crg" -> {"clk30"} [] s = "flash" -> {"spiflash4x"} [] s = "leds" -> {"serial_led"}
    [] s = "auto_reset" -> {"programn", "btn"} [] s = "reset_csr" -> {"programn"}
    [] s = "usb" -> {"ulpi"} [] s = "trace" -> {"trace"} [] s = "debug" -> {"debug"}
    [] s = "dap" -> {"gpio0"} [] s = "power" -> {"target_power"}
    [] s = "platform" -> {"i2c", "hyperram"} [] s = "button" -> {"btn"}
    [] s = "test_io" -> {"debug", "trace", "btn"} \cup Gpio
    [] OTHER -> {}

\* The clock domains a step makes, and those it connects.
Makes(s) == CASE s = "crg" -> {"sys", "usb"} [] s = "debug" -> {"debug", "swo", "swo2x"}
              [] s = "trace" -> {"trace"} [] OTHER -> {}
Connects(s) == CASE s = "wrapper" -> {"sys"} [] s = "usb" -> {"usb"} [] s = "debug" -> {"debug"}
                 [] s = "trace" -> {"trace", "swo", "swo2x"} [] OTHER -> {}

-----------------------------------------------------------------------------
\* An interface: the request handler that is made for it ("none" if none is), its GUID ("none"
\* without WinUSB), the strings of its alternate settings ("" without one), and its endpoints
\* as described and, where size is not 0, as they are listened to.
Interface(of, guid, name, eps) == [of |-> of, guid |-> guid, names |-> <<name>>, eps |-> eps]
In(packet, size) == [dir |-> "in", packet |-> packet, size |-> size]
Out(packet, size) == [dir |-> "out", packet |-> packet, size |-> size]

UartFunction == <<Interface("acm", "none", "", <<In(512, 0)>>),
                  Interface("none", "none", "", <<In(512, 512), Out(512, 512)>>)>>
TraceFunction == <<Interface("trace", "0054", "Trace", <<In(512, 512)>>),
                   Interface("trace", "0058", "Control Proxy", << >>)>>
DapFunction == <<Interface("none", "none", "CMSIS-DAP v1", <<In(64, 64), Out(64, 65)>>),
                 Interface("none", "cdb3b5ad", "CMSIS-DAP v2", <<Out(512, 512), In(512, 512)>>)>>
PowerFunction == <<Interface("power", "0050", "Target power", << >>)>>
VersionFunction == <<Interface("none", "0056", "Version", << >>)>>
DfuFunction ==
  LET areas == <<"Application software", "Application gateware", "Bootloader gateware">>
  IN <<[Interface("dfu", "8044", "", << >>) EXCEPT !.names = IF conf.dfu = "runtime" THEN @ ELSE areas]>>

Taken(a) == [a EXCEPT !.interface = @ + 1]

Allocated(a, i) ==
  LET numbered == IF i.guid = "none" THEN a
                  ELSE [a EXCEPT !.winusb = Append(@, a.interface), !.guids = (a.interface :> i.guid) @@ @]
      count(dir) == Cardinality({k \in DOMAIN i.eps : i.eps[k].dir = dir})
  IN [Taken(numbered) EXCEPT !.in = @ + count("in"), !.out = @ + count("out")]

\* Endpoint k of an interface gets the next number of its direction.
Number(a, eps, k) == LET dir == eps[k].dir
                     IN a[dir] + Cardinality({j \in 1 .. k - 1 : eps[j].dir = dir})

Endpoints(a, i) == [k \in DOMAIN i.eps |-> [i.eps[k] EXCEPT !.dir = <<@, Number(a, i.eps, k)>>]]

Descriptors(a, i) ==
  [k \in DOMAIN i.names |->
     [number |-> a.interface, alternate |-> k - 1, of |-> i.of, guid |-> i.guid, eps |-> Endpoints(a, i)]]

\* A string gets an index when a descriptor names it for the first time.
Indexed(known, names) ==
  FoldLeft(LAMBDA s, n : IF n = "" \/ Contains(s, n) THEN s ELSE Append(s, n), known, names)

\* The interfaces of a function, one after another.  GUIDs must differ.
AddInterfaces(fn) ==
  LET allocs == [k \in 0 .. Len(fn) |-> FoldLeft(Allocated, alloc, SubSeq(fn, 1, k))]
  IN /\ \A k \in DOMAIN fn : fn[k].guid \notin Range(allocs[k - 1].guids)
     /\ alloc' = allocs[Len(fn)]
     /\ described' = described \o FlattenSeq([k \in DOMAIN fn |-> Descriptors(allocs[k - 1], fn[k])])
     /\ listening' = listening \cup {e \in UNION {Range(Endpoints(allocs[k - 1], fn[k])) : k \in DOMAIN fn} : e.size # 0}
     /\ strings' = Indexed(strings, FlattenSeq([k \in DOMAIN fn |-> fn[k].names]))

-----------------------------------------------------------------------------
\* A request of the host: of the index, the low byte and whether the high byte is 0.
HostRequest(type, recipient, request, value, index, plain) ==
  [type |-> type, recipient |-> recipient, request |-> request, value |-> value, index |-> index, plain |-> plain]

StringRequest(n) == HostRequest("STANDARD", "DEVICE", "GET_DESCRIPTOR", <<"STRING", n>>, 0, TRUE)
Nothing == <<"ANY", 0>>

Handler(kind, ids) == [kind |-> kind, ids |-> ids]

Listed(r) == \E b \in blacklist : /\ b.request = r.request
                                 /\ b.recipient \in {"ANY", r.recipient} /\ b.value \in {Nothing, r.value}

Claims(h, r) ==
  \/ h.kind \in {"acm", "dfu"} /\ r.recipient = "INTERFACE" /\ r.index \in h.ids /\ r.plain
  \/ h.kind \in {"trace", "power"} /\ r.recipient = "INTERFACE" /\ r.index \in h.ids
  \/ h.kind = "serial" /\ \E n \in h.ids : r = StringRequest(n)
  \/ h.kind = "memory" /\ r.type = "VENDOR" /\ r.recipient = "3" /\ r.request = "0"
  \/ h.kind = "windows" /\ r.type = "VENDOR" /\ r.recipient = "DEVICE" /\ r.index \in {7, 8}
  \/ h.kind = "standard" /\ r.type = "STANDARD" /\ ~Listed(r)

AddHandler(h) == handlers' = Append(handlers, h)

\* The numbers the next interfaces will get.
Next1 == {alloc.interface}
Next2 == Next1 \cup {alloc.interface + 1}

-----------------------------------------------------------------------------
AssemblyInit ==
  /\ conf \in Confs /\ done_steps = 0 /\ failed = FALSE
  /\ taken = {} /\ domains = [made |-> {}, connected |-> {}]
  /\ alloc = [interface |-> 0, in |-> 1, out |-> 1, winusb |-> << >>, guids |-> << >>]
  /\ described = << >> /\ joined = {} /\ listening = {} /\ handlers = << >> /\ blacklist = {}
  /\ strings = << >> /\ osSet = [first |-> << >>, total |-> 0, announced |-> 0]

\* The pads of the step are still there, and so is the trace core that the SWO pin is wired to.
CanDo(s) == Needs(s) \subseteq Platform \ taken /\ (s = "debug" => conf.trace)

Assembled == done_steps = Len(Steps(conf))
Turn == Steps(conf)[done_steps + 1]

Do(s) ==
  /\ ~failed /\ ~Assembled /\ Turn = s /\ CanDo(s)
  /\ done_steps' = done_steps + 1 /\ taken' = taken \cup Needs(s)
  /\ domains' = [made |-> domains.made \cup Makes(s), connected |-> domains.connected \cup Connects(s)]
  /\ UNCHANGED <<conf, failed>>

\* A pad that is gone, or an attribute that is not there, raises an error.
Fail ==
  /\ ~failed /\ ~Assembled /\ ~CanDo(Turn)
  /\ failed' = TRUE /\ UNCHANGED <<conf, done_steps, taken, domains, usbVars>>

\* What has nothing to do with USB.
Plain == {"crg", "flash", "wrapper", "leds", "auto_reset", "reset_csr", "debug", "platform", "test_io", "button"}

AddPlain == \E s \in Plain : Do(s) /\ UNCHANGED usbVars

AddUsb ==
  /\ Do("usb") /\ strings' = <<"Orbcode", "Orbtrace", "N/A">>
  /\ UNCHANGED <<alloc, described, joined, listening, handlers, blacklist, osSet>>

SerialIndex == CHOOSE n \in DOMAIN strings : strings[n] = "N/A"

\* Mutant of SerialListed: the standard handler is not told of the string.
SerialListedNot == {}

SerialListed == {[recipient |-> "DEVICE", request |-> "GET_DESCRIPTOR", value |-> <<"STRING", SerialIndex>>]}

AddSerialNumber ==
  /\ Do("serialnumber") /\ AddHandler(Handler("serial", {SerialIndex}))
  /\ blacklist' = blacklist \cup SerialListed
  /\ UNCHANGED <<alloc, described, joined, listening, strings, osSet>>

AddUart ==
  /\ Do("uart") /\ AddInterfaces(UartFunction) /\ AddHandler(Handler("acm", Next1))
  /\ joined' = joined \cup {alloc.interface} /\ UNCHANGED <<blacklist, osSet>>

AddBridge ==
  /\ Do("bridge") /\ AddHandler(Handler("memory", {}))
  /\ UNCHANGED <<alloc, described, joined, listening, blacklist, strings, osSet>>

AddTrace ==
  /\ Do("trace") /\ AddInterfaces(TraceFunction) /\ AddHandler(Handler("trace", Next2))
  /\ UNCHANGED <<joined, blacklist, osSet>>

AddDap ==
  /\ Do("dap") /\ AddInterfaces(DapFunction) /\ UNCHANGED <<joined, handlers, blacklist, osSet>>

AddPower ==
  /\ Do("power") /\ AddInterfaces(PowerFunction) /\ AddHandler(Handler("power", Next1))
  /\ UNCHANGED <<joined, blacklist, osSet>>

AddDfu ==
  /\ Do("dfu") /\ AddInterfaces(DfuFunction) /\ AddHandler(Handler("dfu", Next1))
  /\ UNCHANGED <<joined, blacklist, osSet>>

AddVersion ==
  /\ Do("version") /\ AddInterfaces(VersionFunction) /\ UNCHANGED <<joined, handlers, blacklist, osSet>>

\* Headers, and for a function its compatible id (20) and the property with its GUID, whose
\* name has 19 letters and whose value 38, two bytes each and as many to end them.
SetHeader == 10
SubsetHeader == 8
FunctionLength(a, i) ==
  SubsetHeader + 20 + (IF i \in DOMAIN a.guids THEN 10 + 2 * (19 + 1) + 2 * (38 + 1) ELSE 0)

AddMicrosoft ==
  LET subset == SubsetHeader + FoldLeft(LAMBDA n, i : n + FunctionLength(alloc, i), 0, alloc.winusb)
  IN /\ Do("microsoft") /\ AddHandler(Handler("windows", {}))
     /\ osSet' = [first |-> alloc.winusb, total |-> SetHeader + subset, announced |-> SetHeader + subset]
     /\ UNCHANGED <<alloc, described, joined, listening, blacklist, strings>>

\* The configuration is emitted, and the standard handler is the first on the control endpoint.
FinalizeUsb ==
  /\ Do("finalize") /\ handlers' = <<Handler("standard", {})>> \o handlers
  /\ blacklist' = blacklist \cup {[recipient |-> "ANY", request |-> "SET_INTERFACE", value |-> Nothing]}
  /\ UNCHANGED <<alloc, described, joined, listening, strings, osSet>>

AssemblyNext ==
  \/ AddPlain \/ AddUsb \/ AddSerialNumber \/ AddUart \/ AddBridge \/ AddTrace \/ AddDap \/ AddPower
  \/ AddDfu \/ AddVersion \/ AddMicrosoft \/ FinalizeUsb \/ Fail

-----------------------------------------------------------------------------
Built == Assembled /\ domains.connected \subseteq domains.made

\* Flags that cannot be given together: the test pins are those of debug, trace and button, the
\* automatic and the commanded reset drive one pin, and debug and trace need each other, for the
\* SWO pin is on the one side and its decoder on the other.
Conflict ==
  \/ conf.test_io /\ (conf.debug \/ conf.trace \/ conf.auto_reset)
  \/ conf.auto_reset /\ conf.reset_csr
  \/ conf.debug # conf.trace

Numbers == {described[k].number : k \in DOMAIN described}
InterfacesRight ==
  /\ Numbers = 0 .. alloc.interface - 1
  /\ \A n \in Numbers : LET alternates == {k \in DOMAIN described : described[k].number = n}
                       IN {described[k].alternate : k \in alternates} = 0 .. Cardinality(alternates) - 1
  /\ \A j, k \in DOMAIN described : described[j].alternate = 0 /\ described[k].alternate = 0 /\ j < k
                                     => described[j].number < described[k].number
  /\ joined = {n \in Numbers : \E k \in DOMAIN described : described[k].number = n /\ described[k].of = "acm"}
  /\ \A n \in joined : n + 1 \in Numbers

\* Every endpoint is described once, and listened to with room for what it is described to send,
\* all but the one for the notifications of the UART.
EndpointsRight ==
  LET all == {<<k, j>> \in (DOMAIN described) \X (1 .. 2) : j <= Len(described[k].eps)}
      Ep(e) == described[e[1]].eps[e[2]]
  IN /\ \A e, f \in all : Ep(e).dir = Ep(f).dir => e = f
     /\ listening = {Ep(e) : e \in {f \in all : described[f[1]].of # "acm"}}
     /\ \A e \in listening : e.size >= e.packet

\* Windows gets its own driver for the interfaces with a GUID, and no two have the same.
WindowsRight ==
  /\ Range(osSet.first) = {described[k].number : k \in {j \in DOMAIN described : described[j].guid # "none"}}
  /\ Len(osSet.first) = Cardinality(DOMAIN alloc.guids) /\ IsInjective(alloc.guids)
  /\ osSet.announced = SetHeader + SubsetHeader + 156 * Len(osSet.first)

\* A request to an interface, a class's or a vendor's or the choice of a setting, goes to the
\* handler made for that interface and no other, a string to the standard handler or, the serial
\* number, to its own, and so the memory bridge's and the descriptor set's.
Claimants(r) == {handlers[k].kind : k \in {j \in DOMAIN handlers : Claims(handlers[j], r)}}
RequestsRight ==
  /\ \A k \in DOMAIN described, plain \in BOOLEAN,
        t \in {<<"CLASS", "1">>, <<"VENDOR", "0">>, <<"STANDARD", "SET_INTERFACE">>} :
       LET claimants == Claimants(HostRequest(t[1], "INTERFACE", t[2], Nothing, described[k].number, plain))
       IN claimants \subseteq {described[k].of} /\ (plain /\ described[k].of # "none" => claimants # {})
  /\ \A n \in DOMAIN strings :
       Claimants(StringRequest(n)) = IF strings[n] = "N/A" THEN {"serial"} ELSE {"standard"}
  /\ Claimants(HostRequest("VENDOR", "3", "0", Nothing, 0, TRUE)) = {"memory"}
  /\ Claimants(HostRequest("VENDOR", "DEVICE", "1", Nothing, 7, TRUE)) = {"windows"}

\* Property (soc.py:48-123): the device is built with the flags of every profile and whatever
\* others do not conflict, and not with those that do; and what is built has its interfaces,
\* endpoints, Windows functions and requests each where they belong and none twice.
AssemblyRight ==
  /\ failed \/ Assembled => Built = ~Conflict
  /\ conf \in Profiles => ~failed
  /\ Built => InterfacesRight /\ EndpointsRight /\ WindowsRight /\ RequestsRight
=============================================================================
