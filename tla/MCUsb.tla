------------------------------- MODULE MCUsb -------------------------------
(***************************************************************************)
(* What answers requests of the USB host, how the device is put together    *)
(* of it, and its LEDs, each by itself: part says which one runs, the       *)
(* others rest in an initial state.                                        *)
(***************************************************************************)
EXTENDS DfuFlash, UsbControl, DescriptorSet, MemBridge, UsbAssembly, SerialLed

CONSTANT Parts

VARIABLE part

vars == <<part, dfuVars, controlVars, descriptorVars, memVars, assemblyVars, ledVars>>

\* One that ends with a block, and one in a block and in the next erase block.
MCImages == {<<1, 2>>, <<1, 3, 2, 4, 5>>}
MCUid == <<7, 8>>
MCRates == {<<1, 0>>, <<0, 1>>}
\* Nothing of a damaged packet, or its first byte.
MCRemains == {<< >>, <<1>>}
\* A descriptor of less than a packet, and one that needs three.
MCSets == <<<<11, 12, 13>>, <<21, 22, 23, 24, 25, 26, 27, 28, 29, 30, 31, 32, 33, 34, 35, 36>>>>
MCSerial == <<7, 8>>
MCWords == {<<1, 2>>, <<2, 1>>}
MCGarbage == {<<3, 3>>}
\* One bit of a colour that is on is set, as in the SoC.
MCBrightness == <<FALSE, TRUE>>

-----------------------------------------------------------------------------
Init ==
  /\ part \in Parts /\ DfuInit /\ ControlInit /\ DescriptorInit /\ MemInit
  /\ AssemblyInit /\ (part # "assembly" => conf = Profile({}, "none"))
  /\ LedInit /\ (part # "leds" => inputs = [i \in Leds |-> {}])

Next ==
  \/ part = "dfu" /\ DfuNext /\ UNCHANGED <<part, controlVars, descriptorVars, memVars, assemblyVars, ledVars>>
  \/ part = "control" /\ ControlNext /\ UNCHANGED <<part, dfuVars, descriptorVars, memVars, assemblyVars, ledVars>>
  \/ part = "descriptors" /\ DescriptorNext /\ UNCHANGED <<part, dfuVars, controlVars, memVars, assemblyVars, ledVars>>
  \/ part = "memory" /\ MemNext /\ UNCHANGED <<part, dfuVars, controlVars, descriptorVars, assemblyVars, ledVars>>
  \/ part = "assembly" /\ AssemblyNext /\ UNCHANGED <<part, dfuVars, controlVars, descriptorVars, memVars, ledVars>>
  \/ part = "leds" /\ LedNext
     /\ UNCHANGED <<part, dfuVars, controlVars, descriptorVars, memVars, assemblyVars>>

\* The fairness of each part, asked for while it runs.
FairSpec ==
  /\ Init /\ [][Next]_vars
  /\ WF_dfuVars(part = "dfu" /\ Host) /\ WF_dfuVars(part = "dfu" /\ Drain)
  /\ WF_dfuVars(part = "dfu" /\ Grant) /\ WF_dfuVars(part = "dfu" /\ Shift)
  /\ WF_dfuVars(part = "dfu" /\ FlashReady)
  /\ WF_dfuVars(part = "dfu" /\ (ReaderWrite \/ ReaderRead))
  /\ WF_dfuVars(part = "dfu" /\ (WriterStart \/ WriterCommand \/ WriterLatched \/ WriterErased
        \/ WriterStatus \/ WriterData \/ WriterAnswer \/ WriterProgrammed))
  /\ WF_controlVars(part = "control" /\ Data) /\ WF_controlVars(part = "control" /\ Status)
  /\ WF_controlVars(part = "control" /\ Divide)
  /\ WF_descriptorVars(part = "descriptors" /\ DescriptorRequested)
  /\ WF_descriptorVars(part = "descriptors" /\ Deliver)
  /\ WF_descriptorVars(part = "descriptors" /\ DescriptorStatus)

-----------------------------------------------------------------------------
Open ==
  \/ part = "dfu" /\ ~Settled
  \/ part = "control" /\ stage # "done"
  \/ part = "descriptors" /\ readStage # "done"

\* What was begun ends: a download is written and leaves no program open, every request
\* is answered or refused, whatever was given up or lost before it.
UsbEnds == Open ~> ~Open
=============================================================================
