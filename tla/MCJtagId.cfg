SPECIFICATION WiresSpec
CONSTANTS
  Parts = {"jtag"}
  Devs = {0, 1}
  Times = {0, 1}
  Clocks = {1, 3}
  Nrsts = {"masked"}
  ClkFreq = 16
  CdivLog2 = 3
  DefaultDiv = 2
  ModeSteps = 1
  Commands <- MCCommands
  AnyModeId = FALSE
  DataBits = 2
  Turnarounds = {0, 1}
  IdleCycles = 2
  Answers <- MCAnswers
  JtagBits = 3
  IrLens <- MCIrLens
  Instructions <- MCInstructions
  Sents <- MCSents
INVARIANTS
  JtagIdRight
