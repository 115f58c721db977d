SPECIFICATION FilesSpec
CONSTANTS
  MaxDepth = 4
  MaxLinks = 2
  Away = "m"
  Trees <- MCTrees
  Commands <- MCCommands
  Meddled <- MCMeddled
  Raced = {"rm"}
  Text = "T"
  MaxFaults = 1
  MaxMeddles = 1
  Block = 2
  Entries0 <- MCEntries
  Grown = "new"
  MaxTrouble = 2
  DdOperands <- MCOperands
  DdInputs <- MCInputs
  DdOutputs <- MCOutputs
  MaxDdFaults = 1
  Hosts <- MCHosts
  Options <- MCOptions
  MaxNames = 2
  MaxKills = 1
  MaxRootFaults = 1
INVARIANTS MoveKeepsData SuccessMeansDone OutsideUntouched TarStaysInStep DdCopiesTheRange DeployedIsWhole
PROPERTIES ToolEnds
CHECK_DEADLOCK FALSE
