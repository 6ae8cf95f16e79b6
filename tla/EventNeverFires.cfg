CONSTANTS
 Source = {"telemetry", "results"}
 MaxMessages = 1
 MaxMissions = 1
 NoClass = "none"
 Legs = 2
 MaxCalls = 1
 MaxStates = 1
 Type <- Types
 DataTypes = {"Tag", "Node", "Path", "Num"}
 ActionTypes = {"Act"}
 EventTypes = {"Evt"}
 FieldType <- FieldTable
 Required = {"Act"}
 Name = {"a", "b", "e", "x", "y"}
 Str = "str"
 Plain = "plain"
 Program <- OneProgram
SPECIFICATION LoopSpec
CHECK_DEADLOCK FALSE
PROPERTIES EventTriggers
