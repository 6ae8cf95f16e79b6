CONSTANTS
 Source = {"telemetry", "results"}
 MaxMessages = 3
 MaxMissions = 2
 NoClass = "none"
 Legs = 2
 MaxCalls = 4
 MaxStates = 3
 Type <- Types
 DataTypes = {"Tag", "Node", "Path", "Num"}
 ActionTypes = {"Act"}
 EventTypes = {"Evt"}
 FieldType <- FieldTable
 Required = {"Act"}
 Name = {"a", "b", "e", "f", "x", "y", "z"}
 Str = "str"
 Plain = "plain"
 Program <- Programs
SPECIFICATION Spec
CHECK_DEADLOCK FALSE
INVARIANTS TypesOK NoReadAfterStop OneCommand AcceptsWellFormed
PROPERTIES ReadsAdvance StateEnds StepsAreRules
