SPECIFICATION Spec
CONSTANTS
    Clients = {c1, c2}
    Size = 4
    Chunk = 2
    Values <- Bits
    Lists <- SmallLists
    ListBuffer = 2
    MaxEvents = 1
    Requests <- MCRequests
    Slaves <- SmallSlaves
    Askers <- MCAskers
    Nothing = Nothing
INVARIANTS MemoryTransferred AnswerOfSlave DescriptionDecoded IdnDecoded
PROPERTY OnlyAskedWritten
