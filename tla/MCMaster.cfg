SPECIFICATION ConvergingSpec
CONSTANTS
    s1 = s1
    s2 = s2
    Slaves <- MCSlaves
    Mailbox <- MCMailbox
    ProcessData <- MCProcessData
    InitCmds <- MCInitCmds
    Requests <- Cyclic
    Faults <- NoFaults
    SplitTrigger = TRUE
    HaveDc = TRUE
INVARIANTS TypeOK ReportedIsReached DevicesOfState OpensClosedDevice
INVARIANTS CoeCommandsInstalled OutputsBound
PROPERTIES ImplementsLadder EveryCallReturns
