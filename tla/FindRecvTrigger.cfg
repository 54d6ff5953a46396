SPECIFICATION Spec
CONSTANTS
    s1 = s1
    s2 = s2
    Slaves <- MCSlaves
    Mailbox <- MCMailbox
    ProcessData <- MCProcessData
    InitCmds <- MCInitCmds
    Requests <- Cyclic
    Faults <- NoFaults
    SplitTrigger = TRUE
    HaveDc = FALSE
INVARIANT RecvOnOpenDevice
