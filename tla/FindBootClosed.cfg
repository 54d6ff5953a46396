SPECIFICATION Spec
CONSTANTS
    s1 = s1
    s2 = s2
    Slaves <- MCSlaves
    Mailbox <- MCMailbox
    ProcessData <- MCProcessData
    InitCmds <- MCInitCmds
    Requests <- WithBoot
    Faults <- NoFaults
    SplitTrigger = FALSE
    HaveDc = FALSE
INVARIANT OpenedOutsideInit
