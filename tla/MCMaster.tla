------------------------------ MODULE MCMaster ------------------------------
(* Two slaves: one with every mailbox and both directions of process data, *)
(* one without mailbox and with inputs only.                               *)
EXTENDS Master, TLC

CONSTANTS s1, s2

MCSlaves == {s1, s2}

MCMailbox == s1 :> MailboxDevs @@ s2 :> {}
MCProcessData == s1 :> ProcessDataDevs @@ s2 :> {"pdin"}
MCInitCmds == s1 :> CmdKinds @@ s2 :> {"coe_value"}
WithDataOnly == s1 :> {"coe_data", "soe"} @@ s2 :> {"coe_data"}

Cyclic == {"init", "preop", "safeop", "op"}
WithBoot == ModuleState

NoFaults == {}
AllFaults == {"open", "pre", "post", "al"}

=============================================================================
