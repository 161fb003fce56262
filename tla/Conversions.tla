----------------------------- MODULE Conversions -----------------------------
(***************************************************************************)
(* The parts of the repository that turn one form of data into another:     *)
(* record locks (FileLock), timestamps (TimeConv), mount options            *)
(* (MountOptions), extended attribute replies (XattrRead) and the bytes of  *)
(* a memory_fs file (FileData). They share no state and no code, so one     *)
(* moves only while the others are at rest.                                 *)
(***************************************************************************)
EXTENDS FileLock, TimeConv, MountOptions, XattrRead, FileData

ConvInit == FlockInit /\ TimeInit /\ OptInit /\ XattrInit /\ DataInit

LockRest == stage = "idle"
TimeRest == TimeInit
OptRest == given = <<>> /\ received = <<>>
XattrRest == xattr = {} /\ call = Quiet
DataRest == edits = <<>>

LockStep ==
    /\ TimeRest /\ OptRest /\ XattrRest /\ DataRest
    /\ FlockNext /\ UNCHANGED <<timeVars, optVars, xattrVars, dataVars>>

TimeStep ==
    /\ LockRest /\ OptRest /\ XattrRest /\ DataRest
    /\ TimeNext /\ UNCHANGED <<flockVars, optVars, xattrVars, dataVars>>

OptStep ==
    /\ LockRest /\ TimeRest /\ XattrRest /\ DataRest
    /\ OptNext /\ UNCHANGED <<flockVars, timeVars, xattrVars, dataVars>>

XattrStep ==
    /\ LockRest /\ TimeRest /\ OptRest /\ DataRest
    /\ XattrNext /\ UNCHANGED <<flockVars, timeVars, optVars, dataVars>>

DataStep ==
    /\ LockRest /\ TimeRest /\ OptRest /\ XattrRest
    /\ DataNext /\ UNCHANGED <<flockVars, timeVars, optVars, xattrVars>>

ConvNext == LockStep \/ TimeStep \/ OptStep \/ XattrStep \/ DataStep

ConvSpec == ConvInit /\ [][ConvNext]_<<flockVars, timeVars, optVars, xattrVars, dataVars>>

==============================================================================
