------------------------- MODULE PersistenceProofs -------------------------
(***************************************************************************)
(* The state file is whole whenever the process dies, and a clean          *)
(* StateManager is on disk, for any number of chats, savers, sends and     *)
(* crashes.                                                                *)
(***************************************************************************)
EXTENDS Persistence, TLAPS

(* What the steps of Flush rely on is inductive together with the types of  *)
(* the flush and of the disk.                                               *)
DiskType ==
  /\ flush \in [step : FlushStep, by : {"none", "auto", "stop"}]
  /\ file.kind = "whole" => file = Whole(file.data)
  /\ file.kind \in {"missing", "torn", "whole"}

DiskInv == DiskType /\ NeverTorn /\ CleanMeansSaved /\ FlushesWhatItHolds

(* A new process starts from the disk alone.                                *)
LEMMA InitDisk == PersistInit => DiskInv
  BY DEF PersistInit, DiskInv, DiskType, NeverTorn, CleanMeansSaved, FlushesWhatItHolds,
         Missing, Whole, Empty, NoFlush, FlushStep

(* Every step keeps the invariant: mem changes only under a free mutex, and *)
(* only Rename touches the file, with the image WriteFile made of mem.      *)
LEMMA StepDisk == DiskInv /\ [PersistNext]_persistVars => DiskInv'
<1> SUFFICES ASSUME DiskInv, [PersistNext]_persistVars PROVE DiskInv'
    OBVIOUS
<1> USE DEF DiskInv, DiskType, NeverTorn, CleanMeansSaved, FlushesWhatItHolds,
            Unlocked, NoFlush, FlushStep, diskVars
<1>1. CASE SetPath BY <1>1 DEF SetPath
<1>2. CASE Load BY <1>2 DEF Load, Whole
<1>3. CASE Reset BY <1>3 DEF Reset, Whole
<1>4. CASE Start BY <1>4 DEF Start
<1>5. CASE StopClient BY <1>5 DEF StopClient
<1>6. CASE StopFlush BY <1>6 DEF StopFlush, BeginFlush
<1>7. CASE \E c \in Chat : AfterSend(c) BY <1>7 DEF AfterSend
<1>8. CASE \E s \in EventSaver : Disconnected(s) BY <1>8 DEF Disconnected
<1>9. ASSUME NEW s \in Saver, SaveState(s) PROVE DiskInv'
  <2>1. CASE ExportState(s) BY <2>1 DEF ExportState
  <2>2. CASE SaveWarmupState(s) BY <2>2 DEF SaveWarmupState
  <2>3. CASE GetKnownChats(s) BY <2>3 DEF GetKnownChats
  <2>4. CASE SaveKnownChats(s) BY <2>4 DEF SaveKnownChats
  <2>5. QED BY <1>9, <2>1, <2>2, <2>3, <2>4 DEF SaveState
<1>10. CASE Tick BY <1>10 DEF Tick
<1>11. CASE AutoSave BY <1>11 DEF AutoSave, AutoFlush, AutoExit, BeginFlush
<1>12. CASE Flush
  <2>1. CASE Truncate BY <2>1 DEF Truncate
  <2>2. CASE WriteFile BY <2>2 DEF WriteFile
  <2>3. CASE Rename BY <2>3 DEF Rename, AfterFlush, Whole
  <2>4. CASE WriteFails BY <2>4 DEF WriteFails, AfterFlush
  <2>5. CASE RenameFails BY <2>5 DEF RenameFails, AfterFlush
  <2>6. QED BY <1>12, <2>1, <2>2, <2>3, <2>4, <2>5 DEF Flush
<1>13. CASE NewProcess BY <1>13 DEF NewProcess
<1>14. CASE UNCHANGED persistVars BY <1>14 DEF persistVars, procVars
<1>15. QED
  BY <1>1, <1>2, <1>3, <1>4, <1>5, <1>6, <1>7, <1>8, <1>9, <1>10, <1>11, <1>12,
     <1>13, <1>14 DEF PersistNext

(* The inductive invariant holds in every reachable state.                  *)
THEOREM DiskInvariant == PersistSpec => []DiskInv
  BY InitDisk, StepDisk, PTL DEF PersistSpec

(* Load never meets a torn state file, whenever the previous process died.  *)
THEOREM FileWhole == PersistSpec => []NeverTorn
<1>1. DiskInv => NeverTorn BY DEF DiskInv
<1>2. QED BY DiskInvariant, <1>1, PTL

(* A StateManager that is clean has its contents on disk.                   *)
THEOREM CleanIsSaved == PersistSpec => []CleanMeansSaved
<1>1. DiskInv => CleanMeansSaved BY DEF DiskInv
<1>2. QED BY DiskInvariant, <1>1, PTL
=============================================================================
