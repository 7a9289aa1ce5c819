---------------------------- MODULE Persistence ----------------------------
(***************************************************************************)
(* StateManager of persist.go as AntiBanClient (wrapper.go) uses it: the   *)
(* known chats of the rate limiter and the warm-up counter are copied into *)
(* the StateManager by saveState, and from there to the state file by      *)
(* Flush, which the auto-save goroutine and Stop call.  The process may    *)
(* crash between any two steps and a new one starts with the same disk.    *)
(*                                                                         *)
(* saveState runs in the goroutine of a Disconnected event or inside Stop  *)
(* and takes the StateManager's mutex twice; Flush holds it throughout.    *)
(* The warm-up fields are one number.  A process calls Start and Stop at   *)
(* most once here (SendQueue is about restarting the client).              *)
(***************************************************************************)
EXTENDS Integers, FiniteSets

CONSTANTS
  Chat,        \* chat ids
  EventSaver,  \* goroutines of Disconnected events
  MaxSends,    \* bound: messages sent in one process
  MaxCrashes   \* bound: processes that end

(* Stop runs saveState in a goroutine of its own, called "stop" here.       *)
ASSUME PersistenceAssumption ==
  /\ "stop" \notin EventSaver
  /\ MaxSends \in Nat
  /\ MaxCrashes \in Nat

VARIABLES
  phase,    \* the client: "new", "up", "stopping" or "stopped"
  path,     \* SetPath has been called
  chats,    \* RateLimiter.knownChats
  warm,     \* WarmUp's counter
  mem,      \* StateManager.state
  dirty,    \* StateManager.dirty
  saver,    \* per goroutine that runs saveState: its step and its copy
  tick,     \* saveTicker.C holds a tick
  auto,     \* the auto-save goroutine: "off", "select" or "gone"
  flush,    \* the Flush that holds the mutex: its step and its caller
  tmp,      \* path + ".tmp" on disk
  file,     \* path on disk
  crashes,  \* processes that have ended
  touched,  \* history: this process has written to StateManager.state
  failed    \* history: this process has met an I/O error

procVars == <<phase, path, chats, warm, mem, dirty, saver, tick, auto, flush,
              touched, failed>>
diskVars == <<tmp, file>>
persistVars == <<procVars, diskVars, crashes>>

Saver == EventSaver \cup {"stop"}

State == [chats : SUBSET Chat, warm : 0 .. MaxSends]
Empty == [chats |-> {}, warm |-> 0]
Missing == [kind |-> "missing", data |-> Empty]
Torn == [kind |-> "torn", data |-> Empty]
Whole(s) == [kind |-> "whole", data |-> s]

NoFlush == [step |-> "none", by |-> "none"]
Unlocked == flush = NoFlush
Idle == [at |-> "idle", warm |-> 0, chats |-> {}]

-----------------------------------------------------------------------------
(* The client.                                                              *)

SetPath ==
  /\ phase = "new"
  /\ Unlocked
  /\ path' = TRUE
  /\ UNCHANGED <<phase, chats, warm, mem, dirty, saver, tick, auto, flush, touched, failed>>
  /\ UNCHANGED <<diskVars, crashes>>

(* Load: a missing file is no error, a torn one is and changes nothing.     *)
Load ==
  /\ phase = "new"
  /\ path
  /\ Unlocked
  /\ IF file.kind = "whole"
     THEN mem' = file.data /\ UNCHANGED failed
     ELSE UNCHANGED mem /\ failed' = (failed \/ file.kind = "torn")
  /\ UNCHANGED <<phase, path, chats, warm, dirty, saver, tick, auto, flush, touched>>
  /\ UNCHANGED <<diskVars, crashes>>

Reset ==
  /\ Unlocked
  /\ mem' = Empty
  /\ dirty' = TRUE
  /\ touched' = TRUE
  /\ UNCHANGED <<phase, path, chats, warm, saver, tick, auto, flush, failed>>
  /\ UNCHANGED <<diskVars, crashes>>

(* Start: RestoreKnownChats of what the StateManager holds in memory, then  *)
(* StartAutoSave.                                                           *)
Start ==
  /\ phase = "new"
  /\ Unlocked
  /\ phase' = "up"
  /\ chats' = chats \cup mem.chats
  /\ auto' = "select"
  /\ UNCHANGED <<path, warm, mem, dirty, saver, tick, flush, touched, failed>>
  /\ UNCHANGED <<diskVars, crashes>>

(* AfterSend: RateLimiter.Record and WarmUp.Record.                         *)
AfterSend(c) ==
  /\ phase \in {"up", "stopping", "stopped"}
  /\ warm < MaxSends
  /\ chats' = chats \cup {c}
  /\ warm' = warm + 1
  /\ UNCHANGED <<phase, path, mem, dirty, saver, tick, auto, flush, touched, failed>>
  /\ UNCHANGED <<diskVars, crashes>>

-----------------------------------------------------------------------------
(* saveState: ExportState, SaveWarmupState, GetKnownChats, SaveKnownChats.  *)

Disconnected(s) ==
  /\ phase \in {"up", "stopping", "stopped"}
  /\ saver[s].at = "idle"
  /\ saver' = [saver EXCEPT ![s].at = "export"]
  /\ UNCHANGED <<phase, path, chats, warm, mem, dirty, tick, auto, flush, touched, failed>>
  /\ UNCHANGED <<diskVars, crashes>>

ExportState(s) ==
  /\ saver[s].at = "export"
  /\ saver' = [saver EXCEPT ![s].at = "saveWarm", ![s].warm = warm]
  /\ UNCHANGED <<phase, path, chats, warm, mem, dirty, tick, auto, flush, touched, failed>>
  /\ UNCHANGED <<diskVars, crashes>>

SaveWarmupState(s) ==
  /\ saver[s].at = "saveWarm"
  /\ Unlocked
  /\ mem' = [mem EXCEPT !.warm = saver[s].warm]
  /\ dirty' = TRUE
  /\ touched' = TRUE
  /\ saver' = [saver EXCEPT ![s].at = "getChats"]
  /\ UNCHANGED <<phase, path, chats, warm, tick, auto, flush, failed>>
  /\ UNCHANGED <<diskVars, crashes>>

GetKnownChats(s) ==
  /\ saver[s].at = "getChats"
  /\ saver' = [saver EXCEPT ![s].at = "saveChats", ![s].chats = chats]
  /\ UNCHANGED <<phase, path, chats, warm, mem, dirty, tick, auto, flush, touched, failed>>
  /\ UNCHANGED <<diskVars, crashes>>

SaveKnownChats(s) ==
  /\ saver[s].at = "saveChats"
  /\ Unlocked
  /\ mem' = [mem EXCEPT !.chats = saver[s].chats]
  /\ dirty' = TRUE
  /\ touched' = TRUE
  /\ saver' = [saver EXCEPT ![s] = Idle]
  /\ phase' = IF s = "stop" THEN "stopped" ELSE phase
  /\ UNCHANGED <<path, chats, warm, tick, auto, flush, failed>>
  /\ UNCHANGED <<diskVars, crashes>>

-----------------------------------------------------------------------------
(* The auto-save goroutine, and Stop.                                       *)

(* A ticker drops the ticks its channel has no room for.                    *)
Tick ==
  /\ phase = "up"
  /\ ~tick
  /\ tick' = TRUE
  /\ UNCHANGED <<phase, path, chats, warm, mem, dirty, saver, auto, flush, touched, failed>>
  /\ UNCHANGED <<diskVars, crashes>>

(* Flush returns at once when there is nothing to save or nowhere to.       *)
BeginFlush(who) ==
  flush' = IF dirty /\ path THEN [step |-> "write", by |-> who] ELSE NoFlush

AutoFlush ==
  /\ auto = "select"
  /\ tick
  /\ Unlocked
  /\ tick' = FALSE
  /\ BeginFlush("auto")
  /\ UNCHANGED <<phase, path, chats, warm, mem, dirty, saver, auto, touched, failed>>
  /\ UNCHANGED <<diskVars, crashes>>

AutoExit ==
  /\ auto = "select"
  /\ flush.by # "auto"
  /\ phase \in {"stopping", "stopped"}
  /\ auto' = "gone"
  /\ UNCHANGED <<phase, path, chats, warm, mem, dirty, saver, tick, flush, touched, failed>>
  /\ UNCHANGED <<diskVars, crashes>>

(* Stop halts the ticker and closes stopCh; its Flush comes next, and then  *)
(* saveState.                                                               *)
StopClient ==
  /\ phase = "up"
  /\ phase' = "stopping"
  /\ UNCHANGED <<path, chats, warm, mem, dirty, saver, tick, auto, flush, touched, failed>>
  /\ UNCHANGED <<diskVars, crashes>>

StopFlush ==
  /\ phase = "stopping"
  /\ saver["stop"].at = "idle"
  /\ Unlocked
  /\ BeginFlush("stop")
  /\ saver' = [saver EXCEPT !["stop"].at = IF dirty /\ path THEN "flush" ELSE "export"]
  /\ UNCHANGED <<phase, path, chats, warm, mem, dirty, tick, auto, touched, failed>>
  /\ UNCHANGED <<diskVars, crashes>>

-----------------------------------------------------------------------------
(* Flush, once it holds the mutex and has something to write.               *)

AfterFlush ==
  /\ flush' = NoFlush
  /\ saver' = IF flush.by = "stop"
              THEN [saver EXCEPT !["stop"].at = "export"]
              ELSE saver

(* Variant: the data go straight to the path.                               *)
TruncateInPlace ==
  /\ flush.step = "write"
  /\ file' = Torn
  /\ flush' = [flush EXCEPT !.step = "data"]
  /\ UNCHANGED <<phase, path, chats, warm, mem, dirty, saver, tick, auto, touched, failed>>
  /\ UNCHANGED <<tmp, crashes>>

(* os.WriteFile truncates first; a crash may leave any part of the data.    *)
Truncate ==
  /\ flush.step = "write"
  /\ tmp' = Torn
  /\ flush' = [flush EXCEPT !.step = "data"]
  /\ UNCHANGED <<phase, path, chats, warm, mem, dirty, saver, tick, auto, touched, failed>>
  /\ UNCHANGED <<file, crashes>>

WriteFile ==
  /\ flush.step = "data"
  /\ tmp' = Whole(mem)
  /\ flush' = [flush EXCEPT !.step = "rename"]
  /\ UNCHANGED <<phase, path, chats, warm, mem, dirty, saver, tick, auto, touched, failed>>
  /\ UNCHANGED <<file, crashes>>

Rename ==
  /\ flush.step = "rename"
  /\ file' = tmp
  /\ tmp' = Missing
  /\ dirty' = FALSE
  /\ AfterFlush
  /\ UNCHANGED <<phase, path, chats, warm, mem, tick, auto, touched, failed>>
  /\ UNCHANGED crashes

(* Variant: the auto-save goroutine returns with the error of its Flush.    *)
WriteFailsForGood ==
  /\ flush.step \in {"write", "data"}
  /\ failed' = TRUE
  /\ AfterFlush
  /\ auto' = IF flush.by = "auto" THEN "gone" ELSE auto
  /\ UNCHANGED <<phase, path, chats, warm, mem, dirty, tick, touched>>
  /\ UNCHANGED <<diskVars, crashes>>

(* MkdirAll or WriteFile fails: the temporary file stays as it is.          *)
WriteFails ==
  /\ flush.step \in {"write", "data"}
  /\ failed' = TRUE
  /\ AfterFlush
  /\ UNCHANGED <<phase, path, chats, warm, mem, dirty, tick, auto, touched>>
  /\ UNCHANGED <<diskVars, crashes>>

(* Variant: a failed rename is taken for a success.                         *)
RenameFailsClean ==
  /\ flush.step = "rename"
  /\ failed' = TRUE
  /\ tmp' = Missing
  /\ dirty' = FALSE
  /\ AfterFlush
  /\ UNCHANGED <<phase, path, chats, warm, mem, tick, auto, touched>>
  /\ UNCHANGED <<file, crashes>>

RenameFails ==
  /\ flush.step = "rename"
  /\ failed' = TRUE
  /\ tmp' = Missing
  /\ AfterFlush
  /\ UNCHANGED <<phase, path, chats, warm, mem, dirty, tick, auto, touched>>
  /\ UNCHANGED <<file, crashes>>

-----------------------------------------------------------------------------
(* A process ends, by a crash or by exit, and the next one begins: New and  *)
(* WrapClient make everything afresh, the disk stays.                       *)
NewProcess ==
  /\ crashes < MaxCrashes
  /\ crashes' = crashes + 1
  /\ phase' = "new"
  /\ path' = FALSE
  /\ chats' = {}
  /\ warm' = 0
  /\ mem' = Empty
  /\ dirty' = FALSE
  /\ saver' = [s \in Saver |-> Idle]
  /\ tick' = FALSE
  /\ auto' = "off"
  /\ flush' = NoFlush
  /\ touched' = FALSE
  /\ failed' = FALSE
  /\ UNCHANGED diskVars

PersistInit ==
  /\ phase = "new"
  /\ path = FALSE
  /\ chats = {}
  /\ warm = 0
  /\ mem = Empty
  /\ dirty = FALSE
  /\ saver = [s \in Saver |-> Idle]
  /\ tick = FALSE
  /\ auto = "off"
  /\ flush = NoFlush
  /\ tmp = Missing
  /\ file = Missing
  /\ crashes = 0
  /\ touched = FALSE
  /\ failed = FALSE

SaveState(s) == ExportState(s) \/ SaveWarmupState(s) \/ GetKnownChats(s) \/ SaveKnownChats(s)

Flush == Truncate \/ WriteFile \/ Rename \/ WriteFails \/ RenameFails

AutoSave == AutoFlush \/ AutoExit

PersistNext ==
  \/ SetPath \/ Load \/ Reset \/ Start \/ StopClient \/ StopFlush
  \/ \E c \in Chat : AfterSend(c)
  \/ \E s \in EventSaver : Disconnected(s)
  \/ \E s \in Saver : SaveState(s)
  \/ Tick \/ AutoSave
  \/ Flush
  \/ NewProcess

PersistSpec == PersistInit /\ [][PersistNext]_persistVars

-----------------------------------------------------------------------------
FlushStep == {"none", "write", "data", "rename"}
Disk == {Missing, Torn} \cup {Whole(s) : s \in State}

(* Every variable has its type.                                             *)
PersistTypeOK ==
  /\ phase \in {"new", "up", "stopping", "stopped"}
  /\ path \in BOOLEAN /\ dirty \in BOOLEAN /\ tick \in BOOLEAN
  /\ touched \in BOOLEAN /\ failed \in BOOLEAN
  /\ chats \subseteq Chat
  /\ warm \in 0 .. MaxSends
  /\ mem \in State
  /\ saver \in [Saver -> [at : {"idle", "flush", "export", "saveWarm", "getChats", "saveChats"},
                          warm : 0 .. MaxSends, chats : SUBSET Chat]]
  /\ auto \in {"off", "select", "gone"}
  /\ flush \in [step : FlushStep, by : {"none", "auto", "stop"}]
  /\ tmp \in Disk /\ file \in Disk
  /\ crashes \in 0 .. MaxCrashes

(* Whenever the process dies, in Flush too, the state file is absent or the *)
(* whole image of some state that was saved: Load never meets a torn one.   *)
NeverTorn == file.kind # "torn"

(* A clean StateManager that has been written to has its contents on disk:  *)
(* no save, failed flush or failed rename leaves dirty unset too early.     *)
CleanMeansSaved == (touched /\ ~dirty) => file = Whole(mem)

(* While a Flush works no one changes the state under it: what a rename     *)
(* puts in place is what the StateManager holds at that moment.             *)
FlushesWhatItHolds == flush.step = "rename" => tmp = Whole(mem)

(* With auto-save running, what is saved in memory reaches the disk unless  *)
(* the process stops or dies: a tick after an I/O error tries again, so     *)
(* only errors that go on for ever can keep it away.                        *)
SavedEventually ==
  \/ []<><<WriteFails \/ RenameFails>>_persistVars
  \/ (phase = "up" /\ dirty /\ path) ~> (~dirty \/ phase # "up")

(* wrapper.go:97, "Stop shuts down the send queue, saves state, and stops   *)
(* auto-save": when Stop has returned and no goroutine is left that could   *)
(* still flush, the saved state is on disk.                                 *)
StopSaves == (phase = "stopped" /\ auto = "gone" /\ path /\ ~failed) => file.data = mem
=============================================================================
