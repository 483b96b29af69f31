---------------------------- MODULE UploadBuffer ----------------------------
(***************************************************************************)
(* The upload buffer of queue_upload_buffer.h: the host's audio thread     *)
(* writes blocks into the ring buffer (processBlock), a detached upload    *)
(* thread waits for them, resamples and submits them (_uploadLoop),        *)
(* control threads change the settings, and the destructor shuts down.     *)
(*                                                                         *)
(* A step is one access to shared state.  mtx is not a variable: only the  *)
(* upload thread ever takes it, notifiers do not, so it excludes nobody.   *)
(* The ring buffer is the number of unread blocks modulo its length, as    *)
(* module RingBuffer implements it (RingCount).                            *)
(***************************************************************************)
EXTENDS Integers

CONSTANTS
    Settings,     \* the settings the resampler is built from
    OutRate,      \* the one reported to the server, _outputSampleRate
    Values,       \* values a setting takes
    NoValue,      \* what a resampler never updated holds (_src = nullptr)
    Setters,      \* control threads that call the setters
    RingBlocks    \* length of the ring buffer, in blocks

ASSUME UploadAssumption ==
    /\ OutRate \in Settings /\ NoValue \notin Values
    /\ RingBlocks \in Nat \ {0}

VARIABLES
    updateRequired,  \* _updateRequired
    doUpload,        \* _doUpload
    settings,        \* _inputSampleRate, _outputSampleRate, _srcQuality
    unread,          \* blocks between the positions of _buffer
    lapped,          \* history: the positions coincide over a lap of unread data
    fooled,          \* history: the look at the ring just made met such a lap
    shutdownMtx,     \* owner of shutdownMtx, or "free"
    asleep,          \* the upload thread is in cond's wait set
    wpc,             \* upload thread: where it is in _uploadLoop
    toLoad,          \* arguments of update() not yet loaded
    args,            \* arguments loaded
    resampler,       \* what _resampler was last updated with
    reported,        \* output rate last given to _onReadyCb
    nReadable,       \* nReadableSamples, in blocks
    apc,             \* audio thread: where it is in processBlock
    cpc,             \* setter of each control thread: where it is
    change,          \* the setting and value it is called with
    dpc              \* destructor: where it is

ringVars     == <<unread, lapped, fooled>>
workerVars   == <<toLoad, args, resampler, reported, nReadable>>
settingsVars == <<updateRequired, settings, cpc, change>>
controlVars  == <<settingsVars, dpc>>
vars == <<updateRequired, doUpload, settings, unread, lapped, fooled, shutdownMtx,
          asleep, wpc, toLoad, args, resampler, reported, nReadable,
          apc, cpc, change, dpc>>

NoChange == [setting |-> OutRate, value |-> NoValue]

\* The upload thread does not exist before the first processBlock().
\* _uploadThreadStarted is wpc /= "none".
Init ==
    /\ updateRequired = TRUE /\ doUpload = TRUE
    /\ settings \in [Settings -> Values]
    /\ unread = 0 /\ lapped = FALSE /\ fooled = FALSE
    /\ shutdownMtx = "free" /\ asleep = FALSE
    /\ wpc = "none"
    /\ toLoad = {}
    /\ args = [s \in Settings |-> NoValue]
    /\ resampler = [s \in Settings |-> NoValue] /\ reported = NoValue
    /\ nReadable = 0
    /\ apc = "idle"
    /\ cpc = [t \in Setters |-> "idle"]
    /\ change = [t \in Setters |-> NoChange]
    /\ dpc = "alive"

-----------------------------------------------------------------------------
(* Audio thread: processBlock. *)

StartUploadThreadIfNecessary ==
    /\ apc = "idle" /\ dpc /= "freed"
    /\ apc' = "write"
    /\ wpc' = IF wpc = "none" THEN "check" ELSE wpc
    /\ UNCHANGED <<doUpload, ringVars, shutdownMtx, asleep, workerVars, controlVars>>

Ring == INSTANCE RingCount
        WITH Length <- RingBlocks, Blocks <- {1}, sized <- nReadable

\* The writer never looks at the reader: a block too many makes the positions
\* coincide, and the whole lap is gone.  One more and they differ again.
WriteBlock ==
    /\ apc = "write"
    /\ Ring!Put(1)
    /\ lapped' = (unread + 1 = RingBlocks)
    /\ apc' = "notify"
    /\ UNCHANGED <<doUpload, fooled, shutdownMtx, asleep, wpc, toLoad, args, resampler,
                   reported, controlVars>>

\* Mutant of Notify: the call is missing.
NotifyMissing ==
    /\ apc = "notify"
    /\ apc' = "idle"
    /\ UNCHANGED <<doUpload, ringVars, shutdownMtx, asleep, wpc, workerVars, controlVars>>

\* notify_all wakes a thread that is in the wait set now, and no other.
Notify ==
    /\ apc = "notify"
    /\ asleep' = FALSE
    /\ apc' = "idle"
    /\ UNCHANGED <<doUpload, ringVars, shutdownMtx, wpc, workerVars, controlVars>>

Audio == StartUploadThreadIfNecessary \/ WriteBlock \/ Notify

-----------------------------------------------------------------------------
(* Control threads: setInputSampleRate, setOutputSampleRate, setSrcQuality. *)

SetTest(t, s, v) ==
    /\ cpc[t] = "idle" /\ dpc = "alive"
    /\ settings[s] /= v
    /\ change' = [change EXCEPT ![t] = [setting |-> s, value |-> v]]
    /\ cpc' = [cpc EXCEPT ![t] = "store"]
    /\ UNCHANGED <<updateRequired, doUpload, settings, ringVars, shutdownMtx,
                   asleep, wpc, workerVars, apc, dpc>>

SetStore(t) ==
    /\ cpc[t] = "store"
    /\ settings' = [settings EXCEPT ![change[t].setting] = change[t].value]
    /\ cpc' = [cpc EXCEPT ![t] = "flag"]
    /\ UNCHANGED <<updateRequired, doUpload, ringVars, shutdownMtx, asleep,
                   wpc, workerVars, apc, change, dpc>>

\* Mutant of SetFlag: the setter does not ask for an update.
SetFlagMissing(t) ==
    /\ cpc[t] = "flag"
    /\ cpc' = [cpc EXCEPT ![t] = "idle"]
    /\ change' = [change EXCEPT ![t] = NoChange]
    /\ UNCHANGED <<updateRequired, doUpload, settings, ringVars, shutdownMtx, asleep,
                   wpc, workerVars, apc, dpc>>

SetFlag(t) ==
    /\ cpc[t] = "flag"
    /\ updateRequired' = TRUE
    /\ cpc' = [cpc EXCEPT ![t] = "idle"]
    /\ change' = [change EXCEPT ![t] = NoChange]
    /\ UNCHANGED <<doUpload, settings, ringVars, shutdownMtx, asleep,
                   wpc, workerVars, apc, dpc>>

Setter(t) ==
    \/ \E s \in Settings, v \in Values : SetTest(t, s, v)
    \/ SetStore(t) \/ SetFlag(t)

-----------------------------------------------------------------------------
(* The destructor.  No setter of the same object runs any more. *)

LockForShutdown ==
    /\ dpc = "alive" /\ \A t \in Setters : cpc[t] = "idle"
    /\ shutdownMtx = "free"
    /\ shutdownMtx' = "destructor"
    /\ dpc' = "locked"
    /\ UNCHANGED <<settingsVars, doUpload, ringVars, asleep, wpc, workerVars, apc>>

StopUpload ==
    /\ dpc = "locked"
    /\ doUpload' = FALSE
    /\ dpc' = "stopped"
    /\ UNCHANGED <<settingsVars, ringVars, shutdownMtx, asleep, wpc, workerVars, apc>>

NotifyShutdown ==
    /\ dpc = "stopped"
    /\ asleep' = FALSE
    /\ dpc' = "notified"
    /\ UNCHANGED <<settingsVars, doUpload, ringVars, shutdownMtx, wpc, workerVars, apc>>

\* The unlock, the end of the body and the delete: nothing joins the thread.
UnlockAndFree ==
    /\ \/ dpc = "notified" /\ dpc' = "unlocked" /\ shutdownMtx' = "free"
       \/ dpc = "unlocked" /\ dpc' = "freed" /\ UNCHANGED shutdownMtx
    /\ UNCHANGED <<settingsVars, doUpload, ringVars, asleep, wpc, workerVars, apc>>

Destructor == LockForShutdown \/ StopUpload \/ NotifyShutdown \/ UnlockAndFree

-----------------------------------------------------------------------------
(* The upload thread: waiting. *)

\* while (_doUpload)
LoopTest ==
    /\ wpc = "check"
    /\ wpc' = IF doUpload THEN "predData" ELSE "exited"
    /\ UNCHANGED <<doUpload, ringVars, shutdownMtx, asleep, workerVars, apc, controlVars>>

\* The predicate of cond.wait, one load at a time.
WaitPredicate ==
    /\ \/ /\ wpc = "predData"
          /\ wpc' = IF unread /= 0 THEN "test" ELSE "predAlive"
          /\ fooled' = lapped
       \/ /\ wpc = "predAlive"
          /\ wpc' = IF ~doUpload THEN "test" ELSE "sleep"
          /\ fooled' = FALSE
    /\ UNCHANGED <<doUpload, unread, lapped, shutdownMtx, asleep, workerVars, apc,
                   controlVars>>

Sleep ==
    /\ wpc = "sleep"
    /\ asleep' = TRUE
    /\ wpc' = "waiting"
    /\ UNCHANGED <<doUpload, ringVars, shutdownMtx, workerVars, apc, controlVars>>

Wakened ==
    /\ wpc = "waiting" /\ ~asleep
    /\ wpc' = "predData"
    /\ UNCHANGED <<doUpload, ringVars, shutdownMtx, asleep, workerVars, apc, controlVars>>

SpuriousWakeup ==
    /\ asleep
    /\ asleep' = FALSE
    /\ UNCHANGED <<doUpload, ringVars, shutdownMtx, wpc, workerVars, apc, controlVars>>

\* if (!_doUpload) return;
ExitTest ==
    /\ wpc = "test"
    /\ wpc' = IF doUpload THEN "lock" ELSE "exited"
    /\ UNCHANGED <<doUpload, ringVars, shutdownMtx, asleep, workerVars, apc, controlVars>>

LockShutdown ==
    /\ wpc = "lock" /\ shutdownMtx = "free"
    /\ shutdownMtx' = "worker"
    /\ wpc' = "branch"
    /\ UNCHANGED <<doUpload, ringVars, asleep, workerVars, apc, controlVars>>

-----------------------------------------------------------------------------
(* The upload thread: applying settings. *)

\* Mutant of UpdateTest: the test negated.
UpdateTestNegated ==
    /\ wpc = "branch"
    /\ wpc' = IF updateRequired THEN "size" ELSE "clear"
    /\ UNCHANGED <<doUpload, ringVars, shutdownMtx, asleep, workerVars, apc, controlVars>>

UpdateTest ==
    /\ wpc = "branch"
    /\ wpc' = IF updateRequired THEN "clear" ELSE "size"
    /\ UNCHANGED <<doUpload, ringVars, shutdownMtx, asleep, workerVars, apc, controlVars>>

ClearUpdateRequired ==
    /\ wpc = "clear"
    /\ updateRequired' = FALSE
    /\ toLoad' = Settings
    /\ wpc' = "load"
    /\ UNCHANGED <<doUpload, settings, ringVars, shutdownMtx, asleep, args, resampler,
                   reported, nReadable, apc, cpc, change, dpc>>

\* C++ leaves the order in which the arguments of update() are loaded open.
LoadSetting(s) ==
    /\ wpc = "load" /\ s \in toLoad
    /\ args' = [args EXCEPT ![s] = settings[s]]
    /\ toLoad' = toLoad \ {s}
    /\ UNCHANGED <<doUpload, ringVars, shutdownMtx, asleep, wpc, resampler, reported,
                   nReadable, apc, controlVars>>

\* Mutant of UpdateResampler: the flag is cleared after the settings are used.
UpdateResamplerThenClear ==
    /\ wpc = "load" /\ toLoad = {}
    /\ updateRequired' = FALSE
    /\ resampler' = args
    /\ args' = [s \in Settings |-> NoValue]
    /\ wpc' = "report"
    /\ UNCHANGED <<doUpload, settings, ringVars, shutdownMtx, asleep, toLoad, reported,
                   nReadable, apc, cpc, change, dpc>>

UpdateResampler ==
    /\ wpc = "load" /\ toLoad = {}
    /\ resampler' = args
    /\ args' = [s \in Settings |-> NoValue]
    /\ wpc' = "report"
    /\ UNCHANGED <<doUpload, ringVars, shutdownMtx, asleep, toLoad, reported,
                   nReadable, apc, controlVars>>

\* Mutant of ReportReady: only the first update is reported.
ReportReadyOnce ==
    /\ wpc = "report"
    /\ reported' = IF reported = NoValue THEN settings[OutRate] ELSE reported
    /\ wpc' = "reset"
    /\ UNCHANGED <<doUpload, ringVars, shutdownMtx, asleep, toLoad, args, resampler,
                   nReadable, apc, controlVars>>

\* _onReadyCb(getOutputSampleRate(), ...): the setting is loaded once more.
ReportReady ==
    /\ wpc = "report"
    /\ reported' = settings[OutRate]
    /\ wpc' = "reset"
    /\ UNCHANGED <<doUpload, ringVars, shutdownMtx, asleep, toLoad, args, resampler,
                   nReadable, apc, controlVars>>

ResetReadPosition ==
    /\ wpc = "reset"
    /\ Ring!Discard
    /\ lapped' = FALSE
    /\ wpc' = "unlock"
    /\ UNCHANGED <<doUpload, fooled, shutdownMtx, asleep, toLoad, args, resampler,
                   reported, apc, controlVars>>

-----------------------------------------------------------------------------
(* The upload thread: uploading. *)

SizeData ==
    /\ wpc = "size"
    /\ Ring!Size
    /\ wpc' = "read"
    /\ UNCHANGED <<doUpload, lapped, fooled, shutdownMtx, asleep, toLoad, args, resampler,
                   reported, apc, controlVars>>

\* Mutant of ReadData: the read position does not wrap.
ReadDataUnwrapped ==
    /\ wpc = "read"
    /\ unread' = unread - nReadable
    /\ nReadable' = 0
    /\ lapped' = (lapped /\ nReadable = 0)
    /\ wpc' = "suppress"
    /\ UNCHANGED <<doUpload, fooled, shutdownMtx, asleep, toLoad, args, resampler,
                   reported, apc, controlVars>>

\* Blocks written meanwhile stay unread.
ReadData ==
    /\ wpc = "read"
    /\ Ring!Take
    /\ lapped' = (lapped /\ nReadable = 0)
    /\ wpc' = "suppress"
    /\ UNCHANGED <<doUpload, fooled, shutdownMtx, asleep, toLoad, args, resampler,
                   reported, apc, controlVars>>

\* Whether what was read is one silence too many is the host's choice here:
\* module UploadPacket counts.
SuppressSilence ==
    /\ wpc = "suppress"
    /\ wpc' \in {"unlock", "submit"}
    /\ UNCHANGED <<doUpload, ringVars, shutdownMtx, asleep, workerVars, apc, controlVars>>

\* resample, _writeHeaders and _submitFunc: see module UploadPacket.
Submit ==
    /\ wpc = "submit"
    /\ wpc' = "unlock"
    /\ UNCHANGED <<doUpload, ringVars, shutdownMtx, asleep, workerVars, apc, controlVars>>

UnlockShutdown ==
    /\ wpc = "unlock"
    /\ shutdownMtx' = "free"
    /\ wpc' = "check"
    /\ UNCHANGED <<doUpload, ringVars, asleep, workerVars, apc, controlVars>>

Worker ==
    \/ LoopTest \/ WaitPredicate \/ Sleep \/ Wakened \/ ExitTest \/ LockShutdown
    \/ UpdateTest \/ ClearUpdateRequired \/ (\E s \in Settings : LoadSetting(s))
    \/ UpdateResampler \/ ReportReady \/ ResetReadPosition
    \/ SizeData \/ ReadData \/ SuppressSilence \/ Submit \/ UnlockShutdown

\* A thread still inside _uploadLoop when its object is gone may go on as if
\* the memory were intact (the actions above), or do anything.
UndefinedBehaviour ==
    /\ dpc = "freed" /\ wpc \notin {"none", "exited", "undefined"}
    /\ wpc' = "undefined"
    /\ UNCHANGED <<doUpload, ringVars, shutdownMtx, asleep, workerVars, apc, controlVars>>

Next ==
    \/ Audio
    \/ \E t \in Setters : Setter(t)
    \/ Destructor
    \/ Worker \/ SpuriousWakeup
    \/ UndefinedBehaviour

Spec == Init /\ [][Next]_vars

\* A running thread gets to take its steps and a call begun is finished; a
\* spurious wakeup and the next call of the host are never owed.
Threads ==
    /\ WF_vars(Worker)
    /\ WF_vars(WriteBlock \/ Notify)
    /\ WF_vars(StopUpload \/ NotifyShutdown \/ UnlockAndFree)
    /\ \A t \in Setters : WF_vars(SetStore(t) \/ SetFlag(t))

FairSpec == Spec /\ Threads

\* The host plays: processBlock is called again and again.
PlayingSpec == FairSpec /\ WF_vars(Audio)

-----------------------------------------------------------------------------
(* Properties. *)

\* Where the upload thread holds shutdownMtx.
Critical == {"branch", "clear", "load", "report", "reset", "size", "read",
             "suppress", "submit", "unlock"}

\* Types of the members of TypedUploadBuffer and of the threads' positions.
TypeOK ==
    /\ updateRequired \in BOOLEAN /\ doUpload \in BOOLEAN /\ lapped \in BOOLEAN
    /\ fooled \in BOOLEAN
    /\ asleep \in BOOLEAN
    /\ settings \in [Settings -> Values]
    /\ unread \in 0 .. RingBlocks - 1 /\ nReadable \in 0 .. RingBlocks - 1
    /\ shutdownMtx \in {"free", "worker", "destructor"}
    /\ wpc \in Critical \cup {"none", "check", "predData", "predAlive", "sleep",
                              "waiting", "test", "lock", "exited", "undefined"}
    /\ toLoad \subseteq Settings
    /\ args \in [Settings -> Values \cup {NoValue}]
    /\ resampler \in [Settings -> Values \cup {NoValue}]
    /\ reported \in Values \cup {NoValue}
    /\ apc \in {"idle", "write", "notify"}
    /\ cpc \in [Setters -> {"idle", "store", "flag"}]
    /\ change \in [Setters -> [setting : Settings, value : Values \cup {NoValue}]]
    /\ \A t \in Setters : cpc[t] = "store" => change[t].value \in Values
    /\ dpc \in {"alive", "locked", "stopped", "notified", "unlocked", "freed"}

\* A change of s is on its way to the upload thread.
Changing(s) ==
    \/ updateRequired
    \/ \E t \in Setters : cpc[t] = "flag" /\ change[t].setting = s

\* The upload thread is past its clear of the flag and before its report, or has
\* been lost on the way: it owes one.
Reporting == wpc \in {"load", "report", "undefined"}

\* No setting is lost between the setters' two stores and the upload thread's
\* test, clear and loads: whenever no update is under way or due, the
\* resampler and the last report have the values now set.
SettingsConverge ==
    ~Reporting =>
        /\ \A s \in Settings : resampler[s] = settings[s] \/ Changing(s)
        /\ reported = settings[OutRate] \/ Changing(OutRate)

Reports == INSTANCE RateReports
           WITH rate <- settings[OutRate], due <- Changing(OutRate) \/ Reporting

\* The upload buffer implements the reports of module RateReports: no order of
\* the setters' two stores and the upload thread's test, clear and two loads lets
\* a report be taken off that has not given the rate in force.
ImplementsReports == Reports!Spec

\* _onReadyCb gets the rate from a load of its own, after update() had loaded
\* it: a packet made at another rate than the one reported is sent only while
\* the change that made them differ is already due to be applied.
PacketsMatchReport ==
    wpc = "submit" => reported = resampler[OutRate] \/ Changing(OutRate)

\* src_process is never given the null state of a resampler never updated.
ResamplerReady ==
    wpc \in {"size", "read", "suppress", "submit"} =>
        \A s \in Settings : resampler[s] \in Values

\* The destructor changes _doUpload only while the upload thread is outside
\* the part of its loop that shutdownMtx protects.
ShutdownExcludesUpload ==
    [][doUpload' /= doUpload => wpc \notin Critical]_vars

\* A value set and left alone reaches the resampler, if the host keeps playing
\* and does not destroy the buffer: a wakeup lost between predicate and wait is
\* made good by the next block, not by a lap.  The exception is a thread that,
\* whenever it looks, meets a ring lapped exactly, which looks empty: the excuse
\* lasts for that look, and what is set or still due after it is owed again.
SettingsReachResampler ==
    \A s \in Settings, v \in Values :
        settings[s] = v ~>
            (resampler[s] = v \/ settings[s] /= v \/ fooled \/ ~doUpload)

\* Written data is picked up, under the same conditions.
DataPickedUp ==
    unread /= 0 ~> (wpc \in {"read", "reset"} \/ fooled \/ ~doUpload)

\* What the comment where shutdownMtx is taken says: no shutdown while the
\* upload thread is resampling or uploading.
NoUploadAfterShutdown ==
    ~doUpload => wpc \notin Critical

\* What the comment at _doUpload says: it tells the upload thread when to
\* shut down.
WorkerExits ==
    ~doUpload ~> wpc \in {"none", "exited", "undefined"}

-----------------------------------------------------------------------------
(* The inductive invariant behind the safety properties. *)

LocksHeld ==
    /\ wpc \in Critical => shutdownMtx = "worker"
    /\ dpc \in {"locked", "stopped", "notified"} => shutdownMtx = "destructor"

\* Where the value of s that the resampler will have or has is the one set.
Following(s) ==
    \/ Changing(s)
    \/ wpc = "load" /\ (s \in toLoad \/ args[s] = settings[s])
    \/ wpc /= "load" /\ resampler[s] = settings[s]

SettingsFollowed ==
    /\ wpc = "clear" => updateRequired
    /\ wpc /= "undefined" => \A s \in Settings : Following(s)
    /\ \/ Reporting
       \/ Changing(OutRate)
       \/ reported = settings[OutRate]

Configured == \A s \in Settings : resampler[s] \in Values

ConfiguredInTime ==
    /\ wpc = "load" => \A s \in Settings : s \in toLoad \/ args[s] \in Values
    /\ wpc \in {"report", "reset", "size", "read", "suppress", "submit"} => Configured
    /\ updateRequired \/ wpc \in {"load", "undefined"} \/ Configured

IInv == TypeOK /\ LocksHeld /\ SettingsFollowed /\ ConfiguredInTime
=============================================================================
