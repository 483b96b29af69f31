------------------------- MODULE UploadBufferProofs -------------------------
(* Proofs about UploadBuffer, for any settings, values, control threads and *)
(* ring length.                                                             *)
EXTENDS UploadBuffer, TLAPS

\* The ring's counter stays below its length.
LEMMA ModRange ==
    ASSUME NEW i \in Int
    PROVE  i % RingBlocks \in 0 .. RingBlocks - 1
BY UploadAssumption

\* A new upload buffer is well typed.
LEMMA TypeInit == Init => TypeOK
<1> SUFFICES ASSUME Init PROVE TypeOK
  OBVIOUS
<1>1. /\ updateRequired \in BOOLEAN /\ doUpload \in BOOLEAN
      /\ lapped \in BOOLEAN /\ fooled \in BOOLEAN /\ asleep \in BOOLEAN
  BY DEF Init
<1>2. change \in [Setters -> [setting : Settings, value : Values \cup {NoValue}]]
  BY UploadAssumption DEF Init, NoChange
<1>3. unread \in 0 .. RingBlocks - 1 /\ nReadable \in 0 .. RingBlocks - 1
  BY UploadAssumption DEF Init
<1> QED
  BY <1>1, <1>2, <1>3 DEF Init, TypeOK, Critical

\* Every step of the four kinds of threads keeps the types.
LEMMA TypeStep == TypeOK /\ [Next]_vars => TypeOK'
<1> SUFFICES ASSUME TypeOK, [Next]_vars PROVE TypeOK'
  OBVIOUS
<1> USE UploadAssumption DEF TypeOK, Critical, ringVars, workerVars, settingsVars, controlVars
<1>1. CASE StartUploadThreadIfNecessary
  BY <1>1 DEF StartUploadThreadIfNecessary
<1>2. CASE WriteBlock
  <2>1. unread' \in 0 .. RingBlocks - 1 /\ lapped' \in BOOLEAN
    BY <1>2, ModRange DEF WriteBlock, Ring!Put
  <2> QED
    BY <1>2, <2>1 DEF WriteBlock, Ring!Put
<1>3. CASE Notify
  <2>1. asleep' \in BOOLEAN
    BY <1>3 DEF Notify
  <2> QED
    BY <1>3, <2>1 DEF Notify
<1>4. ASSUME NEW t \in Setters, NEW s \in Settings, NEW v \in Values, SetTest(t, s, v)
      PROVE  TypeOK'
  BY <1>4 DEF SetTest
<1>5. ASSUME NEW t \in Setters, SetStore(t) PROVE TypeOK'
  BY <1>5 DEF SetStore
<1>6. ASSUME NEW t \in Setters, SetFlag(t) PROVE TypeOK'
  BY <1>6 DEF SetFlag, NoChange
<1>7. CASE LockForShutdown
  BY <1>7 DEF LockForShutdown
<1>8. CASE StopUpload
  <2>1. doUpload' \in BOOLEAN
    BY <1>8 DEF StopUpload
  <2> QED
    BY <1>8, <2>1 DEF StopUpload
<1>9. CASE NotifyShutdown
  <2>1. asleep' \in BOOLEAN
    BY <1>9 DEF NotifyShutdown
  <2> QED
    BY <1>9, <2>1 DEF NotifyShutdown
<1>10. CASE UnlockAndFree
  BY <1>10 DEF UnlockAndFree
<1>11. CASE LoopTest
  BY <1>11 DEF LoopTest
<1>12. CASE WaitPredicate
  <2>1. fooled' \in BOOLEAN
    BY <1>12 DEF WaitPredicate
  <2> QED
    BY <1>12, <2>1 DEF WaitPredicate
<1>13. CASE Sleep
  BY <1>13 DEF Sleep
<1>14. CASE Wakened
  BY <1>14 DEF Wakened
<1>15. CASE SpuriousWakeup
  <2>1. asleep' \in BOOLEAN
    BY <1>15 DEF SpuriousWakeup
  <2> QED
    BY <1>15, <2>1 DEF SpuriousWakeup
<1>16. CASE ExitTest
  BY <1>16 DEF ExitTest
<1>17. CASE LockShutdown
  BY <1>17 DEF LockShutdown
<1>18. CASE UpdateTest
  BY <1>18 DEF UpdateTest
<1>19. CASE ClearUpdateRequired
  BY <1>19 DEF ClearUpdateRequired
<1>20. ASSUME NEW s \in Settings, LoadSetting(s) PROVE TypeOK'
  BY <1>20 DEF LoadSetting
<1>21. CASE UpdateResampler
  BY <1>21 DEF UpdateResampler
<1>22. CASE ReportReady
  BY <1>22 DEF ReportReady
<1>23. CASE ResetReadPosition
  BY <1>23 DEF ResetReadPosition, Ring!Discard
<1>24. CASE SizeData
  BY <1>24 DEF SizeData, Ring!Size
<1>25. CASE ReadData
  <2>1. unread' \in 0 .. RingBlocks - 1 /\ nReadable' = 0
    BY <1>25, ModRange DEF ReadData, Ring!Take
  <2> QED
    BY <1>25, <2>1 DEF ReadData
<1>26. CASE SuppressSilence
  BY <1>26 DEF SuppressSilence
<1>27. CASE Submit
  BY <1>27 DEF Submit
<1>28. CASE UnlockShutdown
  BY <1>28 DEF UnlockShutdown
<1>29. CASE UndefinedBehaviour
  BY <1>29 DEF UndefinedBehaviour
<1>30. CASE UNCHANGED vars
  BY <1>30 DEF vars
<1> QED
  BY <1>1, <1>2, <1>3, <1>4, <1>5, <1>6, <1>7, <1>8, <1>9, <1>10, <1>11, <1>12,
     <1>13, <1>14, <1>15, <1>16, <1>17, <1>18, <1>19, <1>20, <1>21, <1>22, <1>23,
     <1>24, <1>25, <1>26, <1>27, <1>28, <1>29, <1>30
  DEF Next, Audio, Setter, Destructor, Worker

\* Members and positions of the upload buffer keep their types.
THEOREM TypeCorrect == Spec => []TypeOK
BY TypeInit, TypeStep, PTL DEF Spec

-----------------------------------------------------------------------------
(* The mutex. *)

\* shutdownMtx has the owner that the threads' positions call for.
LEMMA LocksStep == TypeOK /\ LocksHeld /\ [Next]_vars => LocksHeld'
<1> SUFFICES ASSUME TypeOK, LocksHeld, [Next]_vars PROVE LocksHeld'
  OBVIOUS
<1> USE DEF LocksHeld, Critical, controlVars
<1>1. CASE Audio
  BY <1>1 DEF Audio, StartUploadThreadIfNecessary, WriteBlock, Notify
<1>2. ASSUME NEW t \in Setters, Setter(t) PROVE LocksHeld'
  BY <1>2 DEF Setter, SetTest, SetStore, SetFlag
<1>3. CASE Destructor
  BY <1>3 DEF Destructor, LockForShutdown, StopUpload, NotifyShutdown, UnlockAndFree
<1>4. CASE Worker \/ SpuriousWakeup \/ UndefinedBehaviour
  BY <1>4 DEF Worker, LoopTest, WaitPredicate, Sleep, Wakened, SpuriousWakeup, ExitTest,
      LockShutdown, UpdateTest, ClearUpdateRequired, LoadSetting, UpdateResampler,
      ReportReady, ResetReadPosition, SizeData, ReadData, SuppressSilence, Submit,
      UnlockShutdown, UndefinedBehaviour
<1>5. CASE UNCHANGED vars
  BY <1>5 DEF vars
<1> QED
  BY <1>1, <1>2, <1>3, <1>4, <1>5 DEF Next

-----------------------------------------------------------------------------
(* The settings. *)

\* What the settings part of the invariant speaks of, wpc aside.
settingsState == <<updateRequired, settings, cpc, change, toLoad, args, resampler, reported>>

\* A step that touches none of it and does not move the upload thread into or
\* out of an update keeps that part.
LEMMA SettingsFrame ==
    ASSUME SettingsFollowed, ConfiguredInTime, UNCHANGED settingsState,
           \/ wpc' = wpc
           \/ wpc' = "undefined"
           \/ /\ wpc \notin {"clear", "load", "report", "undefined"}
              /\ wpc' \notin {"clear", "load", "report", "undefined"}
              /\ wpc' \in {"size", "read", "suppress", "submit", "reset"} =>
                    wpc \in {"size", "read", "suppress", "submit", "reset"}
    PROVE  SettingsFollowed' /\ ConfiguredInTime'
BY DEF SettingsFollowed, ConfiguredInTime, Following, Changing, Configured, Reporting,
       settingsState

\* No step of a setter or of the upload thread loses a setting.
LEMMA SettingsStep ==
    TypeOK /\ SettingsFollowed /\ ConfiguredInTime /\ [Next]_vars
        => SettingsFollowed' /\ ConfiguredInTime'
<1> SUFFICES ASSUME TypeOK, SettingsFollowed, ConfiguredInTime, [Next]_vars
             PROVE  SettingsFollowed' /\ ConfiguredInTime'
  OBVIOUS
<1> DEFINE Goal == SettingsFollowed' /\ ConfiguredInTime'
<1>1. ASSUME NEW t \in Setters, NEW s \in Settings, NEW v \in Values, SetTest(t, s, v)
      PROVE  Goal
  <2>1. \A x \in Settings : Changing(x) => Changing(x)'
    BY <1>1 DEF SetTest, Changing, TypeOK
  <2>2. UNCHANGED <<wpc, updateRequired, settings, toLoad, args, resampler, reported>>
    BY <1>1 DEF SetTest, workerVars
  <2> QED
    BY <2>1, <2>2, UploadAssumption
    DEF SettingsFollowed, Reporting, ConfiguredInTime, Following, Configured
<1>2. ASSUME NEW t \in Setters, SetStore(t) PROVE Goal
  <2>0. PICK s \in Settings : s = change[t].setting
    BY DEF TypeOK
  <2>1. Changing(s)'
    BY <1>2, <2>0 DEF SetStore, Changing, TypeOK
  <2>2. \A x \in Settings \ {s} : settings'[x] = settings[x]
    BY <1>2, <2>0 DEF SetStore, TypeOK
  <2>3. \A x \in Settings : Changing(x) => Changing(x)'
    BY <1>2 DEF SetStore, Changing, TypeOK
  <2>4. UNCHANGED <<wpc, updateRequired, toLoad, args, resampler, reported>>
    BY <1>2 DEF SetStore, workerVars
  <2>5. ConfiguredInTime'
    BY <2>4 DEF ConfiguredInTime, Configured
  <2>6. SettingsFollowed'
    <3>1. ASSUME NEW x \in Settings, Following(x) PROVE Following(x)'
      BY <2>1, <2>2, <2>3, <2>4, <3>1 DEF Following
    <3>2. reported = settings[OutRate] => reported = settings'[OutRate] \/ Changing(OutRate)'
      BY <2>1, <2>2, UploadAssumption
    <3>3. Changing(OutRate) => Changing(OutRate)'
      BY <2>3, UploadAssumption
    <3> QED
      BY <2>4, <3>1, <3>2, <3>3 DEF SettingsFollowed, Reporting
  <2> QED
    BY <2>5, <2>6
<1>3. ASSUME NEW t \in Setters, SetFlag(t) PROVE Goal
  <2>1. updateRequired' /\ UNCHANGED <<wpc, toLoad, args, resampler>>
    BY <1>3 DEF SetFlag, workerVars
  <2> QED
    BY <2>1 DEF SettingsFollowed, Reporting, ConfiguredInTime, Following, Changing, Configured
<1>4. CASE ClearUpdateRequired
  <2>1. wpc' = "load" /\ toLoad' = Settings /\ ~updateRequired'
    BY <1>4 DEF ClearUpdateRequired
  <2> QED
    BY <2>1 DEF SettingsFollowed, Reporting, ConfiguredInTime, Following
<1>5. ASSUME NEW s \in Settings, LoadSetting(s) PROVE Goal
  <2>1. /\ wpc = "load" /\ wpc' = "load" /\ toLoad' = toLoad \ {s}
        /\ args' = [args EXCEPT ![s] = settings[s]]
        /\ UNCHANGED <<updateRequired, settings, cpc, change, resampler>>
    BY <1>5 DEF LoadSetting, controlVars, settingsVars
  <2>2. /\ args'[s] = settings[s] /\ settings[s] \in Values
        /\ \A x \in Settings \ {s} : args'[x] = args[x]
    BY <2>1 DEF TypeOK
  <2>3. \A x \in Settings : Changing(x)' <=> Changing(x)
    BY <2>1 DEF Changing
  <2>4. \A x \in Settings : Following(x)'
    BY <2>1, <2>2, <2>3 DEF SettingsFollowed, Reporting, Following
  <2>5. \A x \in Settings : x \in toLoad' \/ args'[x] \in Values
    BY <2>1, <2>2 DEF ConfiguredInTime
  <2> QED
    BY <2>1, <2>4, <2>5 DEF SettingsFollowed, Reporting, ConfiguredInTime
<1>6. CASE UpdateResampler
  <2>1. /\ wpc = "load" /\ toLoad = {} /\ wpc' = "report" /\ resampler' = args
        /\ UNCHANGED <<updateRequired, settings, cpc, change>>
    BY <1>6 DEF UpdateResampler, controlVars, settingsVars
  <2> QED
    BY <2>1 DEF SettingsFollowed, Reporting, ConfiguredInTime, Following, Changing, Configured
<1>7. CASE ReportReady
  <2>1. /\ wpc = "report" /\ wpc' = "reset" /\ reported' = settings[OutRate]
        /\ UNCHANGED <<updateRequired, settings, cpc, change, resampler>>
    BY <1>7 DEF ReportReady, controlVars, settingsVars
  <2> QED
    BY <2>1 DEF SettingsFollowed, Reporting, ConfiguredInTime, Following, Changing, Configured
<1>8. CASE UpdateTest
  <2>1. /\ wpc = "branch" /\ wpc' = IF updateRequired THEN "clear" ELSE "size"
        /\ UNCHANGED settingsState
    BY <1>8 DEF UpdateTest, settingsState, workerVars, controlVars, settingsVars
  <2> QED
    BY <2>1 DEF SettingsFollowed, Reporting, ConfiguredInTime, Following, Changing, Configured,
        settingsState
<1>9. CASE \/ Audio \/ Destructor \/ LoopTest \/ WaitPredicate \/ Sleep \/ Wakened
           \/ SpuriousWakeup \/ ExitTest \/ LockShutdown \/ ResetReadPosition
           \/ SizeData \/ ReadData \/ SuppressSilence \/ Submit \/ UnlockShutdown
           \/ UndefinedBehaviour \/ UNCHANGED vars
  <2> USE DEF settingsState, workerVars, controlVars, settingsVars
  <2>1. CASE Audio
    BY <1>9, <2>1, SettingsFrame
    DEF Audio, StartUploadThreadIfNecessary, WriteBlock, Notify
  <2>2. CASE Destructor \/ SpuriousWakeup \/ UndefinedBehaviour \/ UNCHANGED vars
    BY <2>2, SettingsFrame
    DEF Destructor, LockForShutdown, StopUpload, NotifyShutdown, UnlockAndFree,
        SpuriousWakeup, UndefinedBehaviour, vars
  <2>3. CASE LoopTest \/ WaitPredicate \/ Sleep \/ Wakened \/ ExitTest \/ LockShutdown
    BY <2>3, SettingsFrame
    DEF LoopTest, WaitPredicate, Sleep, Wakened, ExitTest, LockShutdown
  <2>4. CASE \/ ResetReadPosition \/ SizeData \/ ReadData \/ SuppressSilence
             \/ Submit \/ UnlockShutdown
    BY <2>4, SettingsFrame
    DEF ResetReadPosition, SizeData, ReadData, SuppressSilence, Submit, UnlockShutdown
  <2> QED
    BY <1>9, <2>1, <2>2, <2>3, <2>4
<1> QED
  BY <1>1, <1>2, <1>3, <1>4, <1>5, <1>6, <1>7, <1>8, <1>9 DEF Next, Setter, Worker

-----------------------------------------------------------------------------
(* The theorems. *)

\* The inductive invariant of the upload buffer.
THEOREM Inductive == Spec => []IInv
<1>1. Init => IInv
  BY TypeInit
  DEF Init, IInv, LocksHeld, SettingsFollowed, Reporting, ConfiguredInTime, Following,
      Changing, Critical
<1>2. IInv /\ [Next]_vars => IInv'
  BY TypeStep, LocksStep, SettingsStep DEF IInv
<1> QED
  BY <1>1, <1>2, PTL DEF Spec

\* Whenever no update is under way or due, resampler and report have the
\* values set: no change is lost between the setters and the upload thread.
THEOREM Converge == Spec => []SettingsConverge
<1>1. IInv => SettingsConverge
  BY DEF IInv, SettingsFollowed, Reporting, SettingsConverge, Following
<1> QED
  BY <1>1, Inductive, PTL

\* A packet is made at the reported rate, or the change to come is due.
THEOREM Packets == Spec => []PacketsMatchReport
<1>1. IInv => PacketsMatchReport
  BY UploadAssumption DEF IInv, SettingsFollowed, Reporting, PacketsMatchReport, Following
<1> QED
  BY <1>1, Inductive, PTL

\* The resampler is always configured before it resamples.
THEOREM Ready == Spec => []ResamplerReady
<1>1. IInv => ResamplerReady
  BY DEF IInv, ConfiguredInTime, Configured, ResamplerReady
<1> QED
  BY <1>1, Inductive, PTL

\* The destructor never changes _doUpload inside the protected part.
THEOREM Excludes == Spec => ShutdownExcludesUpload
<1>1. IInv /\ [Next]_vars => [doUpload' /= doUpload => wpc \notin Critical]_vars
  <2> SUFFICES ASSUME IInv, Next, doUpload' /= doUpload PROVE wpc \notin Critical
    BY DEF vars
  <2>1. StopUpload
    BY DEF Next, Audio, StartUploadThreadIfNecessary, WriteBlock, Notify, Setter,
        SetTest, SetStore, SetFlag, Destructor, LockForShutdown, NotifyShutdown,
        UnlockAndFree, Worker, LoopTest, WaitPredicate, Sleep, Wakened, SpuriousWakeup,
        ExitTest, LockShutdown, UpdateTest, ClearUpdateRequired, LoadSetting,
        UpdateResampler, ReportReady, ResetReadPosition, SizeData, ReadData,
        SuppressSilence, Submit, UnlockShutdown, UndefinedBehaviour
  <2> QED
    BY <2>1 DEF StopUpload, IInv, LocksHeld
<1> QED
  BY <1>1, Inductive, PTL DEF Spec, ShutdownExcludesUpload

-----------------------------------------------------------------------------
(* The reports. *)

\* Every step is one of RateReports, or leaves rate, report and flag alone.
LEMMA ReportsStep == IInv /\ [Next]_vars => [Reports!Next]_Reports!vars
<1> SUFFICES ASSUME IInv, [Next]_vars PROVE Reports!Next \/ UNCHANGED Reports!vars
  OBVIOUS
<1>0. TypeOK /\ OutRate \in Settings
  BY UploadAssumption DEF IInv
<1>1. ASSUME NEW t \in Setters, NEW s \in Settings, NEW v \in Values, SetTest(t, s, v)
      PROVE  UNCHANGED Reports!vars
  <2>1. Changing(OutRate)' <=> Changing(OutRate)
    BY <1>0, <1>1 DEF SetTest, Changing, TypeOK
  <2> QED
    BY <1>1, <2>1 DEF SetTest, workerVars, Reporting, Reports!vars
<1>2. ASSUME NEW t \in Setters, SetStore(t)
      PROVE  Reports!Next \/ UNCHANGED Reports!vars
  <2>1. UNCHANGED <<wpc, reported, updateRequired, change>>
    BY <1>2 DEF SetStore, workerVars
  <2>2. CASE change[t].setting = OutRate
    <3>1. settings'[OutRate] = change[t].value /\ change[t].value \in Values
      BY <1>0, <1>2, <2>2 DEF SetStore, TypeOK
    <3>2. Changing(OutRate)'
      BY <1>0, <1>2, <2>1, <2>2 DEF SetStore, Changing, TypeOK
    <3>3. Reports!Change(change[t].value)
      BY <2>1, <3>1, <3>2 DEF Reports!Change
    <3> QED
      BY <3>1, <3>3 DEF Reports!Next
  <2>3. CASE change[t].setting /= OutRate
    <3>1. settings'[OutRate] = settings[OutRate]
      BY <1>0, <1>2, <2>3 DEF SetStore, TypeOK
    <3>2. Changing(OutRate)' <=> Changing(OutRate)
      BY <1>0, <1>2, <2>1, <2>3 DEF SetStore, Changing, TypeOK
    <3> QED
      BY <2>1, <3>1, <3>2 DEF Reporting, Reports!vars
  <2> QED
    BY <2>2, <2>3
<1>3. ASSUME NEW t \in Setters, SetFlag(t) PROVE Reports!Next
  <2>1. Changing(OutRate)' /\ UNCHANGED <<settings, reported>>
    BY <1>3 DEF SetFlag, Changing, workerVars
  <2>2. Reports!AskForUpdate
    BY <2>1 DEF Reports!AskForUpdate
  <2> QED
    BY <2>2 DEF Reports!Next
<1>4. CASE ClearUpdateRequired
  <2>1. updateRequired /\ Reporting' /\ UNCHANGED <<settings, reported>>
    BY <1>4 DEF ClearUpdateRequired, Reporting, IInv, SettingsFollowed
  <2> QED
    BY <2>1 DEF Changing, Reports!vars
<1>5. CASE ReportReady
  <2>1. Reporting /\ ~Reporting' /\ reported' = settings[OutRate] /\ UNCHANGED settings
    BY <1>5 DEF ReportReady, Reporting, controlVars, settingsVars
  <2>2. Changing(OutRate)' \in BOOLEAN
    BY DEF Changing
  <2>3. Reports!Report
    BY <2>1, <2>2 DEF Reports!Report
  <2> QED
    BY <2>3 DEF Reports!Next
<1>6. CASE UndefinedBehaviour
  <2>1. Reporting' /\ UNCHANGED <<settings, reported>>
    BY <1>6 DEF UndefinedBehaviour, Reporting, workerVars, controlVars, settingsVars
  <2>2. Reports!AskForUpdate
    BY <2>1 DEF Reports!AskForUpdate
  <2> QED
    BY <2>2 DEF Reports!Next
<1>7. CASE \/ Audio \/ Destructor \/ SpuriousWakeup \/ UNCHANGED vars
           \/ (Worker /\ ~ClearUpdateRequired /\ ~ReportReady)
  <2>1. UNCHANGED <<settings, updateRequired, cpc, change, reported>>
    BY <1>7 DEF Audio, StartUploadThreadIfNecessary, WriteBlock, Notify, Destructor,
        LockForShutdown, StopUpload, NotifyShutdown, UnlockAndFree, SpuriousWakeup,
        Worker, LoopTest, WaitPredicate, Sleep, Wakened, ExitTest, LockShutdown,
        UpdateTest, LoadSetting, UpdateResampler, ResetReadPosition, SizeData, ReadData,
        SuppressSilence, Submit, UnlockShutdown, vars, workerVars, controlVars,
        settingsVars
  <2>2. Reporting' <=> Reporting
    BY <1>7 DEF Audio, StartUploadThreadIfNecessary, WriteBlock, Notify, Destructor,
        LockForShutdown, StopUpload, NotifyShutdown, UnlockAndFree, SpuriousWakeup,
        Worker, LoopTest, WaitPredicate, Sleep, Wakened, ExitTest, LockShutdown,
        UpdateTest, LoadSetting, UpdateResampler, ResetReadPosition, SizeData, ReadData,
        SuppressSilence, Submit, UnlockShutdown, vars, Reporting
  <2>3. Changing(OutRate)' <=> Changing(OutRate)
    BY <2>1 DEF Changing
  <2> QED
    BY <2>1, <2>2, <2>3 DEF Reports!vars
<1> QED
  BY <1>1, <1>2, <1>3, <1>4, <1>5, <1>6, <1>7 DEF Next, Setter

\* A report is due from every change until the rate in force has been given to
\* the callback, for any settings, values and number of control threads.
THEOREM RefinesReports == Spec => ImplementsReports
<1>1. Init => Reports!Init
  BY UploadAssumption DEF Init, Reports!Init, Changing
<1> QED
  BY <1>1, Inductive, ReportsStep, PTL DEF Spec, ImplementsReports, Reports!Spec

-----------------------------------------------------------------------------
(* The ring. *)

\* The upload buffer moves the count of unread blocks only as RingCount does,
\* whatever the other threads do meanwhile.
THEOREM RingUsed == Spec => Ring!Spec
<1>1. Init => Ring!Init
  BY DEF Init, Ring!Init
<1>2. [Next]_vars => [Ring!Next]_Ring!vars
  <2> SUFFICES ASSUME [Next]_vars, ~UNCHANGED Ring!vars PROVE Ring!Next
    OBVIOUS
  <2>1. CASE WriteBlock
    BY <2>1 DEF WriteBlock, Ring!Next
  <2>2. CASE ResetReadPosition \/ SizeData \/ ReadData
    BY <2>2 DEF ResetReadPosition, SizeData, ReadData, Ring!Next
  <2>3. CASE ~(WriteBlock \/ ResetReadPosition \/ SizeData \/ ReadData)
    <3>1. UNCHANGED <<unread, nReadable>>
      BY <2>3 DEF Next, Audio, StartUploadThreadIfNecessary, Notify, Setter, SetTest,
          SetStore, SetFlag, Destructor, LockForShutdown, StopUpload, NotifyShutdown,
          UnlockAndFree, Worker, LoopTest, WaitPredicate, Sleep, Wakened, SpuriousWakeup,
          ExitTest, LockShutdown, UpdateTest, ClearUpdateRequired, LoadSetting,
          UpdateResampler, ReportReady, SuppressSilence, Submit, UnlockShutdown,
          UndefinedBehaviour, vars, ringVars, workerVars
    <3> QED
      BY <3>1 DEF Ring!vars
  <2> QED
    BY <2>1, <2>2, <2>3
<1> QED
  BY <1>1, <1>2, PTL DEF Spec, Ring!Spec
=============================================================================
