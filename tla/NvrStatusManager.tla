--------------------------- MODULE NvrStatusManager ---------------------------
(***************************************************************************)
(* The check of the recorders' health.  startCheck() hands the recorders   *)
(* and the options of that moment to a thread that asks one recorder after *)
(* another; its findings are shown, less those of the muted recorders.     *)
(*                                                                         *)
(* The list of recorders lives in the configuration file.  The window's    *)
(* Settings item, where the user edits it, writes it some time after; the  *)
(* manager reads the file.  Windows of other processes write the same file *)
(* and each process hears of every write, its own too.                     *)
(*                                                                         *)
(* The standard names have Status before them, so that one module can hold *)
(* proofs about this module and HikvisionDownloader.                       *)
(***************************************************************************)
EXTENDS Naturals

CONSTANTS
    Recorders,   \* what the list is made of; a recorder stands for its name too
    Kinds,       \* what can be wrong with one, each with an option to check it
    MaxChanges   \* bound: edits, options set, foreign writes and new faults

ASSUME StatusAssumption == MaxChanges \in Nat

VARIABLES
    m,             \* NvrStatusManager's members, and its worker thread
    disk,          \* the configuration file
    recordersJson, \* RootWindow's hikvisionSettings
    unwritten,     \* that item has still to write it
    changed,       \* configFileChanged is to be delivered
    firstCheck,    \* the constructor's single shot is to come
    faults,        \* what is wrong with each recorder
    changes

window == <<recordersJson, unwritten>>
world == <<firstCheck, faults>>
statusVars == <<m, disk, window, changed, world, changes>>

\* The worker, when it is not there.
NoWorker == [todo |-> {}, checks |-> {}, errors |-> {}, checked |-> {}]

-----------------------------------------------------------------------------
(***************************************************************************)
(* The methods, as functions of the members x.                             *)
(***************************************************************************)
\* m_monitoringEnabled && hasConfiguredRecorders(), which reads the file.
Monitors(x) == x.m_monitoringEnabled /\ disk.recorders # {}

Cleared(x) ==
    [x EXCEPT !.timer = FALSE, !.m_rawErrors = {}, !.m_rawCheckedRecorders = {},
              !.m_errors = {}, !.m_checkedRecorders = {}, !.m_hasErrors = FALSE]

StartCheck(x) ==
    IF x.m_isChecking THEN x
    ELSE IF Monitors(x)
    THEN [x EXCEPT !.m_isChecking = TRUE,
                   !.worker = [NoWorker EXCEPT !.todo = disk.recorders, !.checks = x.m_checks]]
    ELSE Cleared(x)

OnRecordersChanged(x) ==
    IF Monitors(x) THEN StartCheck([x EXCEPT !.timer = TRUE]) ELSE Cleared(x)

ApplyMuting(x) ==
    LET errors == {e \in x.m_rawErrors : e.recorder \notin x.m_mutedRecorders}
    IN  [x EXCEPT !.m_errors = errors,
                  !.m_checkedRecorders =
                      {[name |-> r, muted |-> r \in x.m_mutedRecorders] :
                           r \in x.m_rawCheckedRecorders},
                  !.m_hasErrors = (errors # {})]

\* mutant of OnCheckFinished: the next check would never start.
OnCheckFinishedChecking(x) ==
    ApplyMuting([x EXCEPT !.m_rawErrors = x.worker.errors,
                          !.m_rawCheckedRecorders = x.worker.checked, !.worker = NoWorker])

OnCheckFinished(x) ==
    ApplyMuting([x EXCEPT !.m_isChecking = FALSE, !.m_rawErrors = x.worker.errors,
                          !.m_rawCheckedRecorders = x.worker.checked, !.worker = NoWorker])

Loaded(x) ==
    [x EXCEPT !.m_monitoringEnabled = disk.enabled, !.m_checks = disk.checks,
              !.m_mutedRecorders = disk.muted]

\* mutant of ReloadSettings: muting is left to the check that follows.
ReloadSettingsNoMuting(x) ==
    LET y == Loaded(x)
    IN  IF y.m_monitoringEnabled # x.m_monitoringEnabled THEN OnRecordersChanged(y)
        ELSE IF y # x THEN StartCheck(y) ELSE y

ReloadSettings(x) ==
    LET y == Loaded(x)
        z == IF y.m_monitoringEnabled # x.m_monitoringEnabled THEN OnRecordersChanged(y)
             ELSE IF y # x THEN StartCheck(y) ELSE y
    IN  IF y.m_mutedRecorders # x.m_mutedRecorders THEN ApplyMuting(z) ELSE z

-----------------------------------------------------------------------------
(***************************************************************************)
(* The configuration file.                                                 *)
(***************************************************************************)
Writes(d) == disk' = d /\ changed' = (changed \/ d # disk)

SaveSettings(x) ==
    Writes([disk EXCEPT !.enabled = x.m_monitoringEnabled, !.checks = x.m_checks,
                        !.muted = x.m_mutedRecorders])

Changes == changes < MaxChanges /\ changes' = changes + 1

\* The Settings item writes the list 500 ms after it was set.
WriteSettings ==
    /\ unwritten /\ unwritten' = FALSE
    /\ Writes([disk EXCEPT !.recorders = recordersJson])
    /\ UNCHANGED <<m, recordersJson, world, changes>>

\* A window of another process.
OthersWrite ==
    /\ Changes
    /\ \/ \E rs \in SUBSET Recorders : Writes([disk EXCEPT !.recorders = rs])
       \/ \E on \in BOOLEAN : Writes([disk EXCEPT !.enabled = on])
       \/ \E ks \in SUBSET Kinds : Writes([disk EXCEPT !.checks = ks])
       \/ \E rs \in SUBSET Recorders : Writes([disk EXCEPT !.muted = rs])
    /\ UNCHANGED <<m, window, world>>

\* RootWindow's onConfigFileChanged: a list that differs is taken over, which
\* calls onRecordersChanged(); then reloadSettings().
ConfigFileChanged ==
    /\ changed /\ changed' = FALSE
    /\ recordersJson' = disk.recorders
    /\ unwritten' = (unwritten \/ disk.recorders # recordersJson)
    /\ m' = ReloadSettings(IF disk.recorders # recordersJson THEN OnRecordersChanged(m) ELSE m)
    /\ UNCHANGED <<disk, world, changes>>

-----------------------------------------------------------------------------
(***************************************************************************)
(* The user.                                                               *)
(***************************************************************************)
\* NvrSettingsPanel's saveRecorders(): the file still has the old list.
EditRecorders ==
    /\ Changes
    /\ \E rs \in SUBSET Recorders \ {recordersJson} : recordersJson' = rs
    /\ unwritten' = TRUE
    /\ m' = OnRecordersChanged(m)
    /\ UNCHANGED <<disk, changed, world>>

SetMonitoringEnabled ==
    LET x == [m EXCEPT !.m_monitoringEnabled = ~@]
    IN  /\ Changes /\ SaveSettings(x) /\ m' = OnRecordersChanged(x)
        /\ UNCHANGED <<window, world>>

\* setCheckOffline() and the five others.
SetCheck(k) ==
    LET x == [m EXCEPT !.m_checks = IF k \in @ THEN @ \ {k} ELSE @ \cup {k}]
    IN  /\ Changes /\ SaveSettings(x) /\ m' = StartCheck(x)
        /\ UNCHANGED <<window, world>>

SetRecorderMuted(r, muted) ==
    LET x == [m EXCEPT !.m_mutedRecorders = IF muted THEN @ \cup {r} ELSE @ \ {r}]
    IN  /\ Changes /\ SaveSettings(x) /\ m' = ApplyMuting(x)
        /\ UNCHANGED <<window, world>>

User ==
    \/ EditRecorders \/ SetMonitoringEnabled
    \/ \E k \in Kinds : SetCheck(k)
    \/ \E r \in Recorders, muted \in BOOLEAN : SetRecorderMuted(r, muted)

-----------------------------------------------------------------------------
(***************************************************************************)
(* The checks.                                                             *)
(***************************************************************************)
\* The timer, and checkNow().
Tick ==
    /\ m.timer /\ m' = StartCheck(m)
    /\ UNCHANGED <<disk, window, changed, world, changes>>

FirstCheck ==
    /\ firstCheck /\ firstCheck' = FALSE
    /\ m' = IF Monitors(m) THEN StartCheck(m) ELSE m
    /\ UNCHANGED <<disk, window, changed, faults, changes>>

\* NvrStatusWorker::run() asks one recorder.
AsksRecorder(r) ==
    /\ r \in m.worker.todo
    /\ m' = [m EXCEPT !.worker.todo = @ \ {r}, !.worker.checked = @ \cup {r},
                      !.worker.errors = @ \cup {[recorder |-> r, kind |-> k] :
                                                    k \in faults[r] \cap m.worker.checks}]
    /\ UNCHANGED <<disk, window, changed, world, changes>>

CheckFinished ==
    /\ m.m_isChecking /\ m.worker.todo = {} /\ m' = OnCheckFinished(m)
    /\ UNCHANGED <<disk, window, changed, world, changes>>

FaultsChange(r) ==
    /\ Changes
    /\ \E ks \in SUBSET Kinds : faults' = [faults EXCEPT ![r] = ks]
    /\ UNCHANGED <<m, disk, window, changed, firstCheck>>

-----------------------------------------------------------------------------
StatusInit ==
    /\ disk \in [recorders : SUBSET Recorders, enabled : BOOLEAN, checks : {Kinds},
                 muted : {{}}]
    /\ m = [m_monitoringEnabled |-> disk.enabled, m_checks |-> disk.checks,
            m_mutedRecorders |-> disk.muted, m_isChecking |-> FALSE,
            timer |-> disk.enabled /\ disk.recorders # {},
            m_rawErrors |-> {}, m_rawCheckedRecorders |-> {}, m_errors |-> {},
            m_checkedRecorders |-> {}, m_hasErrors |-> FALSE, worker |-> NoWorker]
    /\ recordersJson = disk.recorders /\ unwritten = FALSE
    /\ changed = FALSE /\ firstCheck = TRUE
    /\ faults = [r \in Recorders |-> {}]
    /\ changes = 0

StatusNext ==
    \/ User \/ OthersWrite
    \/ \E r \in Recorders : AsksRecorder(r) \/ FaultsChange(r)
    \/ WriteSettings \/ ConfigFileChanged
    \/ Tick \/ FirstCheck \/ CheckFinished

StatusSpec == StatusInit /\ [][StatusNext]_statusVars

\* Timers fire, a call to a recorder returns, and the event loop runs.
StatusFairness ==
    /\ WF_statusVars(WriteSettings) /\ WF_statusVars(ConfigFileChanged)
    /\ WF_statusVars(Tick) /\ WF_statusVars(FirstCheck) /\ WF_statusVars(CheckFinished)
    /\ \A r \in Recorders : WF_statusVars(AsksRecorder(r))

StatusFairSpec == StatusSpec /\ StatusFairness

-----------------------------------------------------------------------------
Error == [recorder : Recorders, kind : Kinds]

Workers ==
    [todo : SUBSET Recorders, checks : SUBSET Kinds, errors : SUBSET Error,
     checked : SUBSET Recorders]

StatusMembers ==
    [m_monitoringEnabled : BOOLEAN, m_checks : SUBSET Kinds, m_mutedRecorders : SUBSET Recorders,
     m_isChecking : BOOLEAN, timer : BOOLEAN,
     m_rawErrors : SUBSET Error, m_rawCheckedRecorders : SUBSET Recorders,
     m_errors : SUBSET Error, m_checkedRecorders : SUBSET [name : Recorders, muted : BOOLEAN],
     m_hasErrors : BOOLEAN, worker : Workers]

Files ==
    [recorders : SUBSET Recorders, enabled : BOOLEAN, checks : SUBSET Kinds,
     muted : SUBSET Recorders]

\* The members, the worker, the file and the window keep their types.
StatusTypes ==
    /\ m \in StatusMembers /\ disk \in Files
    /\ recordersJson \in SUBSET Recorders
    /\ unwritten \in BOOLEAN /\ changed \in BOOLEAN /\ firstCheck \in BOOLEAN
    /\ faults \in [Recorders -> SUBSET Kinds]
    /\ changes \in 0 .. MaxChanges

(***************************************************************************)
(* Whatever order checks end, recorders are muted, options change and the  *)
(* file is reloaded in: what is shown is the last check's findings without *)
(* the muted recorders', every error belongs to a recorder that is listed, *)
(* and the alarm is on exactly when an error is shown.                     *)
(***************************************************************************)
ShownIsFiltered ==
    /\ m.m_errors = {e \in m.m_rawErrors : e.recorder \notin m.m_mutedRecorders}
    /\ \A e \in m.m_errors : [name |-> e.recorder, muted |-> FALSE] \in m.m_checkedRecorders
    /\ \A c \in m.m_checkedRecorders : c.muted = (c.name \in m.m_mutedRecorders)
    /\ m.m_hasErrors = (m.m_errors # {})

Current ==
    /\ m.m_rawCheckedRecorders = disk.recorders
    /\ m.m_rawErrors = {e \in Error : /\ e.recorder \in disk.recorders
                                      /\ e.kind \in faults[e.recorder] \cap m.m_checks}

(***************************************************************************)
(* A change during a check is not acted on (startCheck() returns), and a   *)
(* check that runs shows what it was started with; but while the timer     *)
(* runs, once changes stop, what is shown is what the recorders of the     *)
(* file report to the options of now, and stays so.                        *)
(***************************************************************************)
CatchesUp == <>[](m.timer => Current)

=============================================================================
