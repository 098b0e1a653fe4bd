------------------------------- MODULE Backups --------------------------------
(***************************************************************************)
(* The snapshots of internal/backups/service.go: the nightly loop, runs on *)
(* request, the archives in the backup directory and their retention.      *)
(*                                                                         *)
(* One tick of the clock is the second in an archive's name.  The archive  *)
(* is written in place, so what a run leaves half-written is listed like   *)
(* any other.  An operator whose comment begins "A mutant" is no part of   *)
(* the model.                                                              *)
(***************************************************************************)
EXTENDS Process

CONSTANTS
  Requests,   \* requests for a backup, one of which may follow another
  Day,        \* ticks in a day
  ScheduledAt,\* BackupsScheduleUTC
  Retention   \* BackupsRetentionDays, in ticks

ASSUME DayAssumption ==
  /\ Day \in Nat \ {0} /\ ScheduledAt \in 0..(Day - 1) /\ Retention \in Nat \ {0}

Loop == "loop"
Runners == Requests \cup {Loop}
ASSUME RunnersAssumption == None \notin Runners
Archive == [mtime : Times, whole : BOOLEAN]
Run == [pc : {"idle", "lock", "dump", "create", "fill", "prune", "unlock"}, name : Times]

VARIABLES
  archives,  \* the archives in the directory, by the time in their names
  runs,      \* what each run is doing
  mutex,     \* the run that holds mu
  schedule,  \* when the loop's timer fires
  reported,  \* history: the snapshots RunNow has returned
  spoilt,    \* history: names whose archive lost its end to a failing close,
             \* or to a second run of the same second that was cut off
  nightly    \* history: scheduled runs, by the day they were due

backupsMemory == <<runs, mutex, schedule>>
backupsHistory == <<reported, spoilt, nightly>>
backupsVars == <<archives, backupsMemory, backupsHistory>>

IdleRun == [pc |-> "idle", name |-> 0]
DayOf(t) == t \div Day

\* A mutant: a run that begins and ends within the scheduled second is due again.
NextScheduledRunAgain(now) ==
  LET today == DayOf(now) * Day + ScheduledAt
  IN  IF now <= today THEN today ELSE today + Day

NextScheduledRun(now) ==
  LET today == DayOf(now) * Day + ScheduledAt
  IN  IF now < today THEN today ELSE today + Day

BackupsInit ==
  /\ archives = [t \in {} |-> None]
  /\ runs = [r \in Runners |-> IdleRun] /\ mutex = None
  /\ schedule = NextScheduledRun(clock)
  /\ reported = {} /\ spoilt = {}
  /\ nightly = [d \in 0..DayOf(MaxTime) |-> 0]

Goes(r, pc) == runs' = [runs EXCEPT ![r].pc = pc]

-----------------------------------------------------------------------------

\* The timer of the loop fires.
BackupDue ==
  /\ runs[Loop].pc = "idle" /\ clock >= schedule
  /\ Works
  /\ Goes(Loop, "lock")
  /\ nightly' = [nightly EXCEPT ![DayOf(schedule)] = @ + 1]
  /\ UNCHANGED <<archives, mutex, schedule, reported, spoilt>>

RequestBackup(r) ==
  /\ r # Loop /\ runs[r].pc = "idle"
  /\ Works
  /\ Goes(r, "lock")
  /\ UNCHANGED <<archives, mutex, schedule, backupsHistory>>

\* The name is the time at which the run gets its turn.
LockBackups(r) ==
  /\ runs[r].pc = "lock" /\ mutex = None
  /\ mutex' = r
  /\ runs' = [runs EXCEPT ![r] = [pc |-> "dump", name |-> clock]]
  /\ UNCHANGED <<archives, schedule, backupsHistory>>

\* VACUUM INTO, the dumps of the engines and the metadata, in a directory of
\* the run's own.
Dump(r) ==
  /\ runs[r].pc = "dump"
  /\ \E fails \in BOOLEAN : Goes(r, IF fails THEN "unlock" ELSE "create")
  /\ UNCHANGED <<archives, mutex, schedule, backupsHistory>>

\* os.Create empties the archive of an earlier run of the same second.
CreateArchive(r) ==
  LET name == runs[r].name
  IN  /\ runs[r].pc = "create"
      /\ archives' = [t \in DOMAIN archives \cup {name} |->
                        IF t = name THEN [mtime |-> clock, whole |-> FALSE] ELSE archives[t]]
      /\ spoilt' = spoilt \cup ({name} \cap {report.name : report \in reported})
      /\ Goes(r, "fill")
      /\ UNCHANGED <<mutex, schedule, reported, nightly>>

\* The files are written; a failure of the walk is an error, one of the
\* deferred Close calls goes unnoticed.
FillArchive(r) ==
  LET name == runs[r].name
  IN  /\ runs[r].pc = "fill"
      /\ \E walks, closes \in BOOLEAN :
           /\ archives' = [archives EXCEPT ![name] = [mtime |-> clock, whole |-> walks /\ closes]]
           /\ spoilt' = IF walks /\ closes THEN spoilt \ {name}
                        ELSE IF walks THEN spoilt \cup {name} ELSE spoilt
           /\ Goes(r, IF walks THEN "prune" ELSE "unlock")
      /\ UNCHANGED <<mutex, schedule, reported, nightly>>

\* A mutant: retention is a day short.
OldDayShort == {t \in DOMAIN archives : archives[t].mtime <= clock - Retention + 1}

\* The archives pruneOld is to remove.
Old == {t \in DOMAIN archives : archives[t].mtime <= clock - Retention}

\* pruneOld removes them newest first; at one that cannot be removed it gives
\* up, and with it the run.  Otherwise RunNow stats its archive and returns it,
\* if the run was not so slow that its own archive went too.  The listing and
\* the Stat may fail as well.
Prune(r) ==
  LET name == runs[r].name
  IN  /\ runs[r].pc = "prune"
      /\ \E removed \in SUBSET Old, reads \in BOOLEAN :
           /\ \A t \in removed, u \in Old \ removed : archives[t].mtime >= archives[u].mtime
           /\ archives' = [t \in DOMAIN archives \ removed |-> archives[t]]
           /\ reported' = IF removed = Old /\ name \notin Old /\ reads
                            THEN reported \cup {[name |-> name, at |-> archives[name].mtime]}
                            ELSE reported
      /\ Goes(r, "unlock")
      /\ UNCHANGED <<mutex, schedule, spoilt, nightly>>

\* The deferred calls; the loop then sets its timer.
UnlockBackups(r) ==
  /\ runs[r].pc = "unlock"
  /\ mutex' = None
  /\ runs' = [runs EXCEPT ![r] = IdleRun]
  /\ schedule' = IF r = Loop THEN NextScheduledRun(clock) ELSE schedule
  /\ UNCHANGED <<archives, backupsHistory>>

BackupsNext ==
  \/ BackupDue
  \/ \E r \in Runners :
       \/ RequestBackup(r)
       \/ (LockBackups(r) \/ Dump(r) \/ CreateArchive(r) \/ FillArchive(r) \/ Prune(r)
             \/ UnlockBackups(r)) /\ UNCHANGED work

\* The process ends: the directory stays as it is.
BackupsLost ==
  /\ runs' = [r \in Runners |-> IdleRun] /\ mutex' = None
  /\ schedule' = MaxTime + Day
  /\ UNCHANGED <<archives, backupsHistory>>

\* The process starts, and with it the loop.
BackupsStart ==
  /\ runs' = [r \in Runners |-> IdleRun] /\ mutex' = None
  /\ schedule' = NextScheduledRun(clock)
  /\ UNCHANGED <<archives, backupsHistory>>

-----------------------------------------------------------------------------
(* Properties.                                                             *)

BackupsTypeOK ==
  /\ DOMAIN archives \subseteq Times /\ \A t \in DOMAIN archives : archives[t] \in Archive
  /\ runs \in [Runners -> Run] /\ mutex \in Runners \cup {None}
  /\ schedule \in 0..(MaxTime + Day)
  /\ reported \subseteq [name : Times, at : Times] /\ spoilt \subseteq Times
  /\ nightly \in [0..DayOf(MaxTime) -> 0..MaxWork]

\* A snapshot that was reported can be downloaded, whole, until its retention is
\* over, whatever other runs, failures and restarts follow; the exceptions are
\* the spoilt names.
ReportedBackupsKept ==
  \A report \in reported :
    clock < report.at + Retention /\ report.name \notin spoilt =>
      report.name \in DOMAIN archives /\ archives[report.name].whole

\* However long a run takes, however late its timer fires and however often the
\* process restarts, no day's backup is run by the schedule twice.
EachNightOnce == \A d \in DOMAIN nightly : nightly[d] <= 1
=============================================================================
