---------------------------- MODULE Maintenance ----------------------------
(***************************************************************************)
(* Who cleans up, and what the page for system information says of it:     *)
(* the scheduler and administrators who ask for a cleanup share one        *)
(* Collector (garbagecollect), whose mutex also guards the record of the   *)
(* last run; systemInformationGet measures the disk and the free pages and *)
(* then waits for that mutex.                                              *)
(*                                                                         *)
(* What Purge does to files is the matter of EntryStore.  Here an item is  *)
(* some space in the database: rows that one of Purge's deletions will     *)
(* find, free pages, pages that are no longer part of the database but     *)
(* still of its file, until the write-ahead log is checkpointed ("wal"),   *)
(* or none of these.                                                       *)
(***************************************************************************)
EXTENDS Integers

CONSTANTS
  Cleaners,     \* goroutines that serve administrators who clean up
  Viewers,      \* goroutines that serve the page for system information
  Scheduler,    \* the goroutine that StartAsync starts
  Items,        \* pieces of space in the database
  DueFor,       \* BOUND: the deletions of Purge that rows fall due for
  MaxTime,      \* BOUND: the last instant of the clock
  MaxCrashes,   \* BOUND: how often the process dies
  MaxInt,       \* math.MaxInt64
  Stats,        \* what statfs may report
  Sums,         \* BOUND: exact sums of the sizes of files
  NULL          \* no goroutine

ASSUME ThreadsAssumption ==
  /\ Cleaners \cap Viewers = {}
  /\ Scheduler \notin Cleaners \cup Viewers
  /\ NULL \notin Cleaners \cup Viewers \cup {Scheduler}

\* The kernel reports no more free blocks than there are.
ASSUME StatsAssumption ==
  /\ MaxInt \in Nat
  /\ Stats \subseteq [free: Nat, total: Nat, block: Nat]
  /\ \A s \in Stats : s.free <= s.total
  /\ Sums \subseteq Nat

ASSUME BoundsAssumption == MaxTime \in Nat \ {0} /\ MaxCrashes \in Nat

Requests == Cleaners \cup Viewers
Threads == Requests \cup {Scheduler}

VARIABLES
  now,       \* the clock
  item,      \* what has become of each piece of space
  incremental,  \* whether the database is in incremental auto-vacuum mode
  call,      \* what each goroutine is doing
  holder,    \* the goroutine that holds Collector.mu
  purge,     \* the step of Purge that comes next, and whether one failed
  lastRun,   \* the time in Collector.lastRun; 0 is the zero value
  tick,      \* whether the ticker's channel holds a tick
  overdue,   \* history: there was a tick, or a start, and no collection since
  answered,  \* history: the time of the last cleanup that was answered
  crashes

vars == <<now, item, incremental, call, holder, purge, lastRun, tick, overdue,
          answered, crashes>>

\* The deletions of Purge: entries that have expired, chunks without an entry,
\* old download history, sessions that have expired.
Deletions == {"entries", "orphans", "history", "sessions"}

ASSUME DueAssumption == DueFor \subseteq Deletions

PurgeSteps == Deletions \cup {"reclaim", "checkpoint"}

\* "collect", "lastRun": waits for the mutex.  "purge": in Collect.  "measure":
\* the page measures the disk.
At == {"idle", "collect", "purge", "measure", "lastRun", "answered"}

\* What bigIntToUint64 lets through: 63 bits.
Size == 0..MaxInt
Usage == [used: Size, total: Size, files: Size, serving: Size]

NoUsage == [used |-> 0, total |-> 0, files |-> 0, serving |-> 0]

\* since: of a page, what had been answered when it was asked for; owed: of a
\* cleanup, space that was to be reclaimed then and still is.
Call == [at: At, ok: BOOLEAN, since: Nat, owed: SUBSET Items, usage: Usage]

NoCall == [at |-> "idle", ok |-> TRUE, since |-> 0, owed |-> {},
           usage |-> NoUsage]

TypeOK ==
  /\ now \in 1..MaxTime
  /\ item \in [Items -> Deletions \cup {"none", "free", "wal"}]
  /\ incremental \in BOOLEAN
  /\ call \in [Threads -> Call]
  /\ holder \in Threads \cup {NULL}
  /\ purge \in [step: PurgeSteps \cup {"record"}, failed: BOOLEAN]
  /\ lastRun \in 0..MaxTime
  /\ tick \in BOOLEAN /\ overdue \in BOOLEAN
  /\ answered \in 0..MaxTime
  /\ crashes \in 0..MaxCrashes

NoPurge == [step |-> "entries", failed |-> FALSE]

\* The states of space that Purge has nothing to do with, or no more.
NotDue == {"none", "wal"}

\* main makes the collector and starts the scheduler, which collects at once.
ProcessStarts ==
  [t \in Threads |-> IF t = Scheduler THEN [NoCall EXCEPT !.at = "collect"]
                     ELSE NoCall]

Init ==
  /\ now = 1
  /\ item = [i \in Items |-> "none"]
  /\ incremental \in BOOLEAN
  /\ call = ProcessStarts
  /\ holder = NULL
  /\ purge = NoPurge
  /\ lastRun = 0
  /\ tick = FALSE
  /\ overdue = TRUE
  /\ answered = 0
  /\ crashes = 0

-----------------------------------------------------------------------------
(***************************************************************************)
(* The database                                                            *)
(***************************************************************************)

\* Nobody is owed the items any more.
Settled(items) == [t \in Threads |-> [call[t] EXCEPT !.owed = @ \ items]]

\* Rows fall due by themselves, or cease to, as when an owner extends an
\* expiration; DeleteEntry leaves free pages, and new rows take them; SQLite,
\* or Litestream, checkpoints.
ItemChanges(i) ==
  /\ \/ /\ item[i] = "none"
        /\ item' \in {[item EXCEPT ![i] = s] : s \in DueFor \cup {"free"}}
        /\ UNCHANGED call
     \/ /\ item[i] # "none"
        /\ item' = [item EXCEPT ![i] = "none"]
        /\ call' = Settled({i})
  /\ UNCHANGED <<now, incremental, holder, purge, lastRun, tick, overdue,
                 answered, crashes>>

-----------------------------------------------------------------------------
(***************************************************************************)
(* The collector                                                           *)
(***************************************************************************)

CallCollect(t, owed) ==
  call' = [call EXCEPT ![t] = [NoCall EXCEPT !.at = "collect", !.owed = owed]]

\* cleanupPost
CleanupPost(r) ==
  /\ call[r].at = "idle"
  /\ CallCollect(r, {i \in Items : item[i] \notin NotDue})
  /\ UNCHANGED <<now, item, incremental, holder, purge, lastRun, tick, overdue,
                 answered, crashes>>

\* Mutant: a tick that finds the scheduler busy is lost.
Delivered_IfIdle == tick \/ call[Scheduler].at = "idle"

\* A time.Ticker's channel keeps one tick for a reader who is late.
Delivered == TRUE

Tick ==
  /\ tick' = Delivered
  /\ overdue' = TRUE
  /\ UNCHANGED <<now, item, incremental, call, holder, purge, lastRun, answered,
                 crashes>>

\* for range s.ticker.C
SchedulerWakes ==
  /\ call[Scheduler].at = "idle"
  /\ tick
  /\ tick' = FALSE
  /\ CallCollect(Scheduler, {})
  /\ UNCHANGED <<now, item, incremental, holder, purge, lastRun, overdue,
                 answered, crashes>>

\* Collect gets the lock and calls Purge.
Lock(t) ==
  /\ call[t].at = "collect"
  /\ holder = NULL
  /\ holder' = t
  /\ call' = [call EXCEPT ![t].at = "purge"]
  /\ overdue' = (overdue /\ t # Scheduler)
  /\ UNCHANGED <<now, item, incremental, purge, lastRun, tick, answered,
                 crashes>>

\* Mutant: free pages are returned before the sessions are deleted.
Follows_ReclaimFirst(step) ==
  CASE step = "entries" -> "orphans" [] step = "orphans" -> "history"
    [] step = "history" -> "reclaim" [] step = "reclaim" -> "sessions"
    [] step = "sessions" -> "checkpoint" [] step = "checkpoint" -> "record"

\* The order of the steps in Purge and in reclaimFreePages.
Follows(step) ==
  CASE step = "entries" -> "orphans" [] step = "orphans" -> "history"
    [] step = "history" -> "sessions" [] step = "sessions" -> "reclaim"
    [] step = "reclaim" -> "checkpoint" [] step = "checkpoint" -> "record"

\* A deletion turns rows into free pages, and incremental_vacuum takes all of
\* these out of the database, or succeeds without effect if the database is
\* not in that mode.  The checkpoint shrinks the file, unless it is left to
\* Litestream or meets a reader, which wal_checkpoint's row tells nobody.
AfterStep(state, shrunk) ==
  CASE purge.step \in Deletions /\ state = purge.step -> "free"
    [] purge.step = "reclaim" /\ incremental /\ state = "free" -> "wal"
    [] purge.step = "checkpoint" /\ shrunk /\ state = "wal" -> "none"
    [] OTHER -> state

PurgeStep ==
  /\ holder # NULL
  /\ purge.step # "record"
  /\ \E shrunk \in BOOLEAN :
       item' = [i \in Items |-> AfterStep(item[i], shrunk)]
  /\ call' = Settled({i \in Items : item'[i] \in NotDue})
  /\ purge' = [purge EXCEPT !.step = Follows(@)]
  /\ UNCHANGED <<now, incremental, holder, lastRun, tick, overdue, answered,
                 crashes>>

\* A statement fails, and the steps after it are left out.
PurgeFails ==
  /\ holder # NULL
  /\ purge.step # "record"
  /\ purge' = [step |-> "record", failed |-> TRUE]
  /\ UNCHANGED <<now, item, incremental, call, holder, lastRun, tick, overdue,
                 answered, crashes>>

\* Mutant: only a collection that succeeds is recorded.
Recorded_Successes == IF purge.failed THEN lastRun ELSE now

\* Whether the run failed, which Collect records too, is not told apart.
Recorded == now

\* Mutant: Unlock is called after the return for an error, and not deferred.
HolderAfterCollect_UnlocksOnSuccess == IF purge.failed THEN holder ELSE NULL

HolderAfterCollect == NULL

\* Collect writes lastRun, unlocks and returns; cleanupPost answers.
CollectReturns(t) ==
  /\ holder = t
  /\ purge.step = "record"
  /\ lastRun' = Recorded
  /\ purge' = NoPurge
  /\ holder' = HolderAfterCollect
  /\ IF t = Scheduler
     THEN /\ call' = [call EXCEPT ![t] = NoCall]
          /\ UNCHANGED answered
     ELSE /\ call' = [call EXCEPT ![t].at = "answered", ![t].ok = ~purge.failed]
          /\ answered' = now
  /\ UNCHANGED <<now, item, incremental, tick, overdue, crashes>>

-----------------------------------------------------------------------------
(***************************************************************************)
(* The page for system information                                         *)
(***************************************************************************)

SystemInformationGet(r) ==
  /\ call[r].at = "idle"
  /\ call' = [call EXCEPT ![r] = [NoCall EXCEPT !.at = "measure",
                                                !.since = answered]]
  /\ UNCHANGED <<now, item, incremental, holder, purge, lastRun, tick, overdue,
                 answered, crashes>>

\* uint64ToBigInt
FitsBigInt(n) == n <= MaxInt

\* Mutant: whatever an unsigned number can hold is let through.
FitsUint64_Unsigned(n) == n <= 2 * MaxInt + 1

\* bigIntToUint64
FitsUint64(n) == n <= MaxInt

\* measureWholeFilesystem
WholeFilesystem(stats) ==
  LET free == stats.free * stats.block
      total == stats.total * stats.block
  IN  [ok |-> /\ FitsBigInt(stats.free) /\ FitsBigInt(stats.total)
              /\ FitsUint64(total - free) /\ FitsUint64(total),
       used |-> total - free, total |-> total]

\* MeasureUsage, TotalSize and ReclaimableBytes, in one step, as nothing in
\* this module depends on what happens between them.
Measure(r) ==
  /\ call[r].at = "measure"
  /\ \E stats \in Stats, files, serving \in Sums :
       LET fs == WholeFilesystem(stats)
       IN  /\ fs.ok /\ FitsUint64(files) /\ FitsUint64(serving)
           /\ call' = [call EXCEPT ![r].at = "lastRun",
                  ![r].usage = [used |-> fs.used, total |-> fs.total,
                                files |-> files, serving |-> serving]]
  /\ UNCHANGED <<now, item, incremental, holder, purge, lastRun, tick, overdue,
                 answered, crashes>>

\* Status 500: a number does not fit, a file that Glob has found is gone when
\* it is asked for its size, as the WAL may be, or a query fails.
MeasureFails(r) ==
  /\ call[r].at = "measure"
  /\ call' = [call EXCEPT ![r].at = "answered", ![r].ok = FALSE,
                          ![r].since = 0]
  /\ UNCHANGED <<now, item, incremental, holder, purge, lastRun, tick, overdue,
                 answered, crashes>>

\* LastRun takes the lock and lets it go, and the page shows lastRun.
LastRun(r) ==
  /\ call[r].at = "lastRun"
  /\ holder = NULL
  /\ call' = [call EXCEPT ![r].at = "answered", ![r].since = 0]
  /\ UNCHANGED <<now, item, incremental, holder, purge, lastRun, tick, overdue,
                 answered, crashes>>

-----------------------------------------------------------------------------
NextRequest(r) ==
  /\ call[r].at = "answered"
  /\ call' = [call EXCEPT ![r] = NoCall]
  /\ UNCHANGED <<now, item, incremental, holder, purge, lastRun, tick, overdue,
                 answered, crashes>>

ClockRuns ==
  /\ now < MaxTime
  /\ now' = now + 1
  /\ UNCHANGED <<item, incremental, call, holder, purge, lastRun, tick,
                 overdue, answered, crashes>>

\* A database that is not yet in incremental auto-vacuum mode is rebuilt when
\* the server starts; without room for that, it starts all the same.
EnableIncrementalVacuum ==
  \/ UNCHANGED <<item, incremental>>
  \/ /\ ~incremental
     /\ incremental' = TRUE
     /\ item' = [i \in Items |-> IF item[i] = "free" THEN "wal" ELSE item[i]]

\* The record of the last run is lost with the process.
Restart ==
  /\ crashes < MaxCrashes
  /\ crashes' = crashes + 1
  /\ call' = ProcessStarts
  /\ holder' = NULL
  /\ purge' = NoPurge
  /\ lastRun' = 0
  /\ tick' = FALSE
  /\ overdue' = TRUE
  /\ answered' = 0
  /\ EnableIncrementalVacuum
  /\ UNCHANGED now

CollectStep ==
  \/ PurgeStep
  \/ PurgeFails
  \/ \E t \in Threads : CollectReturns(t)

PageStep(r) ==
  \/ SystemInformationGet(r)
  \/ Measure(r)
  \/ MeasureFails(r)
  \/ LastRun(r)

Next ==
  \/ \E i \in Items : ItemChanges(i)
  \/ Tick
  \/ SchedulerWakes
  \/ \E t \in Threads : Lock(t)
  \/ CollectStep
  \/ \E r \in Cleaners : CleanupPost(r)
  \/ \E r \in Viewers : PageStep(r)
  \/ \E r \in Requests : NextRequest(r)
  \/ ClockRuns
  \/ Restart

\* A sync.Mutex turns to its oldest waiter once that has waited for a
\* millisecond, so nobody waits for ever.
LockIsFair(t) == SF_vars(Lock(t))

\* Statements return, and goroutines go on.
PageIsFair(r) == WF_vars(Measure(r) \/ MeasureFails(r)) /\ SF_vars(LastRun(r))

Fairness ==
  /\ WF_vars(CollectStep)
  /\ WF_vars(SchedulerWakes)
  /\ \A t \in Threads : LockIsFair(t)
  /\ \A r \in Viewers : PageIsFair(r)

Spec == Init /\ [][Next]_vars
FairSpec == Spec /\ Fairness

-----------------------------------------------------------------------------
(***************************************************************************)
(* Properties                                                              *)
(***************************************************************************)

\* When a cleanup is answered with success, whatever was expired or orphaned
\* when the administrator asked is deleted, and its pages and those that were
\* free have left the database, although another collection may have been
\* running then.  Without incremental auto-vacuum free pages stay, for new
\* files (reclaimFreePages, enableIncrementalVacuum).
CleanupCovers ==
  \A r \in Cleaners : call[r].at = "answered" /\ call[r].ok =>
    \A i \in call[r].owed : ~incremental /\ item[i] = "free"

\* The page names a run at least as recent as every cleanup that was answered
\* before the page was asked for, be it a failed one.
PageIsCurrent ==
  [][\A r \in Viewers : LastRun(r) => lastRun >= call[r].since]_vars

\* Cleanups and pages are answered, whoever else collects, whatever fails.
CallsAnswered ==
  \A r \in Requests :
    call[r].at \in {"collect", "measure"} ~> call[r].at \in {"answered", "idle"}

\* After a start and after every tick of the ticker the scheduler collects,
\* also if the tick falls into a collection.
EveryTickCollects == overdue ~> ~overdue

=============================================================================
