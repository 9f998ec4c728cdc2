------------------------- MODULE MaintenanceProofs -------------------------
(***************************************************************************)
(* Theorems about Maintenance, for any number of cleaners, viewers and     *)
(* pieces of space.  That a cleanup covers what was due when it was asked  *)
(* for is not inductive: while Collect waits and Purge runs, a piece may   *)
(* be owed in whatever state Purge has not come to yet.  The strengthening *)
(* Inv says which states those are, and who holds the mutex.               *)
(***************************************************************************)
EXTENDS Maintenance, TLAPS

\* Purge will still deal with space in this state, or cannot: on says whether
\* the database is in incremental auto-vacuum mode.
ToCome(step, state, on) ==
  \/ state = "free" /\ (on => step \notin {"checkpoint", "record"})
  \/ state = "entries" /\ step = "entries"
  \/ state = "orphans" /\ step \in {"entries", "orphans"}
  \/ state = "history" /\ step \in {"entries", "orphans", "history"}
  \/ state = "sessions" /\ step \in Deletions

\* Only space that is still due is owed to anybody.
OwedIsDue ==
  \A t \in Threads : \A i \in call[t].owed : item[i] \notin NotDue

\* One goroutine is in Collect, and Purge starts from the beginning.
MutexHeld ==
  /\ \A t \in Threads : call[t].at = "purge" <=> holder = t
  /\ holder = NULL => purge = NoPurge

\* What is owed to the goroutine in Collect is still to come, unless a step
\* of Purge has failed.
OwedIsToCome ==
  ~purge.failed =>
    \A t \in Threads : holder = t =>
      \A i \in call[t].owed : ToCome(purge.step, item[i], incremental)

\* Nobody has been told of a run later than the one recorded.
RecordIsLatest ==
  /\ answered <= lastRun
  /\ lastRun <= now
  /\ \A t \in Threads : call[t].since <= lastRun

Inv ==
  /\ TypeOK
  /\ OwedIsDue
  /\ MutexHeld
  /\ OwedIsToCome
  /\ RecordIsLatest
  /\ CleanupCovers

-----------------------------------------------------------------------------
\* Calls are records, whichever field changes.
LEMMA CallUpdates ==
  ASSUME NEW c \in Call, NEW a \in At
  PROVE  /\ [c EXCEPT !.at = a] \in Call
         /\ \A b \in BOOLEAN : [c EXCEPT !.at = a, !.ok = b] \in Call
         /\ \A b \in BOOLEAN, n \in Nat :
              [c EXCEPT !.at = a, !.ok = b, !.since = n] \in Call
         /\ \A n \in Nat : [c EXCEPT !.at = a, !.since = n] \in Call
         /\ \A o \in SUBSET Items : [c EXCEPT !.at = a, !.owed = o] \in Call
         /\ \A u \in Usage : [c EXCEPT !.at = a, !.usage = u] \in Call
BY DEF Call

LEMMA NoCallIsCall == NoCall \in Call
<1>1. NoUsage \in Usage
  BY StatsAssumption DEF NoUsage, Usage, Size
<1>2. ASSUME NEW u \in Usage
      PROVE  [at |-> "idle", ok |-> TRUE, since |-> 0, owed |-> {},
              usage |-> u] \in Call
  <2>1. ASSUME NEW a \in At, NEW b \in BOOLEAN
        PROVE  [at |-> a, ok |-> b, since |-> 0, owed |-> {}, usage |-> u]
                 \in Call
    BY DEF Call
  <2>2. "idle" \in At /\ TRUE \in BOOLEAN
    BY DEF At
  <2> QED
    BY <2>1, <2>2
<1> QED
  BY <1>1, <1>2, Zenon DEF NoCall

LEMMA NoPurgeIsPurge ==
  NoPurge \in [step: PurgeSteps \cup {"record"}, failed: BOOLEAN]
<1>1. "entries" \in PurgeSteps \cup {"record"}
  BY DEF PurgeSteps, Deletions
<1> QED
  BY <1>1 DEF NoPurge

\* Threads that are waiting, or have been answered, are not in Collect.
LEMMA StartsWell ==
  /\ ProcessStarts \in [Threads -> Call]
  /\ \A t \in Threads : /\ ProcessStarts[t].at \in {"collect", "idle"}
                        /\ ProcessStarts[t].owed = {}
                        /\ ProcessStarts[t].since = 0
<1>1. [NoCall EXCEPT !.at = "collect"] \in Call
  BY NoCallIsCall, CallUpdates DEF At
<1>2. NoCall.at = "idle" /\ NoCall.owed = {} /\ NoCall.since = 0
  BY DEF NoCall
<1> QED
  BY <1>1, <1>2, NoCallIsCall DEF ProcessStarts, Call

\* The state in which the process starts satisfies the invariant.
LEMMA InitInv == Init => Inv
<1> SUFFICES ASSUME Init PROVE Inv
  OBVIOUS
<1>1. TypeOK
  <2>1. now \in 1..MaxTime /\ lastRun \in 0..MaxTime
        /\ answered \in 0..MaxTime /\ crashes \in 0..MaxCrashes
    BY BoundsAssumption DEF Init
  <2>2. purge \in [step: PurgeSteps \cup {"record"}, failed: BOOLEAN]
    BY NoPurgeIsPurge, Zenon DEF Init
  <2>3. tick \in BOOLEAN /\ overdue \in BOOLEAN
    BY DEF Init
  <2>4. /\ item \in [Items -> Deletions \cup {"none", "free", "wal"}]
        /\ incremental \in BOOLEAN
        /\ call \in [Threads -> Call]
        /\ holder \in Threads \cup {NULL}
    BY StartsWell DEF Init
  <2> QED
    BY <2>1, <2>2, <2>3, <2>4 DEF TypeOK
<1>2. OwedIsDue /\ OwedIsToCome /\ RecordIsLatest
  BY StartsWell, BoundsAssumption
  DEF Init, OwedIsDue, OwedIsToCome, RecordIsLatest
<1>3. MutexHeld
  BY StartsWell, ThreadsAssumption DEF Init, MutexHeld, Threads, Requests
<1>4. CleanupCovers
  BY StartsWell DEF Init, CleanupCovers, Threads, Requests
<1> QED
  BY <1>1, <1>2, <1>3, <1>4 DEF Inv

\* A goroutine that is not in Collect, and does not enter or leave it, goes on
\* to a state that owes it no more than is in use.
Consistent(t, c) ==
  /\ c \in Call
  /\ c.at # "purge"
  /\ \A i \in c.owed : item[i] \notin NotDue
  /\ c.since <= lastRun
  /\ t \in Cleaners /\ c.at = "answered" => ~c.ok

\* Such a step disturbs nothing.
LEMMA CallMoves ==
  ASSUME Inv, NEW t \in Threads, holder # t, NEW c, Consistent(t, c),
         call' = [call EXCEPT ![t] = c], tick' \in BOOLEAN,
         overdue' \in BOOLEAN,
         UNCHANGED <<now, item, incremental, holder, purge, lastRun, answered,
                     crashes>>
  PROVE  Inv'
<1>0. \A u \in Threads : call'[u] = IF u = t THEN c ELSE call[u]
  BY DEF Inv, TypeOK
<1>1. TypeOK'
  BY DEF Inv, TypeOK, Consistent
<1>2. OwedIsDue' /\ OwedIsToCome'
  BY <1>0 DEF Inv, OwedIsDue, OwedIsToCome, Consistent
<1>3. MutexHeld'
  BY <1>0 DEF Inv, MutexHeld, Consistent
<1>4. RecordIsLatest'
  BY <1>0 DEF Inv, RecordIsLatest, Consistent
<1>5. CleanupCovers'
  BY <1>0 DEF Inv, CleanupCovers, Consistent, Threads, Requests
<1> QED
  BY <1>1, <1>2, <1>3, <1>4, <1>5 DEF Inv

\* What Collect is called with.
LEMMA CollectCalls ==
  ASSUME Inv, NEW t \in Threads,
         NEW due \in SUBSET {i \in Items : item[i] \notin NotDue}
  PROVE  Consistent(t, [NoCall EXCEPT !.at = "collect", !.owed = due])
<1> DEFINE c == [NoCall EXCEPT !.at = "collect", !.owed = due]
<1>2. /\ lastRun \in Nat /\ due \subseteq Items
      /\ \A i \in due : item[i] \notin NotDue
  BY DEF Inv, TypeOK
<1>3. c \in Call
    <2>1. "collect" \in At /\ due \in SUBSET Items
      BY <1>2 DEF At
    <2> QED
      BY <2>1, NoCallIsCall, CallUpdates, Zenon
<1>4. c.at = "collect" /\ c.owed = due /\ c.since = 0
  BY NoCallIsCall DEF NoCall, Call
<1> HIDE DEF c
<1>5. Consistent(t, c)
  BY <1>2, <1>3, <1>4 DEF Consistent
<1> QED
  BY <1>5 DEF c

\* Bytes used are not negative, as no more blocks are free than there are.
LEMMA UsedIsNatural ==
  ASSUME NEW s \in Stats
  PROVE  /\ WholeFilesystem(s).total \in Nat
         /\ WholeFilesystem(s).used \in Nat
<1>1. s.free \in Nat /\ s.total \in Nat /\ s.block \in Nat /\ s.free <= s.total
  BY StatsAssumption
<1>2. s.total * s.block \in Nat /\ s.free * s.block \in Nat
      /\ s.free * s.block <= s.total * s.block
  <2>1. \A a, b, c \in Nat : a <= b => a * c <= b * c /\ a * c \in Nat
    <3>1. ASSUME NEW a \in Nat, NEW b \in Nat, NEW c \in Nat, a <= b
          PROVE  a * c <= b * c /\ a * c \in Nat
      <4>1. PICK d \in Nat : b = a + d
        BY <3>1
      <4>2. b * c = a * c + d * c /\ d * c >= 0 /\ a * c >= 0
        BY <4>1
      <4> QED
        BY <4>2
    <3> QED
      BY <3>1
  <2> QED
    BY <1>1, <2>1
<1>3. WholeFilesystem(s).total = s.total * s.block
      /\ WholeFilesystem(s).used = s.total * s.block - s.free * s.block
  BY DEF WholeFilesystem
<1> QED
  BY <1>2, <1>3

-----------------------------------------------------------------------------
\* A goroutine that waits for something else does not hold the mutex.
LEMMA Outside ==
  ASSUME Inv, NEW t \in Threads, call[t].at # "purge"
  PROVE  holder # t
BY DEF Inv, MutexHeld

LEMMA CleanupPostKeepsInv ==
  ASSUME Inv, NEW r \in Cleaners, CleanupPost(r)
  PROVE  Inv'
<1>1. r \in Threads /\ holder # r
  BY Outside DEF CleanupPost, Threads, Requests
<1> QED
  BY <1>1, CollectCalls, CallMoves DEF CleanupPost, CallCollect, Inv, TypeOK

LEMMA SchedulerWakesKeepsInv ==
  ASSUME Inv, SchedulerWakes
  PROVE  Inv'
<1>1. Scheduler \in Threads /\ holder # Scheduler
  BY Outside DEF SchedulerWakes, Threads
<1> QED
  BY <1>1, CollectCalls, CallMoves
     DEF SchedulerWakes, CallCollect, Inv, TypeOK

LEMMA SystemInformationGetKeepsInv ==
  ASSUME Inv, NEW r \in Viewers, SystemInformationGet(r)
  PROVE  Inv'
<1> DEFINE c == [NoCall EXCEPT !.at = "measure", !.since = answered]
<1>1. r \in Threads /\ holder # r
  BY Outside DEF SystemInformationGet, Threads, Requests
<1>2. answered \in Nat /\ answered <= lastRun
  BY DEF Inv, TypeOK, RecordIsLatest
<1>3. c \in Call
  <2>1. "measure" \in At
    BY DEF At
  <2> QED
    BY <1>2, <2>1, NoCallIsCall, CallUpdates, Zenon
<1>4. c.at = "measure" /\ c.owed = {} /\ c.since = answered
  BY NoCallIsCall DEF NoCall, Call
<1>5. call' = [call EXCEPT ![r] = c]
  BY DEF SystemInformationGet
<1> HIDE DEF c
<1>6. Consistent(r, c)
  BY <1>2, <1>3, <1>4 DEF Consistent
<1> QED
  BY <1>1, <1>5, <1>6, CallMoves DEF SystemInformationGet, Inv, TypeOK

\* A page that goes on is owed what it was owed before.
LEMMA PageMoves ==
  ASSUME Inv, NEW r \in Viewers, call[r].at # "purge",
         NEW c \in Call, c.at # "purge", c.owed = call[r].owed,
         c.since = call[r].since \/ c.since = 0,
         call' = [call EXCEPT ![r] = c],
         UNCHANGED <<now, item, incremental, holder, purge, lastRun, tick,
                     overdue, answered, crashes>>
  PROVE  Inv'
<1>1. r \in Threads /\ holder # r /\ r \notin Cleaners
  BY Outside, ThreadsAssumption DEF Threads, Requests
<1>2. Consistent(r, c)
  <2>1. \A i \in c.owed : item[i] \notin NotDue
    BY <1>1 DEF Inv, OwedIsDue
  <2>2. c.since <= lastRun
    BY <1>1 DEF Inv, RecordIsLatest, TypeOK
  <2> QED
    BY <1>1, <2>1, <2>2 DEF Consistent
<1> QED
  BY <1>1, <1>2, CallMoves DEF Inv, TypeOK

LEMMA MeasureKeepsInv ==
  ASSUME Inv, NEW r \in Viewers, Measure(r)
  PROVE  Inv'
<1>1. PICK stats \in Stats, files \in Sums, serving \in Sums :
        LET fs == WholeFilesystem(stats)
        IN  /\ fs.ok /\ FitsUint64(files) /\ FitsUint64(serving)
            /\ call' = [call EXCEPT ![r].at = "lastRun",
                   ![r].usage = [used |-> fs.used, total |-> fs.total,
                                 files |-> files, serving |-> serving]]
  BY DEF Measure
<1> DEFINE fs == WholeFilesystem(stats)
           u == [used |-> fs.used, total |-> fs.total, files |-> files,
                 serving |-> serving]
           c == [call[r] EXCEPT !.at = "lastRun", !.usage = u]
<1>2. u \in Usage
  <2>1. fs.used \in Nat /\ fs.total \in Nat
    BY UsedIsNatural
  <2>2. fs.used <= MaxInt /\ fs.total <= MaxInt
    BY <1>1 DEF WholeFilesystem, FitsUint64
  <2>3. files \in Size /\ serving \in Size
    BY <1>1, StatsAssumption DEF FitsUint64, Size
  <2> HIDE DEF fs
  <2> QED
    BY <2>1, <2>2, <2>3, StatsAssumption DEF Usage, Size
<1>3. r \in Threads /\ call[r] \in Call /\ call[r].at = "measure"
  BY DEF Measure, Inv, TypeOK, Threads, Requests
<1>4. c \in Call
  <2>1. "lastRun" \in At
    BY DEF At
  <2> HIDE DEF u
  <2> QED
    BY <1>2, <1>3, <2>1, CallUpdates, Zenon
<1>5. c.at = "lastRun" /\ c.owed = call[r].owed /\ c.since = call[r].since
  BY <1>3 DEF Call
<1>6. call' = [call EXCEPT ![r] = c]
  BY <1>1
<1> HIDE DEF c
<1> QED
  BY <1>3, <1>4, <1>5, <1>6, PageMoves DEF Measure

LEMMA MeasureFailsKeepsInv ==
  ASSUME Inv, NEW r \in Viewers, MeasureFails(r)
  PROVE  Inv'
<1> DEFINE c == [call[r] EXCEPT !.at = "answered", !.ok = FALSE, !.since = 0]
<1>1. r \in Threads /\ call[r] \in Call /\ call[r].at = "measure"
  BY DEF MeasureFails, Inv, TypeOK, Threads, Requests
<1>2. c \in Call
  <2>1. "answered" \in At /\ 0 \in Nat
    BY DEF At
  <2> QED
    BY <1>1, <2>1, CallUpdates, Zenon
<1>3. c.at = "answered" /\ c.owed = call[r].owed /\ c.since = 0
  BY <1>1 DEF Call
<1>4. call' = [call EXCEPT ![r] = c]
  BY DEF MeasureFails
<1> HIDE DEF c
<1> QED
  BY <1>1, <1>2, <1>3, <1>4, PageMoves DEF MeasureFails

LEMMA LastRunKeepsInv ==
  ASSUME Inv, NEW r \in Viewers, LastRun(r)
  PROVE  Inv'
<1> DEFINE c == [call[r] EXCEPT !.at = "answered", !.since = 0]
<1>1. r \in Threads /\ call[r] \in Call /\ call[r].at = "lastRun"
  BY DEF LastRun, Inv, TypeOK, Threads, Requests
<1>2. c \in Call
  <2>1. "answered" \in At /\ 0 \in Nat
    BY DEF At
  <2> QED
    BY <1>1, <2>1, CallUpdates, Zenon
<1>3. c.at = "answered" /\ c.owed = call[r].owed /\ c.since = 0
  BY <1>1 DEF Call
<1>4. call' = [call EXCEPT ![r] = c]
  BY DEF LastRun
<1> HIDE DEF c
<1> QED
  BY <1>1, <1>2, <1>3, <1>4, PageMoves DEF LastRun

LEMMA NextRequestKeepsInv ==
  ASSUME Inv, NEW r \in Requests, NextRequest(r)
  PROVE  Inv'
<1>1. r \in Threads /\ holder # r
  BY Outside DEF NextRequest, Threads
<1>2. NoCall.at = "idle" /\ NoCall.owed = {} /\ NoCall.since = 0
  BY DEF NoCall
<1>3. Consistent(r, NoCall)
  BY <1>2, NoCallIsCall DEF Consistent, Inv, TypeOK
<1> QED
  BY <1>1, <1>3, CallMoves DEF NextRequest, Inv, TypeOK

-----------------------------------------------------------------------------
\* Settling takes what is in use no more off what is owed, and that is all.
LEMMA Settling ==
  ASSUME TypeOK, NEW items, call' = Settled(items)
  PROVE  /\ call' \in [Threads -> Call]
         /\ \A t \in Threads : /\ call'[t].at = call[t].at
                               /\ call'[t].ok = call[t].ok
                               /\ call'[t].since = call[t].since
                               /\ call'[t].owed = call[t].owed \ items
<1>1. ASSUME NEW t \in Threads
      PROVE  LET c == [call[t] EXCEPT !.owed = @ \ items]
             IN  /\ c \in Call /\ c.at = call[t].at /\ c.ok = call[t].ok
                 /\ c.since = call[t].since /\ c.owed = call[t].owed \ items
  BY DEF TypeOK, Call
<1> QED
  BY <1>1 DEF Settled

\* As the calls have settled, so are those that were answered with success.
LEMMA SettledCleanups ==
  ASSUME Inv, NEW items, call' = Settled(items), incremental' = incremental,
         \A i \in Items \ items :
           ~incremental /\ item[i] = "free" => item'[i] = "free"
  PROVE  CleanupCovers'
<1>1. \A t \in Threads : call[t].owed \subseteq Items
  BY DEF Inv, TypeOK, Call
<1> QED
  BY <1>1, Settling DEF Inv, CleanupCovers, Threads, Requests

\* Rows that fall due are owed to nobody who asked before.
LEMMA ItemChangesKeepsInv ==
  ASSUME Inv, NEW i \in Items, ItemChanges(i)
  PROVE  Inv'
<1> USE DEF ItemChanges
<1>1. CASE item[i] = "none"
  <2>1. PICK s \in DueFor \cup {"free"} : item' = [item EXCEPT ![i] = s]
    BY <1>1
  <2>2. s \in Deletions \cup {"free"} /\ s \notin NotDue
    BY DueAssumption DEF Deletions, NotDue
  <2>3. \A j \in Items : item'[j] = IF j = i THEN s ELSE item[j]
    BY <2>1 DEF Inv, TypeOK
  <2>4. UNCHANGED call
    BY <1>1
  <2>5. TypeOK'
    BY <2>1, <2>2, <2>4 DEF Inv, TypeOK
  <2>6. \A t \in Threads : call[t].owed \subseteq Items /\ i \notin call[t].owed
    BY <1>1 DEF Inv, TypeOK, OwedIsDue, Call, NotDue
  <2>7. OwedIsDue' /\ OwedIsToCome'
    BY <2>3, <2>4, <2>6 DEF Inv, OwedIsDue, OwedIsToCome
  <2>8. MutexHeld' /\ RecordIsLatest' /\ CleanupCovers'
    BY <2>3, <2>4, <2>6
    DEF Inv, MutexHeld, RecordIsLatest, CleanupCovers, Threads, Requests
  <2> QED
    BY <2>5, <2>7, <2>8 DEF Inv
<1>2. CASE item[i] # "none"
  <2>1. item' = [item EXCEPT ![i] = "none"] /\ call' = Settled({i})
    BY <1>2
  <2>2. \A j \in Items : j # i => item'[j] = item[j]
    BY <2>1 DEF Inv, TypeOK
  <2>3. \A t \in Threads : call[t].owed \subseteq Items
    BY DEF Inv, TypeOK, Call
  <2>4. TypeOK'
    BY <2>1, Settling DEF Inv, TypeOK
  <2>5. \A t \in Threads : \A j \in call'[t].owed :
          j \in call[t].owed /\ item'[j] = item[j]
    <3>1. \A t \in Threads : call'[t].owed = call[t].owed \ {i}
      BY <2>1, Settling DEF Inv
    <3> HIDE DEF ItemChanges
    <3> QED
      BY <3>1, <2>2, <2>3
  <2>7. OwedIsDue'
    BY <2>5 DEF Inv, OwedIsDue
  <2>8. OwedIsToCome'
    BY <2>5 DEF Inv, OwedIsToCome, ToCome
  <2>6. MutexHeld' /\ RecordIsLatest' /\ CleanupCovers'
    BY <2>1, <2>2, Settling, SettledCleanups DEF Inv, MutexHeld, RecordIsLatest
  <2> QED
    BY <2>4, <2>6, <2>7, <2>8 DEF Inv
<1> QED
  BY <1>1, <1>2

\* Purge begins, and all that is owed is to come.
LEMMA LockKeepsInv ==
  ASSUME Inv, NEW t \in Threads, Lock(t)
  PROVE  Inv'
<1> DEFINE c == [call[t] EXCEPT !.at = "purge"]
<1> USE DEF Lock
<1>1. c \in Call /\ c.at = "purge" /\ c.owed = call[t].owed
      /\ c.since = call[t].since
  BY DEF Inv, TypeOK, Call, At
<1>2. call' = [call EXCEPT ![t] = c]
  OBVIOUS
<1> HIDE DEF c
<1>3. \A u \in Threads : call'[u] = IF u = t THEN c ELSE call[u]
  BY <1>2 DEF Inv, TypeOK
<1>4. TypeOK'
  <2>1. overdue' \in BOOLEAN
    OBVIOUS
  <2> QED
    BY <1>1, <1>2, <2>1 DEF Inv, TypeOK
<1>5. OwedIsDue' /\ RecordIsLatest'
  BY <1>1, <1>3 DEF Inv, OwedIsDue, RecordIsLatest
<1>6. MutexHeld'
  BY <1>1, <1>3, ThreadsAssumption DEF Inv, MutexHeld, Threads, Requests
<1>7. OwedIsToCome'
  <2>1. purge.step = "entries"
    BY DEF Inv, MutexHeld, NoPurge
  <2>2. \A i \in call[t].owed : item[i] \in Deletions \cup {"free"}
    BY DEF Inv, TypeOK, OwedIsDue, Call, NotDue
  <2>3. \A i \in call[t].owed : ToCome(purge.step, item[i], incremental)
    BY <2>1, <2>2 DEF ToCome, Deletions
  <2>4. call'[t].owed = call[t].owed /\ purge' = purge /\ item' = item
        /\ incremental' = incremental /\ holder' = t
    BY <1>1, <1>3
  <2> QED
    BY <2>3, <2>4 DEF OwedIsToCome, ToCome
<1>8. CleanupCovers'
  BY <1>1, <1>3 DEF Inv, CleanupCovers, Threads, Requests
<1> QED
  BY <1>4, <1>5, <1>6, <1>7, <1>8 DEF Inv

\* A step leaves what it deals with to the steps that follow, or it is done.
LEMMA StepFollows ==
  ASSUME purge.step \in PurgeSteps, NEW shrunk \in BOOLEAN,
         NEW state \in Deletions \cup {"none", "free", "wal"},
         ToCome(purge.step, state, incremental)
  PROVE  LET next == AfterStep(state, shrunk)
         IN  \/ next \in NotDue
             \/ ToCome(Follows(purge.step), next, incremental)
BY DEF AfterStep, ToCome, Follows, PurgeSteps, Deletions, NotDue

\* A step ends in one of the states of space; what is not due stays so, and
\* what is free stays so if the database is not in incremental mode.
LEMMA AfterStepIsState ==
  ASSUME purge.step \in PurgeSteps, NEW shrunk \in BOOLEAN,
         NEW state \in Deletions \cup {"none", "free", "wal"}
  PROVE  /\ AfterStep(state, shrunk) \in Deletions \cup {"none", "free", "wal"}
         /\ ~incremental /\ state = "free" => AfterStep(state, shrunk) = "free"
BY DEF AfterStep, PurgeSteps, Deletions

LEMMA StepsInOrder ==
  \A s \in PurgeSteps : Follows(s) \in PurgeSteps \cup {"record"}
BY DEF Follows, PurgeSteps, Deletions

LEMMA PurgeStepKeepsInv ==
  ASSUME Inv, PurgeStep
  PROVE  Inv'
<1> DEFINE gone == {i \in Items : item'[i] \in NotDue}
<1>1. /\ call' = Settled(gone)
      /\ purge' = [purge EXCEPT !.step = Follows(@)]
      /\ UNCHANGED <<now, incremental, holder, lastRun, tick, overdue, answered,
                     crashes>>
  BY DEF PurgeStep
<1>2. PICK shrunk \in BOOLEAN :
        item' = [i \in Items |-> AfterStep(item[i], shrunk)]
  BY DEF PurgeStep
<1>3. /\ purge.step \in PurgeSteps
      /\ \A i \in Items : item[i] \in Deletions \cup {"none", "free", "wal"}
  BY DEF PurgeStep, Inv, TypeOK
<1>4. purge' \in [step: PurgeSteps \cup {"record"}, failed: BOOLEAN]
      /\ purge'.step = Follows(purge.step) /\ purge'.failed = purge.failed
  BY <1>1, <1>3, StepsInOrder DEF Inv, TypeOK
<1>5. /\ item' \in [Items -> Deletions \cup {"none", "free", "wal"}]
      /\ \A i \in Items :
           ~incremental /\ item[i] = "free" => item'[i] = "free"
  BY <1>2, <1>3, AfterStepIsState
<1>6. \A t \in Threads : call[t].owed \subseteq Items
  BY DEF Inv, TypeOK, Call
<1>7. \A i \in Items : item'[i] \notin NotDue \/ i \in gone
  OBVIOUS
<1>8. \A i \in Items : ~purge.failed /\ ToCome(purge.step, item[i], incremental) =>
        i \in gone \/ ToCome(purge'.step, item'[i], incremental')
  BY <1>1, <1>2, <1>3, <1>4, StepFollows
<1> HIDE DEF gone
<1>10. TypeOK'
  BY <1>1, <1>4, <1>5, Settling DEF Inv, TypeOK
<1>11. OwedIsDue'
  BY <1>1, <1>6, <1>7, Settling DEF Inv, OwedIsDue
<1>12. OwedIsToCome'
  BY <1>1, <1>4, <1>6, <1>8, Settling DEF Inv, OwedIsToCome
<1>13. MutexHeld' /\ RecordIsLatest'
  <2>1. holder # NULL
    BY DEF PurgeStep
  <2>2. MutexHeld'
    BY <1>1, <2>1, Settling DEF Inv, MutexHeld
  <2>3. RecordIsLatest'
    BY <1>1, Settling DEF Inv, RecordIsLatest
  <2> QED
    BY <2>2, <2>3
<1>14. CleanupCovers'
  BY <1>1, <1>5, SettledCleanups
<1> QED
  BY <1>10, <1>11, <1>12, <1>13, <1>14 DEF Inv

LEMMA PurgeFailsKeepsInv ==
  ASSUME Inv, PurgeFails
  PROVE  Inv'
<1>1. purge' \in [step: PurgeSteps \cup {"record"}, failed: BOOLEAN]
      /\ purge'.failed
  <2>1. purge' = [step |-> "record", failed |-> TRUE]
    BY DEF PurgeFails
  <2>2. [step |-> "record", failed |-> TRUE]
          \in [step: PurgeSteps \cup {"record"}, failed: BOOLEAN]
    OBVIOUS
  <2> QED
    BY <2>1, <2>2, Zenon
<1>2. TypeOK'
  BY <1>1 DEF PurgeFails, Inv, TypeOK
<1>3. OwedIsToCome'
  BY <1>1 DEF OwedIsToCome
<1>4. OwedIsDue' /\ MutexHeld' /\ RecordIsLatest' /\ CleanupCovers'
  BY DEF PurgeFails, Inv, OwedIsDue, MutexHeld, RecordIsLatest, CleanupCovers
<1> QED
  BY <1>2, <1>3, <1>4 DEF Inv

\* The run is recorded, and if no step of it has failed nothing is owed.
LEMMA CollectReturnsKeepsInv ==
  ASSUME Inv, NEW t \in Threads, CollectReturns(t)
  PROVE  Inv'
<1> DEFINE c == IF t = Scheduler THEN NoCall
                ELSE [call[t] EXCEPT !.at = "answered", !.ok = ~purge.failed]
<1>1. /\ holder = t /\ purge.step = "record"
      /\ lastRun' = now /\ purge' = NoPurge /\ holder' = NULL
      /\ answered' \in {answered, now}
      /\ UNCHANGED <<now, item, incremental, tick, overdue, crashes>>
  BY DEF CollectReturns, Recorded, HolderAfterCollect
<1>2. call' = [call EXCEPT ![t] = c]
  BY DEF CollectReturns
<1>3. call[t] \in Call /\ purge.failed \in BOOLEAN
  BY DEF Inv, TypeOK
<1>4. c \in Call
  <2>1. "answered" \in At /\ (~purge.failed) \in BOOLEAN
    BY DEF At
  <2> QED
    BY <1>3, <2>1, NoCallIsCall, CallUpdates, Zenon
<1>5. /\ c.at \in {"idle", "answered"}
      /\ c.owed \subseteq call[t].owed
      /\ c.since \in {0, call[t].since}
      /\ t # Scheduler => (c.ok <=> ~purge.failed)
  <2>1. NoCall.at = "idle" /\ NoCall.owed = {} /\ NoCall.since = 0
    BY DEF NoCall
  <2>2. ASSUME NEW ok \in BOOLEAN
        PROVE  LET d == [call[t] EXCEPT !.at = "answered", !.ok = ok]
               IN  /\ d.at = "answered" /\ d.owed = call[t].owed
                   /\ d.since = call[t].since /\ (d.ok <=> ok)
    BY <1>3 DEF Call
  <2>3. (~purge.failed) \in BOOLEAN
    OBVIOUS
  <2> DEFINE d == [call[t] EXCEPT !.at = "answered", !.ok = ~purge.failed]
  <2>4. /\ d.at = "answered" /\ d.owed = call[t].owed
        /\ d.since = call[t].since /\ (d.ok <=> ~purge.failed)
    BY <2>2, <2>3, Zenon
  <2> HIDE DEF d
  <2>5. c = IF t = Scheduler THEN NoCall ELSE d
    BY DEF d
  <2> HIDE DEF c
  <2> QED
    BY <2>1, <2>4, <2>5
<1> HIDE DEF c
<1>6. \A u \in Threads : call'[u] = IF u = t THEN c ELSE call[u]
  BY <1>2 DEF Inv, TypeOK
<1>7. TypeOK'
  BY <1>1, <1>2, <1>4, NoPurgeIsPurge DEF Inv, TypeOK
<1>8. OwedIsDue'
  BY <1>1, <1>5, <1>6 DEF Inv, OwedIsDue
<1>9. MutexHeld'
  BY <1>1, <1>5, <1>6, ThreadsAssumption
     DEF Inv, MutexHeld, Threads, Requests
<1>10. OwedIsToCome'
  BY <1>1, ThreadsAssumption DEF OwedIsToCome, Threads, Requests
<1>11. RecordIsLatest'
  <2>1. /\ now \in Nat /\ lastRun \in Nat /\ answered \in Nat
        /\ answered <= lastRun /\ lastRun <= now
        /\ \A u \in Threads : call[u].since \in Nat /\ call[u].since <= lastRun
    BY BoundsAssumption DEF Inv, TypeOK, RecordIsLatest, Call
  <2>2. \A u \in Threads : call'[u].since \in {0, call[u].since}
    BY <1>5, <1>6
  <2>3. /\ lastRun' = now /\ now' = now /\ answered' \in {answered, now}
    BY <1>1
  <2>4. \A u \in Threads : call'[u].since <= lastRun'
    BY <2>1, <2>2, <2>3
  <2> QED
    BY <2>1, <2>3, <2>4 DEF RecordIsLatest
<1>12. CleanupCovers'
  <2>1. ~purge.failed =>
          \A i \in call[t].owed : ~incremental /\ item[i] = "free"
    <3>1. ~purge.failed =>
            \A i \in call[t].owed : ToCome("record", item[i], incremental)
      BY <1>1 DEF Inv, OwedIsToCome
    <3> QED
      BY <3>1 DEF ToCome, Deletions
  <2>2. t # Scheduler /\ c.ok =>
          \A i \in c.owed : ~incremental /\ item[i] = "free"
    BY <1>5, <2>1
  <2>3. \A r \in Cleaners : r # Scheduler
    BY ThreadsAssumption
  <2> QED
    BY <1>1, <1>6, <2>2, <2>3 DEF Inv, CleanupCovers, Threads, Requests
<1> QED
  BY <1>7, <1>8, <1>9, <1>10, <1>11, <1>12 DEF Inv

LEMMA TickKeepsInv ==
  ASSUME Inv, Tick
  PROVE  Inv'
<1>1. TypeOK'
  BY DEF Tick, Delivered, Inv, TypeOK
<1>2. OwedIsDue' /\ MutexHeld' /\ OwedIsToCome' /\ RecordIsLatest'
      /\ CleanupCovers'
  BY DEF Tick, Inv, OwedIsDue, MutexHeld, OwedIsToCome, RecordIsLatest,
         CleanupCovers, ToCome
<1> QED
  BY <1>1, <1>2 DEF Inv

LEMMA ClockRunsKeepsInv ==
  ASSUME Inv, ClockRuns
  PROVE  Inv'
<1>1. TypeOK' /\ RecordIsLatest'
  BY BoundsAssumption DEF ClockRuns, Inv, TypeOK, RecordIsLatest
<1>2. OwedIsDue' /\ MutexHeld' /\ OwedIsToCome' /\ CleanupCovers'
  BY DEF ClockRuns, Inv, OwedIsDue, MutexHeld, OwedIsToCome, CleanupCovers,
         ToCome
<1> QED
  BY <1>1, <1>2 DEF Inv

\* All goroutines, and what they were owed, are gone.
LEMMA RestartKeepsInv ==
  ASSUME Inv, Restart
  PROVE  Inv'
<1> USE DEF Restart
<1>1. TypeOK'
  <2>1. purge' \in [step: PurgeSteps \cup {"record"}, failed: BOOLEAN]
    BY NoPurgeIsPurge
  <2>2. tick' \in BOOLEAN /\ overdue' \in BOOLEAN
    OBVIOUS
  <2>3. crashes' \in 0..MaxCrashes /\ lastRun' \in 0..MaxTime
        /\ answered' \in 0..MaxTime
    BY BoundsAssumption DEF Inv, TypeOK
  <2>4. /\ item' \in [Items -> Deletions \cup {"none", "free", "wal"}]
        /\ incremental' \in BOOLEAN
    BY DEF EnableIncrementalVacuum, Inv, TypeOK
  <2> QED
    BY <2>1, <2>2, <2>3, <2>4, StartsWell DEF Inv, TypeOK
<1>2. OwedIsDue' /\ OwedIsToCome'
  BY StartsWell DEF OwedIsDue, OwedIsToCome
<1>3. MutexHeld'
  BY StartsWell, ThreadsAssumption DEF MutexHeld, Threads, Requests
<1>4. RecordIsLatest'
  BY StartsWell DEF Inv, TypeOK, RecordIsLatest
<1>5. CleanupCovers'
  BY StartsWell DEF CleanupCovers, Threads, Requests
<1> QED
  BY <1>1, <1>2, <1>3, <1>4, <1>5 DEF Inv

-----------------------------------------------------------------------------
LEMMA StutteringKeepsInv ==
  ASSUME Inv, UNCHANGED vars
  PROVE  Inv'
BY DEF vars, Inv, TypeOK, OwedIsDue, MutexHeld, OwedIsToCome, RecordIsLatest,
       CleanupCovers, ToCome

\* Every step of the scheduler, of requests and of the process preserves the
\* invariant.
LEMMA NextKeepsInv ==
  ASSUME Inv, [Next]_vars
  PROVE  Inv'
<1>1. ASSUME NEW i \in Items, ItemChanges(i) PROVE Inv'
  BY <1>1, ItemChangesKeepsInv
<1>2. CASE Tick
  BY <1>2, TickKeepsInv
<1>3. CASE SchedulerWakes
  BY <1>3, SchedulerWakesKeepsInv
<1>4. ASSUME NEW t \in Threads, Lock(t) PROVE Inv'
  BY <1>4, LockKeepsInv
<1>5. CASE CollectStep
  <2>1. CASE PurgeStep
    BY <2>1, PurgeStepKeepsInv
  <2>2. CASE PurgeFails
    BY <2>2, PurgeFailsKeepsInv
  <2>3. ASSUME NEW t \in Threads, CollectReturns(t) PROVE Inv'
    BY <2>3, CollectReturnsKeepsInv
  <2> QED
    BY <1>5, <2>1, <2>2, <2>3 DEF CollectStep
<1>6. ASSUME NEW r \in Cleaners, CleanupPost(r) PROVE Inv'
  BY <1>6, CleanupPostKeepsInv
<1>7. ASSUME NEW r \in Viewers, PageStep(r) PROVE Inv'
  <2>1. CASE SystemInformationGet(r)
    BY <2>1, SystemInformationGetKeepsInv
  <2>2. CASE Measure(r)
    BY <2>2, MeasureKeepsInv
  <2>3. CASE MeasureFails(r)
    BY <2>3, MeasureFailsKeepsInv
  <2>4. CASE LastRun(r)
    BY <2>4, LastRunKeepsInv
  <2> QED
    BY <1>7, <2>1, <2>2, <2>3, <2>4 DEF PageStep
<1>8. ASSUME NEW r \in Requests, NextRequest(r) PROVE Inv'
  BY <1>8, NextRequestKeepsInv
<1>9. CASE ClockRuns
  BY <1>9, ClockRunsKeepsInv
<1>10. CASE Restart
  BY <1>10, RestartKeepsInv
<1>11. CASE UNCHANGED vars
  BY <1>11, StutteringKeepsInv
<1> QED
  BY <1>1, <1>2, <1>3, <1>4, <1>5, <1>6, <1>7, <1>8, <1>9, <1>10, <1>11
     DEF Next

\* The strengthened invariant holds throughout.
LEMMA Invariance == Spec => []Inv
<1>1. Inv /\ [Next]_vars => Inv'
  BY NextKeepsInv
<1> QED
  BY InitInv, <1>1, PTL DEF Spec

\* Every variable keeps its type; the sizes that the page shows are numbers
\* that bigIntToUint64 lets through, whatever statfs reports.
THEOREM TypeCorrect == Spec => []TypeOK
<1>1. Inv => TypeOK
  BY DEF Inv
<1> QED
  BY Invariance, <1>1, PTL

\* When a cleanup succeeds, nothing that was expired or orphaned when the
\* administrator asked is left, and its space and what was free have left the
\* database if it is in incremental auto-vacuum mode, however the collections
\* of others interleave: Collect waits for its turn and purges from the start.
THEOREM CleanupsCover == Spec => []CleanupCovers
<1>1. Inv => CleanupCovers
  BY DEF Inv
<1> QED
  BY Invariance, <1>1, PTL

\* The page that systemInformationGet renders names no run older than a cleanup
\* that was answered before the page was asked for.
THEOREM PageStaysCurrent == Spec => PageIsCurrent
<1>1. Inv /\ [Next]_vars
        => [\A r \in Viewers : LastRun(r) => lastRun >= call[r].since]_vars
  BY DEF Inv, TypeOK, RecordIsLatest, Threads, Requests, Call
<1> QED
  BY Invariance, <1>1, PTL DEF Spec, PageIsCurrent

-----------------------------------------------------------------------------
(***************************************************************************)
(* Everybody is answered in the end.  Fairness is taken with the guard of  *)
(* each step in the place of ENABLED, about which tlapm cannot reason;     *)
(* when it holds there is always a way to take the step.                   *)
(***************************************************************************)
CollectorIsFair ==
  /\ <>[](holder # NULL) => []<><<CollectStep>>_vars
  /\ <>[](call[Scheduler].at = "idle" /\ tick) => []<><<SchedulerWakes>>_vars
  /\ \A t \in Threads :
       []<>(call[t].at = "collect" /\ holder = NULL) => []<><<Lock(t)>>_vars

PagesAreFair ==
  \A r \in Viewers :
    /\ <>[](call[r].at = "measure")
         => []<><<Measure(r) \/ MeasureFails(r)>>_vars
    /\ []<>(call[r].at = "lastRun" /\ holder = NULL) => []<><<LastRun(r)>>_vars

GuardsSuffice ==
  /\ holder # NULL => ENABLED <<CollectStep>>_vars
  /\ call[Scheduler].at = "idle" /\ tick => ENABLED <<SchedulerWakes>>_vars
  /\ \A t \in Threads :
       call[t].at = "collect" /\ holder = NULL => ENABLED <<Lock(t)>>_vars
  /\ \A r \in Viewers :
       /\ call[r].at = "measure"
            => ENABLED <<Measure(r) \/ MeasureFails(r)>>_vars
       /\ call[r].at = "lastRun" /\ holder = NULL => ENABLED <<LastRun(r)>>_vars

\* So CollectorIsFair and PagesAreFair are what FairSpec says of them.
LEMMA FairSpecIsFair ==
  FairSpec /\ []GuardsSuffice => CollectorIsFair /\ PagesAreFair
<1>1. FairSpec /\ []GuardsSuffice =>
        /\ <>[](holder # NULL) => []<><<CollectStep>>_vars
        /\ <>[](call[Scheduler].at = "idle" /\ tick)
             => []<><<SchedulerWakes>>_vars
  <2>1. GuardsSuffice =>
          /\ holder # NULL => ENABLED <<CollectStep>>_vars
          /\ call[Scheduler].at = "idle" /\ tick
               => ENABLED <<SchedulerWakes>>_vars
    BY DEF GuardsSuffice
  <2> QED
    BY <2>1, PTL DEF FairSpec, Fairness
<1>2. FairSpec => \A t \in Threads : LockIsFair(t)
  BY PTL DEF FairSpec, Fairness
<1>3. FairSpec => \A r \in Viewers : PageIsFair(r)
  BY PTL DEF FairSpec, Fairness
<1>4. ASSUME NEW t \in Threads
      PROVE  FairSpec /\ []GuardsSuffice =>
               ([]<>(call[t].at = "collect" /\ holder = NULL)
                  => []<><<Lock(t)>>_vars)
  <2>1. GuardsSuffice =>
          (call[t].at = "collect" /\ holder = NULL => ENABLED <<Lock(t)>>_vars)
    BY DEF GuardsSuffice
  <2>2. FairSpec => LockIsFair(t)
    BY <1>2
  <2> QED
    BY <2>1, <2>2, PTL DEF LockIsFair
<1>5. ASSUME NEW r \in Viewers
      PROVE  FairSpec /\ []GuardsSuffice =>
               /\ <>[](call[r].at = "measure")
                    => []<><<Measure(r) \/ MeasureFails(r)>>_vars
               /\ []<>(call[r].at = "lastRun" /\ holder = NULL)
                    => []<><<LastRun(r)>>_vars
  <2>1. GuardsSuffice =>
          /\ call[r].at = "measure"
               => ENABLED <<Measure(r) \/ MeasureFails(r)>>_vars
          /\ call[r].at = "lastRun" /\ holder = NULL
               => ENABLED <<LastRun(r)>>_vars
    BY DEF GuardsSuffice
  <2>2. FairSpec => PageIsFair(r)
    BY <1>3
  <2> QED
    BY <2>1, <2>2, PTL DEF PageIsFair
<1> QED
  BY <1>1, <1>4, <1>5 DEF CollectorIsFair, PagesAreFair

\* How a call goes on, by a step of its goroutine or by a restart.
LEMMA CallGoesOn ==
  ASSUME Inv, [Next]_vars, NEW t \in Threads
  PROVE  \/ call'[t].at = call[t].at
         \/ call[t].at = "idle" /\ call'[t].at = "collect"
         \/ /\ Lock(t) /\ call[t].at = "collect"
            /\ call'[t].at = "purge"
         \/ /\ call[t].at = "purge"
            /\ call'[t].at = IF t = Scheduler THEN "idle" ELSE "answered"
         \/ /\ t \in Viewers /\ call[t].at = "idle"
            /\ call'[t].at = "measure"
         \/ /\ t \in Viewers /\ call[t].at = "measure"
            /\ call'[t].at \in {"lastRun", "answered"}
         \/ /\ t \in Viewers /\ call[t].at = "lastRun"
            /\ call'[t].at = "answered"
         \/ t \in Requests /\ call[t].at = "answered" /\ call'[t].at = "idle"
         \/ Restart /\ call'[t].at = IF t = Scheduler THEN "collect" ELSE "idle"
<1>0. call \in [Threads -> Call] /\ call[t] \in Call /\ TypeOK
  BY DEF Inv, TypeOK
<1>1. ASSUME NEW items, call' = Settled(items)
      PROVE  call'[t].at = call[t].at
  BY <1>0, <1>1, Settling
<1>2. ASSUME NEW r, NEW c, call' = [call EXCEPT ![r] = c], r # t
      PROVE  call'[t].at = call[t].at
  BY <1>0, <1>2
<1>3. ASSUME NEW c, call' = [call EXCEPT ![t] = c]
      PROVE  call'[t] = c
  BY <1>0, <1>3
<1>4. ASSUME NEW owed
      PROVE  [NoCall EXCEPT !.at = "collect", !.owed = owed].at = "collect"
  BY DEF NoCall
<1>5. NoCall.at = "idle" /\ [NoCall EXCEPT !.at = "collect"].at = "collect"
  BY DEF NoCall
<1>6. ASSUME NEW i \in Items, ItemChanges(i) PROVE call'[t].at = call[t].at
  BY <1>1, <1>6 DEF ItemChanges
<1>7. CASE Tick \/ PurgeFails \/ ClockRuns \/ UNCHANGED vars
  BY <1>7 DEF Tick, PurgeFails, ClockRuns, vars
<1>8. CASE PurgeStep
  BY <1>1, <1>8 DEF PurgeStep
<1>9. ASSUME NEW r, NEW owed, call[r].at = "idle", CallCollect(r, owed)
      PROVE  \/ call'[t].at = call[t].at
             \/ call[t].at = "idle" /\ call'[t].at = "collect"
  BY <1>2, <1>3, <1>4, <1>9 DEF CallCollect
<1>10. CASE SchedulerWakes \/ \E r \in Cleaners : CleanupPost(r)
  BY <1>9, <1>10 DEF SchedulerWakes, CleanupPost
<1>11. ASSUME NEW r \in Threads, Lock(r)
       PROVE  \/ call'[t].at = call[t].at
              \/ /\ Lock(t) /\ call[t].at = "collect"
                 /\ call'[t].at = "purge"
  BY <1>0, <1>11 DEF Lock, Call
<1>12. ASSUME NEW r \in Threads, CollectReturns(r)
       PROVE  \/ call'[t].at = call[t].at
              \/ /\ call[t].at = "purge"
                 /\ call'[t].at = IF t = Scheduler THEN "idle" ELSE "answered"
  <2>1. CASE r # t
    BY <1>0, <1>12, <2>1 DEF CollectReturns
  <2>2. CASE r = t
    <3>1. call[t].at = "purge"
      BY <1>12, <2>2 DEF CollectReturns, Inv, MutexHeld
    <3>2. CASE t = Scheduler
      BY <1>0, <1>5, <1>12, <2>2, <3>1, <3>2 DEF CollectReturns
    <3>3. CASE t # Scheduler
      BY <1>0, <1>12, <2>2, <3>1, <3>3 DEF CollectReturns, Call
    <3> QED
      BY <3>2, <3>3
  <2> QED
    BY <2>1, <2>2
<1>13. ASSUME NEW r \in Viewers, PageStep(r), r # t
       PROVE  call'[t].at = call[t].at
  BY <1>0, <1>13
  DEF PageStep, SystemInformationGet, Measure, MeasureFails, LastRun
<1>14. ASSUME t \in Viewers, SystemInformationGet(t)
       PROVE  call[t].at = "idle" /\ call'[t].at = "measure"
  BY <1>0, <1>14 DEF SystemInformationGet, NoCall
<1>15. ASSUME Measure(t)
       PROVE  call[t].at = "measure" /\ call'[t].at = "lastRun"
  BY <1>0, <1>15 DEF Measure, Call
<1>16. ASSUME MeasureFails(t)
       PROVE  call[t].at = "measure" /\ call'[t].at = "answered"
  BY <1>0, <1>16 DEF MeasureFails, Call
<1>17. ASSUME LastRun(t)
       PROVE  call[t].at = "lastRun" /\ call'[t].at = "answered"
  BY <1>0, <1>17 DEF LastRun, Call
<1>18. ASSUME NEW r \in Requests, NextRequest(r)
       PROVE  \/ call'[t].at = call[t].at
              \/ /\ t \in Requests /\ call[t].at = "answered"
                 /\ call'[t].at = "idle"
  BY <1>2, <1>3, <1>5, <1>18 DEF NextRequest
<1>19. ASSUME Restart
       PROVE  call'[t].at = IF t = Scheduler THEN "collect" ELSE "idle"
  BY <1>5, <1>19 DEF Restart, ProcessStarts
<1>20. ASSUME NEW r \in Viewers, PageStep(r)
       PROVE  \/ call'[t].at = call[t].at
              \/ /\ t \in Viewers /\ call[t].at = "idle"
                 /\ call'[t].at = "measure"
              \/ /\ t \in Viewers /\ call[t].at = "measure"
                 /\ call'[t].at \in {"lastRun", "answered"}
              \/ /\ t \in Viewers /\ call[t].at = "lastRun"
                 /\ call'[t].at = "answered"
  BY <1>13, <1>14, <1>15, <1>16, <1>17, <1>20 DEF PageStep
<1> QED
  BY <1>6, <1>7, <1>8, <1>10, <1>11, <1>12, <1>18, <1>19, <1>20
  DEF Next, CollectStep

\* The goroutine in Collect takes one step of Purge after the other.
LEMMA CollectGoesOn ==
  ASSUME Inv, [Next]_vars, holder # NULL
  PROVE  \/ holder' = NULL
         \/ purge' = purge /\ ~CollectStep
         \/ /\ purge.step # "record"
            /\ purge'.step \in {Follows(purge.step), "record"}
<1>1. ASSUME \/ \E i \in Items : ItemChanges(i)
             \/ Tick \/ SchedulerWakes \/ ClockRuns \/ UNCHANGED vars
      PROVE  purge' = purge
  BY <1>1 DEF ItemChanges, Tick, SchedulerWakes, ClockRuns, vars
<1>2. ASSUME NEW t \in Threads, Lock(t) PROVE FALSE
  BY <1>2 DEF Lock
<1>3. ASSUME \/ \E r \in Cleaners : CleanupPost(r)
             \/ \E r \in Viewers : PageStep(r)
             \/ \E r \in Requests : NextRequest(r)
      PROVE  purge' = purge
  BY <1>3
  DEF CleanupPost, PageStep, SystemInformationGet, Measure, MeasureFails,
      LastRun, NextRequest
<1>4. CASE PurgeStep
  BY <1>4 DEF PurgeStep, Inv, TypeOK
<1>5. CASE PurgeFails
  BY <1>5 DEF PurgeFails
<1>6. ASSUME NEW t \in Threads, CollectReturns(t) PROVE holder' = NULL
  BY <1>6 DEF CollectReturns, HolderAfterCollect
<1>7. ASSUME Restart PROVE holder' = NULL
  BY <1>7 DEF Restart
<1> QED
  BY <1>1, <1>2, <1>3, <1>4, <1>5, <1>6, <1>7 DEF Next, CollectStep

\* Whoever holds the mutex lets it go.
LEMMA MutexIsReleased ==
  Spec /\ CollectorIsFair => (holder # NULL ~> holder = NULL)
<1> DEFINE Held == holder # NULL
           Before(step) == purge.step = step
<1>1. Inv => \/ Before("entries") \/ Before("orphans") \/ Before("history")
             \/ Before("sessions") \/ Before("reclaim")
             \/ Before("checkpoint") \/ Before("record")
  BY DEF Inv, TypeOK, PurgeSteps, Deletions
<1>2. /\ Inv /\ Held /\ Before("entries") /\ [Next]_vars =>
           ~Held' \/ Before("entries")' \/ Before("orphans")'
           \/ Before("record")'
      /\ Inv /\ Held /\ Before("orphans") /\ [Next]_vars =>
           ~Held' \/ Before("orphans")' \/ Before("history")'
           \/ Before("record")'
      /\ Inv /\ Held /\ Before("history") /\ [Next]_vars =>
           ~Held' \/ Before("history")' \/ Before("sessions")'
           \/ Before("record")'
      /\ Inv /\ Held /\ Before("sessions") /\ [Next]_vars =>
           ~Held' \/ Before("sessions")' \/ Before("reclaim")'
           \/ Before("record")'
      /\ Inv /\ Held /\ Before("reclaim") /\ [Next]_vars =>
           ~Held' \/ Before("reclaim")' \/ Before("checkpoint")'
           \/ Before("record")'
      /\ Inv /\ Held /\ Before("checkpoint") /\ [Next]_vars =>
           ~Held' \/ Before("checkpoint")' \/ Before("record")'
      /\ Inv /\ Held /\ Before("record") /\ [Next]_vars =>
           ~Held' \/ Before("record")'
  BY CollectGoesOn DEF Follows
<1>3. /\ Inv /\ Held /\ Before("entries") /\ <<Next /\ CollectStep>>_vars =>
           ~Held' \/ Before("orphans")' \/ Before("record")'
      /\ Inv /\ Held /\ Before("orphans") /\ <<Next /\ CollectStep>>_vars =>
           ~Held' \/ Before("history")' \/ Before("record")'
      /\ Inv /\ Held /\ Before("history") /\ <<Next /\ CollectStep>>_vars =>
           ~Held' \/ Before("sessions")' \/ Before("record")'
      /\ Inv /\ Held /\ Before("sessions") /\ <<Next /\ CollectStep>>_vars =>
           ~Held' \/ Before("reclaim")' \/ Before("record")'
      /\ Inv /\ Held /\ Before("reclaim") /\ <<Next /\ CollectStep>>_vars =>
           ~Held' \/ Before("checkpoint")' \/ Before("record")'
      /\ Inv /\ Held /\ Before("checkpoint") /\ <<Next /\ CollectStep>>_vars =>
           ~Held' \/ Before("record")'
      /\ Inv /\ Held /\ Before("record") /\ <<Next /\ CollectStep>>_vars =>
           ~Held'
  BY CollectGoesOn DEF Follows
<1>4. <<CollectStep>>_vars => <<Next /\ CollectStep>>_vars
  BY DEF Next
<1>5. CollectorIsFair => (<>[]Held => []<><<CollectStep>>_vars)
  BY DEF CollectorIsFair
<1>6. Held <=> ~(holder = NULL)
  OBVIOUS
<1> HIDE DEF Held, Before
<1>7. Spec /\ CollectorIsFair => (Held ~> ~Held)
  BY <1>1, <1>2, <1>3, <1>4, <1>5, Invariance, PTL DEF Spec
<1> QED
  BY <1>6, <1>7, PTL

\* Viewers, and they alone, measure; the scheduler collects and sleeps, and a
\* tick that it has not followed yet has not gone lost.
Roles ==
  /\ \A t \in Threads : call[t].at \in {"measure", "lastRun"} => t \in Viewers
  /\ call[Scheduler].at \in {"idle", "collect", "purge"}
  /\ overdue => tick \/ call[Scheduler].at = "collect"

\* What the steps do to the tick and to overdue.
LEMMA TickKept ==
  ASSUME Inv, [Next]_vars
  PROVE  \/ overdue' = overdue /\ tick' = tick
         \/ tick'
         \/ SchedulerWakes
         \/ Lock(Scheduler)
         \/ Restart
<1>1. ASSUME \/ \E i \in Items : ItemChanges(i)
             \/ CollectStep \/ ClockRuns \/ UNCHANGED vars
             \/ \E r \in Cleaners : CleanupPost(r)
             \/ \E r \in Viewers : PageStep(r)
             \/ \E r \in Requests : NextRequest(r)
      PROVE  overdue' = overdue /\ tick' = tick
  BY <1>1
  DEF ItemChanges, CollectStep, PurgeStep, PurgeFails, CollectReturns,
      ClockRuns, CleanupPost, PageStep, SystemInformationGet, Measure,
      MeasureFails, LastRun, NextRequest, vars
<1>2. ASSUME NEW t \in Threads, Lock(t), t # Scheduler
      PROVE  overdue' = overdue /\ tick' = tick
  <2>1. overdue \in BOOLEAN
    BY DEF Inv, TypeOK
  <2>2. tick' = tick /\ overdue' = (overdue /\ t # Scheduler)
    BY <1>2 DEF Lock
  <2> QED
    BY <1>2, <2>1, <2>2
<1>3. CASE Tick
  BY <1>3 DEF Tick, Delivered
<1> QED
  BY <1>1, <1>2, <1>3 DEF Next

LEMMA RolesAreKept == Spec => []Roles
<1>0. /\ Scheduler \in Threads
      /\ Scheduler \notin Requests /\ Scheduler \notin Viewers
  BY ThreadsAssumption DEF Threads, Requests
<1>1. Init => Roles
  <2> SUFFICES ASSUME Init PROVE Roles
    OBVIOUS
  <2>1. \A t \in Threads :
          call[t].at = IF t = Scheduler THEN "collect" ELSE "idle"
    BY DEF Init, ProcessStarts, NoCall
  <2> QED
    BY <1>0, <2>1 DEF Roles
<1>2. Inv /\ Roles /\ [Next]_vars => Roles'
  <2> SUFFICES ASSUME Inv, Roles, [Next]_vars PROVE Roles'
    OBVIOUS
  <2>1. ASSUME NEW t \in Threads, call'[t].at \in {"measure", "lastRun"}
        PROVE  t \in Viewers
    BY <2>1, CallGoesOn DEF Roles
  <2>2. /\ call'[Scheduler].at \in {"idle", "collect", "purge"}
        /\ call[Scheduler].at = "collect" =>
             call'[Scheduler].at \in {"collect", "purge"}
    BY <1>0, CallGoesOn DEF Roles
  <2>3. ASSUME overdue' PROVE tick' \/ call'[Scheduler].at = "collect"
    <3>1. CASE overdue' = overdue /\ tick' = tick
      <4>1. CASE call[Scheduler].at = "collect" /\ call'[Scheduler].at = "purge"
        <5>1. Lock(Scheduler)
          BY <1>0, <4>1, CallGoesOn DEF Restart, ProcessStarts, NoCall
        <5> QED
          BY <2>3, <5>1 DEF Lock
      <4> QED
        BY <2>2, <2>3, <3>1, <4>1 DEF Roles
    <3>2. CASE SchedulerWakes
      BY <1>0, <3>2 DEF SchedulerWakes, CallCollect, NoCall, Inv, TypeOK
    <3>3. CASE Lock(Scheduler)
      BY <2>3, <3>3 DEF Lock
    <3>4. CASE Restart
      BY <1>0, <3>4 DEF Restart, ProcessStarts, NoCall
    <3> QED
      BY <3>1, <3>2, <3>3, <3>4, TickKept
  <2> QED
    BY <2>1, <2>2, <2>3 DEF Roles
<1> QED
  BY <1>1, <1>2, Invariance, PTL DEF Spec

\* Whoever wants to collect gets the mutex, or the process dies.
GetsLock(t) == call[t].at = "collect" ~> holder = t \/ call[t].at = "idle"

LEMMA EverybodyLocks ==
  ASSUME NEW t \in Threads
  PROVE  Spec /\ CollectorIsFair => GetsLock(t)
<1>1. Inv /\ call[t].at = "collect" /\ [Next]_vars =>
        (call[t].at = "collect")' \/ (holder = t)' \/ (call[t].at = "idle")'
  <2> SUFFICES ASSUME Inv, call[t].at = "collect", [Next]_vars
               PROVE  \/ call'[t].at = "collect" \/ holder' = t
                      \/ call'[t].at = "idle"
    OBVIOUS
  <2> QED
    BY CallGoesOn DEF Lock
<1>2. <<Lock(t)>>_vars => (holder = t)'
  BY DEF Lock
<1>3. CollectorIsFair =>
        ([]<>(call[t].at = "collect" /\ holder = NULL) => []<><<Lock(t)>>_vars)
  BY DEF CollectorIsFair
<1>4. holder # NULL <=> ~(holder = NULL)
  OBVIOUS
<1> QED
  BY <1>1, <1>2, <1>3, <1>4, MutexIsReleased, Invariance, PTL
  DEF Spec, GetsLock

\* Administrators who clean up and visitors of the page for system information
\* get an answer, whoever else collects and whatever fails.
THEOREM EverybodyIsAnswered ==
  Spec /\ CollectorIsFair /\ PagesAreFair => CallsAnswered
<1> SUFFICES ASSUME NEW r \in Requests
             PROVE  Spec /\ CollectorIsFair /\ PagesAreFair =>
                      (call[r].at \in {"collect", "measure"} ~>
                         call[r].at \in {"answered", "idle"})
  BY DEF CallsAnswered
<1> DEFINE Is(at) == call[r].at = at
           Done == call[r].at \in {"answered", "idle"}
<1>0. r \in Threads /\ r # Scheduler
  BY ThreadsAssumption DEF Threads, Requests
<1>1. call[r].at \in {"collect", "measure"} <=> Is("collect") \/ Is("measure")
  OBVIOUS
<1>2. Is("idle") => Done
  OBVIOUS
<1>3. Inv => (holder = r <=> Is("purge"))
  BY <1>0 DEF Inv, MutexHeld
<1>4. Inv /\ Is("purge") /\ [Next]_vars => Is("purge")' \/ Done'
  BY <1>0, CallGoesOn
<1>5. Inv /\ holder = NULL => ~Is("purge")
  BY <1>0, ThreadsAssumption DEF Inv, MutexHeld, Threads, Requests
<1>6. Inv /\ Roles /\ Is("measure") => r \in Viewers
  BY <1>0 DEF Roles
<1>7. Inv /\ Is("measure") /\ [Next]_vars =>
        Is("measure")' \/ Is("lastRun")' \/ Done'
  BY <1>0, CallGoesOn
<1>8. Inv /\ Is("lastRun") /\ [Next]_vars => Is("lastRun")' \/ Done'
  BY <1>0, CallGoesOn
<1>9. Inv /\ <<Measure(r) \/ MeasureFails(r)>>_vars => ~Is("measure")'
  BY <1>0 DEF Measure, MeasureFails, Inv, TypeOK, Call
<1>10. Inv /\ <<LastRun(r)>>_vars => Done'
  BY <1>0 DEF LastRun, Inv, TypeOK, Call
<1>11. PagesAreFair /\ r \in Viewers =>
         /\ <>[]Is("measure") => []<><<Measure(r) \/ MeasureFails(r)>>_vars
         /\ []<>(Is("lastRun") /\ holder = NULL) => []<><<LastRun(r)>>_vars
  BY DEF PagesAreFair
<1>12. Spec /\ CollectorIsFair => GetsLock(r)
  BY <1>0, EverybodyLocks
<1>14. holder # NULL <=> ~(holder = NULL)
  OBVIOUS
<1> HIDE DEF Is, Done
<1>15. Spec /\ CollectorIsFair => (Is("collect") ~> Done)
  BY <1>2, <1>3, <1>4, <1>5, <1>12, <1>14, MutexIsReleased, Invariance, PTL
  DEF Spec, GetsLock, Is
<1>16. CASE r \in Viewers
  <2>1. Spec /\ CollectorIsFair /\ PagesAreFair => (Is("lastRun") ~> Done)
    BY <1>8, <1>10, <1>11, <1>14, <1>16, MutexIsReleased, Invariance, PTL
    DEF Spec
  <2>2. Spec /\ CollectorIsFair /\ PagesAreFair => (Is("measure") ~> Done)
    BY <1>7, <1>9, <1>11, <1>16, <2>1, Invariance, PTL DEF Spec
  <2> QED
    BY <1>1, <1>15, <2>2, PTL DEF Done
<1>17. CASE r \notin Viewers
  <2>1. Inv /\ Roles => ~Is("measure")
    BY <1>6, <1>17
  <2> QED
    BY <1>1, <1>15, <2>1, Invariance, RolesAreKept, PTL DEF Done
<1> QED
  BY <1>16, <1>17

\* The scheduler collects after every tick, also after one that fell into a
\* collection: the ticker's channel has kept it.
THEOREM EveryTickIsFollowed == Spec /\ CollectorIsFair => EveryTickCollects
<1> SUFFICES ASSUME NEW t, t = Scheduler
             PROVE  Spec /\ CollectorIsFair => EveryTickCollects
  OBVIOUS
<1> DEFINE Is(at) == call[t].at = at
<1>0. /\ t = Scheduler /\ t \in Threads
      /\ Scheduler \notin Requests /\ Scheduler \notin Viewers
  BY ThreadsAssumption DEF Threads, Requests
<1>1. Roles => /\ Is("idle") \/ Is("collect") \/ Is("purge")
               /\ overdue => tick \/ Is("collect")
  BY <1>0 DEF Roles
<1>2. /\ ~(Is("idle") /\ Is("collect")) /\ ~(Is("idle") /\ Is("purge"))
      /\ ~(Is("collect") /\ Is("purge"))
  OBVIOUS
<1>3. Inv => (holder = t <=> Is("purge"))
  BY <1>0 DEF Inv, MutexHeld
<1>4. Inv /\ holder = NULL => ~Is("purge")
  BY <1>0, ThreadsAssumption DEF Inv, MutexHeld
<1>5. Inv /\ Is("collect") /\ [Next]_vars => Is("collect")' \/ ~overdue'
  <2> SUFFICES ASSUME Inv, Is("collect"), [Next]_vars, ~Is("collect")'
               PROVE  ~overdue'
    OBVIOUS
  <2>1. Lock(Scheduler)
    BY <1>0, CallGoesOn
  <2> QED
    BY <2>1 DEF Lock
<1>6. Inv /\ Is("idle") /\ [Next]_vars => Is("idle")' \/ Is("collect")'
  BY <1>0, CallGoesOn
<1>7. Inv /\ <<SchedulerWakes>>_vars => Is("collect")'
  BY <1>0 DEF SchedulerWakes, CallCollect, NoCall, Inv, TypeOK
<1>8. <<Lock(t)>>_vars => ~overdue'
  BY <1>0 DEF Lock
<1>9. CollectorIsFair =>
        ([]<>(Is("collect") /\ holder = NULL) => []<><<Lock(t)>>_vars)
  BY <1>0 DEF CollectorIsFair
<1>12. CollectorIsFair =>
         (<>[](call[Scheduler].at = "idle" /\ tick)
            => []<><<SchedulerWakes>>_vars)
  BY DEF CollectorIsFair
<1>13. Is("idle") <=> call[Scheduler].at = "idle"
  BY <1>0
<1>10. holder # NULL <=> ~(holder = NULL)
  OBVIOUS
<1> HIDE DEF Is
<1>11. Spec /\ CollectorIsFair => (overdue ~> ~overdue)
  BY <1>1, <1>2, <1>3, <1>4, <1>5, <1>6, <1>7, <1>8, <1>9, <1>10,
     <1>12, <1>13, MutexIsReleased, RolesAreKept, Invariance, PTL DEF Spec
<1> QED
  BY <1>11 DEF EveryTickCollects

=============================================================================
