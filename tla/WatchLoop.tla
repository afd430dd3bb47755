------------------------------ MODULE WatchLoop ------------------------------
(***************************************************************************)
(* The watch harness of scripts/gb10/harness: watch.sh runs run_checks.sh  *)
(* cycle after cycle, compares its report with the one before (trend.py),  *)
(* records a row of history and prunes old reports.  An operator may run   *)
(* run_checks.sh by hand beside it, stop the watcher by a signal and start *)
(* another.  The watcher may also be killed outright (the machine is short *)
(* of memory): its children live on, and the lock they inherited with them.*)
(*                                                                         *)
(* A report maps checks to statuses and is named by the second its suite   *)
(* began in.  The checks of a suite, run one after the other, stand here   *)
(* as one process; a check that ran out of time counts as a FAIL.          *)
(* The length of a nap, the rotation of logs and history, STATUS.md and    *)
(* the hook are left out; pruning is one step.                             *)
(***************************************************************************)
EXTENDS Integers, Sequences, FiniteSets, FiniteSetsExt

CONSTANTS
  Checks,      \* the checks that are followed
  Keep,        \* --keep
  MaxStarts,   \* bound: watchers started
  MaxCycles,   \* bound: cycles of all of them
  MaxEvents,   \* bound: suites by hand, signals, kills, shortages of memory
  MaxClock,    \* bound: the time, in seconds
  Outcomes,    \* the statuses checks end with here
  NONE         \* no report, no status

Status == {"PASS", "FAIL", "BLOCKED", "SKIP"}

ASSUME NoneAssumption == NONE \notin Nat \cup Status
ASSUME OutcomesAssumption == Outcomes \subseteq Status
ASSUME KeepAssumption == Keep \in Nat \ {0}
ASSUME BoundsAssumption ==
  MaxClock \in Nat \ {0} /\ {MaxStarts, MaxCycles, MaxEvents} \subseteq Nat

VARIABLES
  clock,        \* the time, as last read
  watcher,      \* the watching shell: where it is and its variables
  signal,       \* a signal sent and not yet trapped
  suite,        \* run_checks.sh: each watcher's last one and (0) the one by hand
  checking,     \* the suites whose check process is alive
  sleeper,      \* the sleep of a nap is alive
  reports,      \* the report files
  latest,       \* the target of latest.json
  rows,         \* the history, and with each row what trend.py judged
  used,         \* bound: suites by hand, signals, kills and shortages so far
  written,      \* history: the stamps a report was ever written under
  overwritten   \* history: the stamps that were written again

files == <<reports, latest, rows>>
ghosts == <<written, overwritten>>
watchVars == <<clock, watcher, signal, suite, checking, sleeper, files, used, ghosts>>

Gens == 1..MaxStarts
Hand == 0
Stamps == 1..MaxClock
Report == UNION {[S -> Status] : S \in SUBSET Checks}
NoReport == [c \in {} |-> "PASS"]

Judged == {"ok", "failing", "regression"}
Trend == [exit : 0..2, current : Stamps \cup {NONE}, result : Report, regressions : SUBSET Checks]
NoTrend == [exit |-> 2, current |-> NONE, result |-> NoReport, regressions |-> {}]
Row == [status : Judged \cup {"skipped", "aborted", "collision"}, gen : Gens,
        report : Stamps \cup {NONE}, trend : Trend]

WatchTypeOK ==
  /\ clock \in Stamps
  /\ watcher \in [pc : {"off", "top", "cycle", "spawned", "wait", "reaped", "space", "trend",
                        "append", "prune", "after", "dozing", "nap"},
                  gen : 0..MaxStarts, running : BOOLEAN, left : 0..MaxCycles, spare : 0..MaxCycles,
                  last : Stamps \cup {NONE}, trend : Trend]
  /\ signal \in BOOLEAN
  /\ suite \in [Gens \cup {Hand} ->
                 [pc : {"none", "guard", "checks", "write", "link", "done", "killed"},
                  stamp : Stamps \cup {NONE}, result : Report, exit : {0, 1, 3}]]
  /\ checking \subseteq Gens \cup {Hand}
  /\ sleeper \in BOOLEAN
  /\ reports \in UNION {[S -> Report] : S \in SUBSET Stamps}
  /\ latest \in Stamps \cup {NONE}
  /\ rows \in Seq(Row)
  /\ used \in [{"manual", "signal", "kill", "shortage"} -> 0..MaxEvents]
  /\ written \subseteq Stamps /\ overwritten \subseteq written

Events == used.manual + used.signal + used.kill + used.shortage
Happens(event) == Events < MaxEvents /\ used' = [used EXCEPT ![event] = @ + 1]

IdleSuite == [pc |-> "none", stamp |-> NONE, result |-> NoReport, exit |-> 0]

WatchInit ==
  /\ clock = 1
  /\ watcher = [pc |-> "off", gen |-> 0, running |-> TRUE, left |-> 0, spare |-> MaxCycles,
                last |-> NONE, trend |-> NoTrend]
  /\ signal = FALSE
  /\ suite = [g \in Gens \cup {Hand} |-> IdleSuite]
  /\ checking = {} /\ sleeper = FALSE
  /\ reports = [s \in {} |-> NoReport] /\ latest = NONE /\ rows = <<>>
  /\ used = [manual |-> 0, signal |-> 0, kill |-> 0, shortage |-> 0]
  /\ written = {} /\ overwritten = {}

-----------------------------------------------------------------------------
(* run_checks.sh, of a watcher or by hand.                                   *)

Alive(g) == suite[g].pc \in {"guard", "checks", "write", "link"}
SuiteGoes(g, label) == suite' = [suite EXCEPT ![g].pc = label]
SuiteOver(g, label, exit) ==
  suite' = [suite EXCEPT ![g] = [IdleSuite EXCEPT !.pc = label, !.exit = exit]]

StartByHand ==
  /\ ~Alive(Hand) /\ Happens("manual")
  /\ suite' = [suite EXCEPT ![Hand] = [IdleSuite EXCEPT !.pc = "guard"]]
  /\ UNCHANGED <<clock, watcher, signal, checking, sleeper, files, ghosts>>

(* Too little memory: no report.                                             *)
Refuse(g) ==
  /\ suite[g].pc = "guard" /\ Happens("shortage")
  /\ SuiteOver(g, "done", 3)
  /\ UNCHANGED <<clock, watcher, signal, checking, sleeper, files, ghosts>>

(* Time is only looked at here: it has gone on since the stamp before, or it *)
(* is the same second still.                                                 *)
Stamp(g) ==
  /\ suite[g].pc = "guard"
  /\ clock' \in {clock, clock + 1} \cap Stamps
  /\ suite' = [suite EXCEPT ![g].pc = "checks", ![g].stamp = clock']
  /\ checking' = checking \cup {g}
  /\ UNCHANGED <<watcher, signal, sleeper, files, used, ghosts>>

(* The checks come to their end, by `timeout` at the latest, whether their   *)
(* suite still waits for them or not.  By hand, some of them may be selected.*)
ChecksEnd(g) ==
  /\ g \in checking
  /\ checking' = checking \ {g}
  /\ IF suite[g].pc = "checks"
     THEN \E S \in (IF g = Hand THEN SUBSET Checks ELSE {Checks}) :
          \E result \in [S -> Outcomes] :
            suite' = [suite EXCEPT ![g].pc = "write", ![g].result = result,
                        ![g].exit = IF \E c \in S : result[c] = "FAIL" THEN 1 ELSE 0]
     ELSE UNCHANGED suite
  /\ UNCHANGED <<clock, watcher, signal, sleeper, files, used, ghosts>>

WriteReport(g) ==
  LET s == suite[g].stamp IN
  /\ suite[g].pc = "write"
  /\ reports' = [t \in DOMAIN reports \cup {s} |-> IF t = s THEN suite[g].result ELSE reports[t]]
  /\ written' = written \cup {s}
  /\ overwritten' = overwritten \cup (written \cap {s})
  /\ SuiteGoes(g, "link")
  /\ UNCHANGED <<clock, watcher, signal, checking, sleeper, latest, rows, used>>

LinkLatest(g) ==
  /\ suite[g].pc = "link"
  /\ latest' = suite[g].stamp
  /\ SuiteOver(g, "done", suite[g].exit)
  /\ UNCHANGED <<clock, watcher, signal, checking, sleeper, reports, rows, used, ghosts>>

SuiteStep(g) == Refuse(g) \/ Stamp(g) \/ ChecksEnd(g) \/ WriteReport(g) \/ LinkLatest(g)

-----------------------------------------------------------------------------
(* trend.py                                                                  *)

Category(previous, current) ==
  CASE previous = NONE /\ current = "PASS"     -> "NEW PASS"
    [] previous = NONE /\ current # "PASS"     -> "NEW CHECK"
    [] previous # NONE /\ current = NONE       -> "REMOVED"
    [] previous = "PASS" /\ current # "PASS"   -> "REGRESSION"
    [] previous # "PASS" /\ current = "PASS"   -> "NEW PASS"
    [] previous = "FAIL" /\ current = "FAIL"   -> "STILL FAILING"
    [] previous \in {"BLOCKED", "SKIP"} /\ current = "FAIL" -> "NEW FAIL"
    [] previous = "BLOCKED" /\ current = "BLOCKED" -> "STILL BLOCKED"
    [] OTHER                                   -> "UNCHANGED"

LatestStamp == IF latest \in DOMAIN reports THEN latest ELSE NONE
StatusIn(result, c) == IF c \in DOMAIN result THEN result[c] ELSE NONE

Regressions(previous, current) ==
  {c \in Checks : LET p == StatusIn(previous, c) q == StatusIn(current, c) IN
     ~(p = NONE /\ q = NONE) /\ Category(p, q) = "REGRESSION"}

(* The report of latest.json against the one whose name comes before it.     *)
Comparison ==
  LET current == IF LatestStamp # NONE THEN latest
                 ELSE IF DOMAIN reports = {} THEN NONE ELSE Max(DOMAIN reports)
      earlier == {s \in DOMAIN reports : current # NONE /\ s < current}
      found   == IF earlier = {} THEN {} ELSE Regressions(reports[Max(earlier)], reports[current])
  IN  [exit        |-> IF earlier = {} THEN 2 ELSE IF found # {} THEN 1 ELSE 0,
       current     |-> current,
       result      |-> IF current = NONE THEN NoReport ELSE reports[current],
       regressions |-> found]

-----------------------------------------------------------------------------
(* watch.sh                                                                  *)

Goes(label) == watcher' = [watcher EXCEPT !.pc = label]
OnlyWatcher == UNCHANGED <<clock, signal, suite, checking, sleeper, files, used, ghosts>>

(* Mutant: the children close the lock's descriptor.                         *)
LockHeldByShell == watcher.pc # "off"

(* The lock belongs to the descriptor: it is held until the last process     *)
(* that inherited it is gone.                                                *)
LockHeld ==
  watcher.pc # "off" \/ sleeper \/ \E g \in Gens : Alive(g) \/ g \in checking

StartWatcher ==
  /\ watcher.pc = "off" /\ watcher.gen < MaxStarts /\ ~LockHeld
  /\ \E iterations \in 1..watcher.spare :
       watcher' = [pc |-> "top", gen |-> watcher.gen + 1, running |-> TRUE,
                   left |-> iterations, spare |-> watcher.spare - iterations,
                   last |-> NONE, trend |-> NoTrend]
  /\ OnlyWatcher

NextCycle ==
  /\ watcher.pc = "top" /\ watcher.running
  /\ watcher' = [watcher EXCEPT !.pc = "cycle", !.left = @ - 1]
  /\ OnlyWatcher

(* append_history: the row names whatever latest.json links to by now.       *)
Record(status, trend) ==
  rows' = Append(rows, [status |-> status, gen |-> watcher.gen, report |-> LatestStamp,
                        trend |-> trend])

SkipCycle ==
  /\ watcher.pc = "cycle" /\ Happens("shortage")
  /\ Record("skipped", NoTrend)
  /\ Goes("after")
  /\ UNCHANGED <<clock, signal, suite, checking, sleeper, reports, latest, ghosts>>

Spawn ==
  /\ watcher.pc = "cycle"
  /\ suite' = [suite EXCEPT ![watcher.gen] = [IdleSuite EXCEPT !.pc = "guard"]]
  /\ Goes("spawned")
  /\ UNCHANGED <<clock, signal, checking, sleeper, files, used, ghosts>>

(* CHILD_PID=$!                                                              *)
NoteChild == watcher.pc = "spawned" /\ Goes("wait") /\ OnlyWatcher

Reap == watcher.pc = "wait" /\ ~Alive(watcher.gen) /\ Goes("reaped") /\ OnlyWatcher

SuiteExit == suite[watcher.gen].exit
Collided == LatestStamp # NONE /\ LatestStamp = watcher.last

PartialCycle == watcher.pc = "reaped" /\ ~watcher.running /\ Goes("after") /\ OnlyWatcher

RecordAbort ==
  /\ watcher.pc = "reaped" /\ watcher.running /\ SuiteExit = 3
  /\ Record("aborted", NoTrend)
  /\ Goes("after")
  /\ UNCHANGED <<clock, signal, suite, checking, sleeper, reports, latest, used, ghosts>>

RecordCollision ==
  /\ watcher.pc = "reaped" /\ watcher.running /\ SuiteExit # 3 /\ Collided
  /\ Record("collision", NoTrend)
  /\ Goes("space")
  /\ UNCHANGED <<clock, signal, suite, checking, sleeper, reports, latest, used, ghosts>>

(* sleep 2                                                                   *)
Space ==
  /\ watcher.pc = "space"
  /\ clock' = IF clock < MaxClock THEN clock + 1 ELSE clock
  /\ Goes("after")
  /\ UNCHANGED <<signal, suite, checking, sleeper, files, used, ghosts>>

(* Mutant: a report that overwrote the last one is compared like any other.  *)
AcceptAnyStamp ==
  /\ watcher.pc = "reaped" /\ watcher.running /\ SuiteExit # 3
  /\ watcher' = [watcher EXCEPT !.pc = "trend", !.last = LatestStamp]
  /\ OnlyWatcher

AcceptStamp ==
  /\ watcher.pc = "reaped" /\ watcher.running /\ SuiteExit # 3 /\ ~Collided
  /\ watcher' = [watcher EXCEPT !.pc = "trend", !.last = LatestStamp]
  /\ OnlyWatcher

Compare ==
  /\ watcher.pc = "trend"
  /\ watcher' = [watcher EXCEPT !.pc = "append", !.trend = Comparison]
  /\ OnlyWatcher

RecordCycle ==
  LET trend == watcher.trend IN
  /\ watcher.pc = "append"
  /\ Record(CASE trend.exit = 1 -> "regression"
              [] trend.exit # 1 /\ SuiteExit # 0 -> "failing"
              [] OTHER -> "ok", trend)
  /\ watcher' = [watcher EXCEPT !.pc = "prune", !.trend = NoTrend]
  /\ UNCHANGED <<clock, signal, suite, checking, sleeper, reports, latest, used, ghosts>>

OldReports ==
  {s \in DOMAIN reports :
     s # latest /\ Cardinality({t \in DOMAIN reports : t > s}) >= Keep}

Prune ==
  /\ watcher.pc = "prune"
  /\ reports' = [s \in DOMAIN reports \ OldReports |-> reports[s]]
  /\ Goes("after")
  /\ UNCHANGED <<clock, signal, suite, checking, sleeper, latest, rows, used, ghosts>>

LastCycle == watcher.left = 0

(* Mutant: only --iterations ends the loop.                                  *)
StopDeaf ==
  /\ watcher.pc = "after" /\ LastCycle
  /\ Goes("off") /\ signal' = FALSE
  /\ UNCHANGED <<clock, suite, checking, sleeper, files, used, ghosts>>

(* The loop is left after a cycle, or at its head after a nap; what is still *)
(* pending is lost with the process.                                         *)
Stop ==
  /\ \/ watcher.pc = "after" /\ (~watcher.running \/ LastCycle)
     \/ watcher.pc = "top" /\ ~watcher.running
  /\ Goes("off") /\ signal' = FALSE
  /\ UNCHANGED <<clock, suite, checking, sleeper, files, used, ghosts>>

(* Between the look at RUNNING and SLEEP_PID=$! a signal stops no nap.       *)
StartSleep ==
  /\ watcher.pc = "after" /\ watcher.running /\ ~LastCycle
  /\ sleeper' = TRUE
  /\ Goes("dozing")
  /\ UNCHANGED <<clock, signal, suite, checking, files, used, ghosts>>

(* SLEEP_PID=$!                                                              *)
NoteSleep == watcher.pc = "dozing" /\ Goes("nap") /\ OnlyWatcher

SleepEnds ==
  /\ sleeper
  /\ sleeper' = FALSE
  /\ UNCHANGED <<clock, watcher, signal, suite, checking, files, used, ghosts>>

WakeUp == watcher.pc = "nap" /\ ~sleeper /\ Goes("top") /\ OnlyWatcher

-----------------------------------------------------------------------------
(* Signals.                                                                  *)

Signal ==
  /\ watcher.pc # "off" /\ ~signal /\ Happens("signal")
  /\ signal' = TRUE
  /\ UNCHANGED <<clock, watcher, suite, checking, sleeper, files, ghosts>>

(* Mutant: the suite is left to itself.                                      *)
TrapForgetsChild ==
  /\ signal /\ watcher.pc \notin {"off", "space"}
  /\ signal' = FALSE
  /\ watcher' = [watcher EXCEPT !.running = FALSE, !.pc = IF @ = "wait" THEN "reaped" ELSE @]
  /\ sleeper' = (sleeper /\ watcher.pc # "nap")
  /\ UNCHANGED <<clock, suite, checking, files, used, ghosts>>

(* shutdown(), run between two commands or out of a `wait`: it ends the      *)
(* children whose pids were noted.  The suite's own check survives it.       *)
Trap ==
  /\ signal /\ watcher.pc \notin {"off", "space"}
  /\ signal' = FALSE
  /\ watcher' = [watcher EXCEPT !.running = FALSE, !.pc = IF @ = "wait" THEN "reaped" ELSE @]
  /\ IF watcher.pc = "wait" /\ Alive(watcher.gen)
     THEN SuiteOver(watcher.gen, "killed", 0)
     ELSE UNCHANGED suite
  /\ sleeper' = (sleeper /\ watcher.pc # "nap")
  /\ UNCHANGED <<clock, checking, files, used, ghosts>>

(* SIGKILL, or the kernel out of memory.                                     *)
KillWatcher ==
  /\ watcher.pc # "off" /\ Happens("kill")
  /\ Goes("off") /\ signal' = FALSE
  /\ UNCHANGED <<clock, suite, checking, sleeper, files, ghosts>>

-----------------------------------------------------------------------------
WatcherStep ==
  \/ NextCycle \/ SkipCycle \/ Spawn \/ NoteChild \/ Reap
  \/ PartialCycle \/ RecordAbort \/ RecordCollision \/ Space \/ AcceptStamp
  \/ Compare \/ RecordCycle \/ Prune \/ Stop \/ StartSleep \/ NoteSleep \/ WakeUp

(* Nobody is at work.                                                        *)
Idle == watcher.pc = "off" /\ UNCHANGED watchVars

WatchNext ==
  \/ StartByHand \/ StartWatcher \/ WatcherStep \/ SleepEnds
  \/ \E g \in DOMAIN suite : SuiteStep(g)
  \/ Signal \/ Trap \/ KillWatcher
  \/ Idle

WatchSpec == WatchInit /\ [][WatchNext]_watchVars

(* The shell runs on and traps its signals, a suite's checks are ended by    *)
(* their timeout, and a nap is over some time.                               *)
FairWatchSpec ==
  /\ WatchSpec
  /\ WF_watchVars(WatcherStep) /\ SF_watchVars(Trap) /\ WF_watchVars(SleepEnds)
  /\ \A g \in Gens : WF_watchVars(SuiteStep(g))

-----------------------------------------------------------------------------
(* "one watcher, one run at a time": the suites and checks of two watchers   *)
(* never run beside each other, those of a watcher that was stopped or       *)
(* killed in the middle included.                                            *)
OneRunAtATime ==
  Cardinality({g \in Gens : Alive(g) \/ g \in checking}) <= 1

(* A watcher that was signalled leaves no suite behind: none writes a report *)
(* that nobody records.                                                      *)
SuiteEndsWithWatcher ==
  watcher.pc = "off" /\ used.kill = 0 => \A g \in Gens : ~Alive(g)

(* What may come between two rows and hide a regression from the second: a   *)
(* report nobody recorded; a suite in the same second that nobody recorded,  *)
(* or a collision that has a row of its own; a watcher started anew within   *)
(* that second, since LAST_STAMP is not kept and nothing then tells it that  *)
(* the report is the one already judged; or two suites by hand, the one      *)
(* pruning what the other is then compared with.                             *)
Disturbed(i, j) ==
  LET before == rows[i].trend.current after == rows[j].trend.current IN
  \/ \E s \in written : before < s /\ s < after
  \/ /\ {before, after} \cap overwritten # {}
     /\ Events > 0 \/ \E m \in (i + 1)..(j - 1) : rows[m].status = "collision"
  \/ after <= before /\ (used.manual > 0 \/ rows[i].gen # rows[j].gen)
  \/ used.manual > 1

(* "shout when something that used to PASS stops passing": between two rows  *)
(* of history with nothing disturbing them, across skipped and aborted       *)
(* cycles and restarts of the watcher, no such check goes unreported.        *)
RegressionIsRecorded ==
  \A j \in 1..Len(rows) : \A i \in 1..(j - 1) :
    /\ rows[i].status \in Judged /\ rows[j].status \in Judged
    /\ \A m \in (i + 1)..(j - 1) : rows[m].status \notin Judged
    /\ ~Disturbed(i, j)
    => \A c \in DOMAIN rows[i].trend.result \cap DOMAIN rows[j].trend.result :
         rows[i].trend.result[c] = "PASS" /\ rows[j].trend.result[c] # "PASS" =>
           c \in rows[j].trend.regressions /\ rows[j].status = "regression"

(* "SIGTERM/SIGINT terminate an in-flight run_checks.sh and exit cleanly":   *)
(* a signal ends the watcher, wherever it meets it.                          *)
SignalStops == signal ~> watcher.pc = "off"
=============================================================================
