----------------------------- MODULE Scheduler -----------------------------
(***************************************************************************)
(* One of the proxy's two refresh schedulers (internal/scheduler) and its  *)
(* schedule file: the goroutines that Start leaves behind, the RunNow      *)
(* calls an activation makes (main.go), and the process dying between any  *)
(* two steps.  An activation that finds lineup.json missing, or refreshes  *)
(* are forced, calls RunNow while the loop of an earlier one waits, and    *)
(* two that overlap may both call Start; nothing orders their accesses to  *)
(* the file.                                                               *)
(*                                                                         *)
(* A loop runs with the context its Start was given.  main passes its root *)
(* context, but handleTabloSelectDevice runs the same activation with the  *)
(* request's context, which net/http cancels when the handler returns.     *)
(*                                                                         *)
(* Time is counted in ticks and kept relative: due is how many ticks the   *)
(* file's NextCheck lies ahead, next how many ticks lie before the time a  *)
(* process has in hand (its timer, or the NextCheck it is about to write). *)
(* The clock only goes forward.                                            *)
(***************************************************************************)
EXTENDS Integers

CONSTANTS
    Loops,        \* the Start calls of one process life: more than one when
                  \* activations overlap between the test of
                  \* schedulersStarted and its assignment
    Callers,      \* the activations that call RunNow
    Intervals,    \* values of Scheduler.interval, in ticks; a negative one
                  \* does what zero does
    MaxInterval,  \* the longest of them
    CtxKinds,     \* the contexts an activation may pass on to Start
    TaskSeesCtx,  \* the task fails once its context is cancelled: MakeLineup
                  \* does, CacheGuideData swallows the failure of every fetch
    MaxRestarts   \* bound on the crashes and restarts of a behaviour

ASSUME IntervalAssumption  == MaxInterval \in Nat /\ Intervals \subseteq 0 .. MaxInterval
ASSUME CtxKindsAssumption  == CtxKinds \subseteq {"root", "request"}
ASSUME TaskAssumption      == TaskSeesCtx \in BOOLEAN
ASSUME ProcsAssumption     == Loops \intersect Callers = {}
ASSUME RestartsAssumption  == MaxRestarts \in Nat

VARIABLES
    interval,   \* Scheduler.interval in this process life
    file,       \* the schedule file: "absent", "bad" (does not parse) or "ok"
    due,        \* ticks until its NextCheck, if it is "ok"
    pc,         \* next step of a loop or caller
    ctx,        \* the kind of context a loop runs with
    cancelled,  \* that context is cancelled
    next,       \* ticks until the time it has in hand, if any
    since,      \* history: ticks since the task last succeeded, at most MaxInterval
    spacing,    \* history: the interval that success counts by
    by,         \* history: the process whose task that was
    recorded,   \* history: the file holds that success
    current,    \* history: the file is as the loop last read it
    restarts    \* crashes and restarts so far

schedule == <<file, due>>
context  == <<ctx, cancelled>>
history  == <<since, spacing, by, recorded, current>>
unmoved  == <<since, spacing, by>>
vars     == <<interval, schedule, pc, context, next, history, restarts>>

Procs   == Loops \union Callers
Steps   == {"off", "check", "mark", "marking", "run", "save", "saving", "wait",
            "exited"}
Ticks   == 0 .. MaxInterval
Stopped == {"off", "exited"}

Init ==
    /\ interval \in Intervals
    /\ file \in {"absent", "bad", "ok"}
    /\ IF file = "ok" THEN due \in Ticks ELSE due = 0
    /\ pc        = [p \in Procs |-> "off"]
    /\ ctx       = [l \in Loops |-> "root"]
    /\ cancelled = [l \in Loops |-> FALSE]
    /\ next      = [p \in Procs |-> 0]
    /\ since     = 0 /\ spacing = 0
    /\ by        = "nobody"
    /\ recorded  = FALSE
    /\ current   = [l \in Loops |-> FALSE]
    /\ restarts  = 0

Goto(p, step) == pc' = [pc EXCEPT ![p] = step]

-----------------------------------------------------------------------------
(* Activations: RunNow when the file they need is missing or a refresh is  *)
(* forced, then Start unless an earlier one has.                           *)

Start(l) ==
    /\ pc[l] = "off"
    /\ \E kind \in CtxKinds : ctx' = [ctx EXCEPT ![l] = kind]
    /\ Goto(l, "check")
    /\ UNCHANGED <<interval, schedule, cancelled, next, history, restarts>>

CallRunNow(c) ==
    /\ pc[c] = "off"
    /\ Goto(c, "run")
    /\ UNCHANGED <<interval, schedule, context, next, history, restarts>>

(* The request whose context l runs with is over.  (A caller's context can *)
(* only make its task fail, which it may do anyhow.)                       *)
RequestEnds(l) ==
    /\ pc[l] \notin Stopped
    /\ ctx[l] = "request"
    /\ ~cancelled[l]
    /\ cancelled' = [cancelled EXCEPT ![l] = TRUE]
    /\ UNCHANGED <<interval, schedule, pc, ctx, next, history, restarts>>

-----------------------------------------------------------------------------
(* RunNow: the task, then the next time, then the file.                    *)

TaskOk(p) ==
    /\ pc[p] = "run"
    /\ p \in Loops /\ cancelled[p] => ~TaskSeesCtx
    /\ next'     = [next EXCEPT ![p] = interval]
    /\ since'    = 0 /\ spacing' = interval /\ by' = p
    /\ recorded' = FALSE
    /\ Goto(p, "save")
    /\ UNCHANGED <<interval, schedule, context, current, restarts>>

FailureEndsLoop(p) ==  \* mutant: return instead of another round
    /\ pc[p] = "run"
    /\ Goto(p, IF p \in Loops THEN "exited" ELSE "off")
    /\ UNCHANGED <<interval, schedule, next, context, history, restarts>>

(* The loop goes round at once, a caller gives up: nothing is written.     *)
TaskFails(p) ==
    /\ pc[p] = "run"
    /\ Goto(p, IF p \in Loops THEN "check" ELSE "off")
    /\ UNCHANGED <<interval, schedule, next, context, history, restarts>>

(* Where a process goes once save has returned, with or without an error.  *)
AfterSave(p) ==
    IF pc[p] \in {"mark", "marking"} THEN "run"
    ELSE IF p \in Loops THEN "check" ELSE "off"

(* The file is no longer what any loop has read.                           *)
Changes(text, time) ==
    /\ file'    = text
    /\ due'     = time
    /\ current' = [l \in Loops |-> FALSE]

(* storage.WriteFile truncates the file first, if it can open it ...       *)
SaveBegin(p) ==
    /\ pc[p] \in {"save", "mark"}
    /\ \/ /\ Changes("bad", 0)
          /\ recorded' = FALSE
          /\ Goto(p, IF pc[p] = "save" THEN "saving" ELSE "marking")
          /\ UNCHANGED next
       \/ /\ next' = [next EXCEPT ![p] = 0]
          /\ Goto(p, AfterSave(p))
          /\ UNCHANGED <<schedule, recorded, current>>
    /\ UNCHANGED <<interval, context, unmoved, restarts>>

SaveEndAddsAgain(p) ==  \* mutant: save adds the interval RunNow has added
    /\ pc[p] \in {"saving", "marking"}
    /\ Changes("ok", next[p] + interval)
    /\ next' = [next EXCEPT ![p] = 0]
    /\ recorded' = (pc[p] = "saving" /\ by = p)
    /\ Goto(p, AfterSave(p))
    /\ UNCHANGED <<interval, context, unmoved, restarts>>

(* ... and writes it then.  The write may fail; and over the text of a     *)
(* writer that came in between it may leave a mixture.                     *)
SaveEnd(p) ==
    /\ pc[p] \in {"saving", "marking"}
    /\ \/ /\ Changes("ok", next[p])
          /\ recorded' = (pc[p] = "saving" /\ by = p)
       \/ /\ Changes("bad", 0)
          /\ recorded' = FALSE
    /\ next' = [next EXCEPT ![p] = 0]
    /\ Goto(p, AfterSave(p))
    /\ UNCHANGED <<interval, context, unmoved, restarts>>

-----------------------------------------------------------------------------
(* The goroutine of Start.                                                 *)

CheckRunsEarly(l) ==  \* mutant: off by one in the comparison of the delay
    /\ pc[l] = "check" /\ file = "ok"
    /\ next'    = [next EXCEPT ![l] = due]
    /\ current' = [current EXCEPT ![l] = TRUE]
    /\ Goto(l, IF due <= 1 THEN "run" ELSE "wait")
    /\ UNCHANGED <<interval, schedule, context, unmoved, recorded, restarts>>

(* nextCheck finds a time; one that has come is not waited for.            *)
Check(l) ==
    /\ pc[l] = "check" /\ file = "ok"
    /\ next'    = [next EXCEPT ![l] = due]
    /\ current' = [current EXCEPT ![l] = TRUE]
    /\ Goto(l, IF due = 0 THEN "run" ELSE "wait")
    /\ UNCHANGED <<interval, schedule, context, unmoved, recorded, restarts>>

(* nextCheck finds none: the file is not there, does not parse, or cannot  *)
(* be read although nothing is wrong with it.  It is first, best effort,   *)
(* replaced by one that is due now.                                        *)
CheckFails(l) ==
    /\ pc[l] = "check"
    /\ next' = [next EXCEPT ![l] = 0]
    /\ Goto(l, "mark")
    /\ UNCHANGED <<interval, schedule, context, history, restarts>>

TimerFires(l) ==
    /\ pc[l] = "wait"
    /\ next[l] = 0
    /\ Goto(l, "run")
    /\ UNCHANGED <<interval, schedule, next, context, history, restarts>>

(* The only place where the loop looks at its context.                     *)
CtxDone(l) ==
    /\ pc[l] = "wait"
    /\ cancelled[l]
    /\ next' = [next EXCEPT ![l] = 0]
    /\ Goto(l, "exited")
    /\ UNCHANGED <<interval, schedule, context, history, restarts>>

-----------------------------------------------------------------------------
(* A time that has come stays due: the code asks only for delay <= 0.      *)
Less(n) == IF n > 0 THEN n - 1 ELSE 0

Tick ==
    /\ due'   = Less(due)
    /\ next'  = [p \in Procs |-> Less(next[p])]
    /\ since' = IF since < MaxInterval THEN since + 1 ELSE since
    /\ UNCHANGED <<interval, file, pc, context, spacing, by, recorded, current,
                   restarts>>

(* The process dies, of a signal or otherwise, and is started again: New   *)
(* takes the interval the configuration has by then.                       *)
Restart ==
    /\ restarts < MaxRestarts
    /\ restarts'  = restarts + 1
    /\ interval' \in Intervals
    /\ pc'        = [p \in Procs |-> "off"]
    /\ ctx'       = [l \in Loops |-> "root"]
    /\ cancelled' = [l \in Loops |-> FALSE]
    /\ next'      = [p \in Procs |-> 0]
    /\ current'   = [l \in Loops |-> FALSE]
    /\ UNCHANGED <<schedule, unmoved, recorded>>

RunNow(p) == TaskOk(p) \/ TaskFails(p) \/ SaveBegin(p) \/ SaveEnd(p)

LoopStep(l) ==
    RunNow(l) \/ Check(l) \/ CheckFails(l) \/ TimerFires(l) \/ CtxDone(l)

Next ==
    \/ \E l \in Loops : Start(l) \/ LoopStep(l) \/ RequestEnds(l)
    \/ \E c \in Callers : CallRunNow(c) \/ RunNow(c)
    \/ Tick \/ Restart

Spec == Init /\ [][Next]_vars

(* Some activation calls Start; a goroutine that can run does; time        *)
(* passes; and a task that is tried for ever with a live context succeeds  *)
(* in the end (the cloud service is not down for good).                    *)
Fairness ==
    /\ \A l \in Loops : WF_vars(Start(l)) /\ WF_vars(LoopStep(l)) /\ SF_vars(TaskOk(l))
    /\ WF_vars(Tick)

FairSpec == Spec /\ Fairness

-----------------------------------------------------------------------------
TypeOK ==
    /\ interval  \in Intervals
    /\ file      \in {"absent", "bad", "ok"}
    /\ due       \in Ticks
    /\ pc        \in [Procs -> Steps]
    /\ ctx       \in [Loops -> {"root", "request"}]
    /\ cancelled \in [Loops -> BOOLEAN]
    /\ next      \in [Procs -> Ticks]
    /\ since     \in Ticks
    /\ spacing   \in Ticks
    /\ by        \in Procs \union {"nobody"}
    /\ recorded  \in BOOLEAN
    /\ current   \in [Loops -> BOOLEAN]
    /\ restarts  \in 0 .. MaxRestarts

(* A refresh that the file records, whoever made it, is not repeated until *)
(* the interval it was recorded with has passed: not by a loop that reads  *)
(* the file, and not by a timer while the file is as its loop read it;     *)
(* whatever tasks and saves failed in between, through restarts with other *)
(* intervals, and beside other loops and activations.  Two repetitions it  *)
(* leaves out are what the code does: a loop whose timer was set before    *)
(* another process refreshed refreshes once more when it fires, without    *)
(* looking at the file; and one that cannot read the file refreshes at     *)
(* once.                                                                   *)
RefreshSpaced ==
    [][\A l \in Loops :
         /\ recorded /\ pc'[l] = "run"
         /\ pc[l] = "check" \/ (pc[l] = "wait" /\ current[l])
         => since >= spacing]_vars

(* The purpose of Start ("lineup update interval in days",                 *)
(* internal/config/config.go:99): the task goes on being refreshed.        *)
RefreshForever == []<><<\E l \in Loops : TaskOk(l)>>_vars

(* It does for a loop that runs with the root context, whatever attempts   *)
(* and saves fail in between: no error path ends the goroutine or leaves   *)
(* it waiting for a time that never comes.                                 *)
RootLoopRefreshes ==
    \A l \in Loops :
        <>[](pc[l] # "off" /\ ctx[l] = "root") => []<><<TaskOk(l)>>_vars
=============================================================================
