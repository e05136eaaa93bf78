-------------------------------- MODULE Pool ---------------------------------
(***************************************************************************)
(* The thread pool of pool.c: one pool of Num slots (struct task), the     *)
(* thread that controls it, and the threads it starts.  Task number i is   *)
(* the i-th thread started together with its task_info.  The controller    *)
(* runs pool_start, pool_join, pool_detach, pool_kill (with task NULL, as  *)
(* their callers in this repository do), task_suspend, task_resume,        *)
(* task_cancel, pool_clear and pool_destroy; a task runs task_step,        *)
(* pool_exit, or returns, from thread_create on: pool_start goes on        *)
(* storing into the slot and the info while its thread runs.  One step is  *)
(* one access to shared memory that the other side can tell apart.         *)
(***************************************************************************)
EXTENDS Integers, Sequences, SequencesExt, FiniteSets

CONSTANTS Num,              \* the argument of pool_init
          MaxStarts,        \* bound on the number of pool_start calls
          TASKINFO_MAX,     \* infos kept in taskinfo before pool_clear acts
          Controls          \* what the controller does besides pool_start

ASSUME PoolAssumption ==
    /\ Num \in Nat \ {0} /\ MaxStarts \in Nat /\ TASKINFO_MAX \in Nat
    /\ Controls \subseteq {"join", "detach", "kill", "suspend", "resume",
                           "cancel", "destroy"}

Slots == 1..Num
Tasks == 1..MaxStarts
Final == {"CANCEL", "FAILURE", "SUCCESS"}

VARIABLES slot,         \* p->t, with the thread and info numbers
          info,         \* the state of each task_info, "freed" after lib_free
          taskinfo,     \* p->taskinfo
          ti,           \* <<p->ti1, p->ti2>>
          started,      \* pool_start calls so far
          mpc, cur,     \* the controller: where it is and at which slot
          src,          \* which of ti1, ti2 pool_clear drains
          w,            \* where each task is
          code,         \* how it ends: pool_exit's argument, or "return" when
                        \* it just returns or is killed
          killed,       \* tasks with a pending pthread_cancel
          reaped,       \* tasks whose slot was given back
          asked,        \* whether task_cancel was called for each task, and
                        \* whether task_suspend was called after it
          late,         \* tasks suspended or resumed after they ended
          prev,         \* history: the last task of the slot each task got, or 0
          misled,       \* history: tasks that looked at `cancel' before
                        \* pool_start reset it
          hasty         \* history: tasks whose pool_exit came before pool_start
                        \* was over

vars == <<slot, info, taskinfo, ti, started, mpc, cur, src, w, code, killed,
          reaped, asked, late, prev, misled, hasty>>

Slot == [exist: BOOLEAN, quit: BOOLEAN, cancel: BOOLEAN, pause: BOOLEAN,
         detach: BOOLEAN, task: 0..MaxStarts]

TypeOK ==
    /\ slot \in [Slots -> Slot]
    /\ info \in [Tasks -> Final \cup {"RUNNING", "PAUSE", "freed"}]
    /\ taskinfo \in Seq(Tasks) /\ ti \in [{1, 2} -> Seq(Tasks)]
    /\ started \in 0..MaxStarts
    /\ mpc \in {"idle", "exist", "flags", "put", "running", "clear", "clear_ti",
                "clear_taskinfo", "join", "detach", "kill", "destroyed"}
    /\ cur \in 1..(Num + 1) /\ src \in {1, 2}
    /\ w \in [Tasks -> {"none", "run", "pause", "cancel", "exit", "state",
                        "quit", "gone", "ended"}]
    /\ code \in [Tasks -> Final \cup {"none", "return"}]
    /\ killed \subseteq Tasks /\ reaped \subseteq Tasks
    /\ asked \in [Tasks -> {"no", "cancelled", "suspended"}]
    /\ late \subseteq Tasks /\ misled \subseteq Tasks /\ hasty \subseteq Tasks
    /\ prev \in [Tasks -> 0..MaxStarts]

(* pool_init.                                                              *)
Init ==
    /\ slot = [s \in Slots |-> [exist |-> FALSE, quit |-> FALSE, cancel |-> FALSE,
                                pause |-> FALSE, detach |-> FALSE, task |-> 0]]
    /\ info = [i \in Tasks |-> "freed"]
    /\ taskinfo = <<>> /\ ti = <<<<>>, <<>>>>
    /\ started = 0
    /\ mpc = "idle" /\ cur = 1 /\ src = 1
    /\ w = [i \in Tasks |-> "none"]
    /\ code = [i \in Tasks |-> "none"]
    /\ killed = {} /\ reaped = {} /\ late = {}
    /\ asked = [i \in Tasks |-> "no"]
    /\ prev = [i \in Tasks |-> 0] /\ misled = {} /\ hasty = {}

early == <<prev, misled, hasty>>
tasks == <<w, code, killed, asked, late, early>>
infos == <<taskinfo, ti, src>>

-----------------------------------------------------------------------------
(* pool_start                                                              *)

FreeSlots == {s \in Slots : ~slot[s].exist}

pool_find == CHOOSE s \in FreeSlots : \A u \in FreeSlots : s <= u

(* lib_calloc of the info and thread_create: from here on the thread runs. *)
pool_start_create ==
    /\ mpc = "idle" /\ FreeSlots # {} /\ started < MaxStarts
    /\ LET i == started + 1 IN
        /\ slot' = [slot EXCEPT ![pool_find].task = i]
        /\ info' = [info EXCEPT ![i] = "RUNNING"]
        /\ w' = [w EXCEPT ![i] = "run"]
        /\ started' = i
        /\ prev' = [prev EXCEPT ![i] = slot[pool_find].task]
    /\ cur' = pool_find /\ mpc' = "exist"
    /\ UNCHANGED <<infos, code, killed, asked, late, misled, hasty, reaped>>

pool_start_exist ==
    /\ mpc = "exist" /\ mpc' = "flags"
    /\ slot' = [slot EXCEPT ![cur].exist = TRUE]
    /\ UNCHANGED <<info, infos, started, cur, tasks, reaped>>

(* Mutant: the cancel flag of the slot's last task is kept.                *)
pool_start_flags_CancelKept ==
    /\ mpc = "flags" /\ mpc' = "put"
    /\ slot' = [slot EXCEPT ![cur].quit = FALSE, ![cur].pause = FALSE,
                            ![cur].detach = FALSE]
    /\ UNCHANGED <<info, infos, started, cur, tasks, reaped>>

pool_start_flags ==
    /\ mpc = "flags" /\ mpc' = "put"
    /\ slot' = [slot EXCEPT ![cur].quit = FALSE, ![cur].cancel = FALSE,
                            ![cur].pause = FALSE, ![cur].detach = FALSE]
    /\ UNCHANGED <<info, infos, started, cur, tasks, reaped>>
pool_start_put ==
    /\ mpc = "put" /\ mpc' = "running"
    /\ taskinfo' = Append(taskinfo, slot[cur].task)
    /\ UNCHANGED <<slot, info, ti, src, started, cur, tasks, reaped>>

pool_start_running ==
    /\ mpc = "running" /\ mpc' = "clear"
    /\ info' = [info EXCEPT ![slot[cur].task] = "RUNNING"]
    /\ UNCHANGED <<slot, infos, started, cur, tasks, reaped>>

pool_start ==
    \/ pool_start_create \/ pool_start_exist \/ pool_start_flags
    \/ pool_start_put \/ pool_start_running

-----------------------------------------------------------------------------
(* pool_clear, at the end of pool_start                                    *)

pool_clear_begin ==
    /\ mpc = "clear"
    /\ mpc' = IF Len(taskinfo) <= TASKINFO_MAX THEN "idle" ELSE "clear_ti"
    /\ src' = IF ti[2] = <<>> THEN 1 ELSE 2
    /\ UNCHANGED <<slot, info, taskinfo, ti, started, cur, tasks, reaped>>

(* A finished info is freed, any other one moves to the other queue.       *)
Finished(i) == info[i] \in {"FAILURE", "SUCCESS"}
(* Mutant: an info that is not finished is not put back.                   *)
pool_clear_ti_Lost ==
    /\ mpc = "clear_ti" /\ ti[src] # <<>>
    /\ LET i == Head(ti[src]) IN
        info' = IF Finished(i) THEN [info EXCEPT ![i] = "freed"] ELSE info
    /\ ti' = [ti EXCEPT ![src] = Tail(@)]
    /\ UNCHANGED <<slot, taskinfo, src, started, mpc, cur, tasks, reaped>>

pool_clear_ti ==
    /\ mpc = "clear_ti" /\ ti[src] # <<>>
    /\ LET i == Head(ti[src]) IN
        IF Finished(i)
        THEN /\ info' = [info EXCEPT ![i] = "freed"]
             /\ ti' = [ti EXCEPT ![src] = Tail(@)]
        ELSE /\ ti' = [ti EXCEPT ![src] = Tail(@), ![3 - src] = Append(@, i)]
             /\ UNCHANGED info
    /\ UNCHANGED <<slot, taskinfo, src, started, mpc, cur, tasks, reaped>>

pool_clear_taskinfo ==
    /\ mpc = "clear_taskinfo" /\ Len(taskinfo) > TASKINFO_MAX
    /\ LET i == Head(taskinfo) IN
        IF Finished(i)
        THEN info' = [info EXCEPT ![i] = "freed"] /\ UNCHANGED ti
        ELSE ti' = [ti EXCEPT ![3 - src] = Append(@, i)] /\ UNCHANGED info
    /\ taskinfo' = Tail(taskinfo)
    /\ UNCHANGED <<slot, src, started, mpc, cur, tasks, reaped>>

pool_clear_end ==
    /\ \/ mpc = "clear_ti" /\ ti[src] = <<>> /\ mpc' = "clear_taskinfo"
       \/ mpc = "clear_taskinfo" /\ Len(taskinfo) <= TASKINFO_MAX /\ mpc' = "idle"
    /\ UNCHANGED <<slot, info, infos, started, cur, tasks, reaped>>

pool_clear ==
    pool_clear_begin \/ pool_clear_ti \/ pool_clear_taskinfo \/ pool_clear_end

-----------------------------------------------------------------------------
(* pool_func(p, NULL, f): pool_join, pool_detach and pool_kill over every  *)
(* slot that exists, then task_suspend, task_resume and task_cancel.       *)
(* A pool with detached threads is not joined: pthread_join of a detached  *)
(* thread is undefined, and no caller does it.                             *)

pool_func_begin ==
    /\ mpc = "idle" /\ mpc' \in Controls \cap {"join", "detach", "kill"}
    /\ mpc' = "join" => \A s \in Slots : ~(slot[s].exist /\ slot[s].detach)
    /\ cur' = 1
    /\ UNCHANGED <<slot, info, infos, started, tasks, reaped>>

pool_func_next ==
    /\ mpc \in {"join", "detach", "kill"}
    /\ IF cur > Num THEN mpc' = "idle" /\ cur' = 1
       ELSE ~slot[cur].exist /\ cur' = cur + 1 /\ UNCHANGED mpc
    /\ UNCHANGED <<slot, info, infos, started, tasks, reaped>>
(* Mutants: the thread's own code stored, no wait, no test of quit.        *)
pool_join_OwnCode ==
    /\ mpc = "join" /\ cur <= Num /\ slot[cur].exist
    /\ w[slot[cur].task] = "ended"
    /\ slot' = [slot EXCEPT ![cur].exist = FALSE]
    /\ info' = [info EXCEPT ![slot[cur].task] = code[slot[cur].task]]
    /\ reaped' = reaped \cup {slot[cur].task}
    /\ cur' = cur + 1
    /\ UNCHANGED <<infos, started, mpc, tasks>>

pool_join_NoWait ==
    /\ mpc = "join" /\ cur <= Num /\ slot[cur].exist
    /\ slot' = [slot EXCEPT ![cur].exist = FALSE]
    /\ info' = IF slot[cur].quit THEN info
               ELSE [info EXCEPT ![slot[cur].task] = "SUCCESS"]
    /\ reaped' = reaped \cup {slot[cur].task}
    /\ cur' = cur + 1
    /\ UNCHANGED <<infos, started, mpc, tasks>>

pool_join_Always ==
    /\ mpc = "join" /\ cur <= Num /\ slot[cur].exist
    /\ w[slot[cur].task] = "ended"
    /\ slot' = [slot EXCEPT ![cur].exist = FALSE]
    /\ info' = [info EXCEPT ![slot[cur].task] = "SUCCESS"]
    /\ reaped' = reaped \cup {slot[cur].task}
    /\ cur' = cur + 1
    /\ UNCHANGED <<infos, started, mpc, tasks>>

(* pthread_join waits for the thread.                                      *)
pool_join ==
    /\ mpc = "join" /\ cur <= Num /\ slot[cur].exist
    /\ w[slot[cur].task] = "ended"
    /\ slot' = [slot EXCEPT ![cur].exist = FALSE]
    /\ info' = IF slot[cur].quit THEN info
               ELSE [info EXCEPT ![slot[cur].task] = "SUCCESS"]
    /\ reaped' = reaped \cup {slot[cur].task}
    /\ cur' = cur + 1
    /\ UNCHANGED <<infos, started, mpc, tasks>>
pool_detach ==
    /\ mpc = "detach" /\ cur <= Num /\ slot[cur].exist
    /\ slot' = [slot EXCEPT ![cur].detach = TRUE]
    /\ cur' = cur + 1
    /\ UNCHANGED <<info, infos, started, mpc, tasks, reaped>>

(* thread_kill: pthread_cancel, then spin until the thread is gone.  The   *)
(* cancel is pending from the first round until the thread is gone.        *)
pool_kill ==
    /\ mpc = "kill" /\ cur <= Num /\ slot[cur].exist
    /\ LET i == slot[cur].task IN
        IF w[i] = "ended"
        THEN killed' = killed \ {i} /\ cur' = cur + 1
        ELSE killed' = killed \cup {i} /\ UNCHANGED cur
    /\ UNCHANGED <<slot, info, infos, started, mpc, w, code, asked, late, early, reaped>>

(* The controller uses a handle that pool_start returned.  The flag and    *)
(* the info are two stores; nothing the task does tells their order apart. *)
Handle(s, ctl) == mpc = "idle" /\ ctl \in Controls /\ slot[s].exist

Ended(i) == IF w[i] \in {"quit", "gone", "ended"} THEN {i} ELSE {}

task_suspend(s) ==
    /\ Handle(s, "suspend")
    /\ slot' = [slot EXCEPT ![s].pause = TRUE]
    /\ info' = [info EXCEPT ![slot[s].task] = "PAUSE"]
    /\ asked' = [asked EXCEPT ![slot[s].task] = IF @ = "no" THEN @ ELSE "suspended"]
    /\ late' = late \cup Ended(slot[s].task)
    /\ UNCHANGED <<infos, started, mpc, cur, w, code, killed, early, reaped>>

task_resume(s) ==
    /\ Handle(s, "resume")
    /\ slot' = [slot EXCEPT ![s].pause = FALSE]
    /\ info' = [info EXCEPT ![slot[s].task] = "RUNNING"]
    /\ late' = late \cup Ended(slot[s].task)
    /\ UNCHANGED <<infos, started, mpc, cur, w, code, killed, asked, early, reaped>>
(* Mutant: a suspended task is not resumed.                                *)
task_cancel_StillPaused(s) ==
    /\ Handle(s, "cancel")
    /\ slot' = [slot EXCEPT ![s].cancel = TRUE]
    /\ asked' = [asked EXCEPT ![slot[s].task] = "cancelled"]
    /\ UNCHANGED <<info, infos, started, mpc, cur, w, code, killed, late, early, reaped>>

task_cancel(s) ==
    /\ Handle(s, "cancel")
    /\ slot' = [slot EXCEPT ![s].cancel = TRUE, ![s].pause = FALSE]
    /\ asked' = [asked EXCEPT ![slot[s].task] = "cancelled"]
    /\ UNCHANGED <<info, infos, started, mpc, cur, w, code, killed, late, early, reaped>>

(* pool_destroy frees the infos in the three queues.  Its callers join or  *)
(* kill the pool's threads first (transqueue_close, the tests).            *)
pool_destroy ==
    /\ mpc = "idle" /\ "destroy" \in Controls /\ mpc' = "destroyed"
    /\ \A i \in Tasks : w[i] \in {"none", "ended"}
    /\ info' = [i \in Tasks |-> IF i \in ToSet(taskinfo) \cup ToSet(ti[1]) \cup ToSet(ti[2])
                                THEN "freed" ELSE info[i]]
    /\ taskinfo' = <<>> /\ ti' = <<<<>>, <<>>>>
    /\ UNCHANGED <<slot, src, started, cur, tasks, reaped>>

Control ==
    \/ pool_func_begin \/ pool_destroy
    \/ \E s \in Slots : task_suspend(s) \/ task_resume(s) \/ task_cancel(s)

Controller == \* the steps that go on with a call
    pool_start \/ pool_clear \/ pool_func_next \/ pool_join \/ pool_detach \/ pool_kill

-----------------------------------------------------------------------------
(* The tasks                                                               *)

Starting(i) == mpc \in {"exist", "flags", "put", "running"} /\ slot[cur].task = i

(* pool_task: the slot whose thread is the caller, 0 for NULL.             *)
pool_task(i) ==
    LET mine == {s \in Slots : slot[s].exist /\ slot[s].task = i}
    IN  IF mine = {} \/ mpc = "destroyed" THEN 0 ELSE CHOOSE s \in mine : TRUE

(* The slot a task found before and keeps a pointer to.                    *)
Own(i) == CHOOSE s \in Slots : slot[s].task = i

Move(i, from, to) == w[i] = from /\ w' = [w EXCEPT ![i] = to]

unchangedByTask == <<taskinfo, ti, src, started, mpc, cur, killed, asked, late, prev>>

(* What task i does now, pool_start may do over.                           *)
Hasty(i) == hasty' = IF Starting(i) THEN hasty \cup {i} ELSE hasty

task_step_begin(i) ==
    /\ Move(i, "run", IF pool_task(i) = 0 THEN "run" ELSE "pause")
    /\ UNCHANGED <<slot, info, code, reaped, misled, hasty, unchangedByTask>>

task_step_pause(i) ==
    /\ w[i] = "pause" /\ ~slot[Own(i)].pause
    /\ Move(i, "pause", "cancel")
    /\ UNCHANGED <<slot, info, code, reaped, misled, hasty, unchangedByTask>>

task_step_cancel(i) ==
    /\ w[i] = "cancel"
    /\ LET cancelled == slot[Own(i)].cancel IN
        /\ Move(i, "cancel", IF cancelled THEN "exit" ELSE "run")
        /\ code' = IF cancelled THEN [code EXCEPT ![i] = "CANCEL"] ELSE code
    /\ misled' = IF Starting(i) /\ mpc = "flags" THEN misled \cup {i} ELSE misled
    /\ UNCHANGED <<slot, info, reaped, hasty, unchangedByTask>>

pool_exit_call(i) ==
    /\ Move(i, "run", "exit")
    /\ \E state \in {"FAILURE", "SUCCESS"} : code' = [code EXCEPT ![i] = state]
    /\ UNCHANGED <<slot, info, reaped, misled, hasty, unchangedByTask>>

pool_exit_find(i) ==
    /\ Move(i, "exit", IF pool_task(i) = 0 THEN "ended" ELSE "state")
    /\ IF pool_task(i) = 0 THEN Hasty(i) ELSE UNCHANGED hasty
    /\ UNCHANGED <<slot, info, code, reaped, misled, unchangedByTask>>

pool_exit_state(i) ==
    /\ Move(i, "state", "quit")
    /\ info' = [info EXCEPT ![i] = code[i]]
    /\ Hasty(i)
    /\ UNCHANGED <<slot, code, reaped, misled, unchangedByTask>>
(* Mutant: quit not set.                                                   *)
pool_exit_quit_Lost(i) ==
    /\ Move(i, "quit", "gone")
    /\ UNCHANGED <<slot, info, code, reaped, misled, hasty, unchangedByTask>>

pool_exit_quit(i) ==
    /\ Move(i, "quit", "gone")
    /\ slot' = [slot EXCEPT ![Own(i)].quit = TRUE]
    /\ UNCHANGED <<info, code, reaped, misled, hasty, unchangedByTask>>

pool_exit_gone(i) ==
    /\ w[i] = "gone"
    /\ LET s == Own(i) IN
        /\ Move(i, "gone", "ended")
        /\ slot' = [slot EXCEPT ![s].exist = @ /\ ~slot[s].detach]
        /\ reaped' = IF slot[s].detach THEN reaped \cup {i} ELSE reaped
    /\ UNCHANGED <<info, code, misled, hasty, unchangedByTask>>

pool_exit(i) ==
    \/ pool_exit_call(i) \/ pool_exit_find(i) \/ pool_exit_state(i)
    \/ pool_exit_quit(i) \/ pool_exit_gone(i)

task_step(i) == task_step_begin(i) \/ task_step_pause(i) \/ task_step_cancel(i)

(* The function returns, or the thread reaches a cancellation point.       *)
task_return(i) ==
    /\ Move(i, "run", "ended")
    /\ code' = [code EXCEPT ![i] = "return"]
    /\ UNCHANGED <<slot, info, reaped, misled, hasty, unchangedByTask>>

task_killed(i) ==
    /\ i \in killed
    /\ Move(i, "run", "ended")
    /\ code' = [code EXCEPT ![i] = "return"]
    /\ UNCHANGED <<slot, info, reaped, misled, hasty, unchangedByTask>>

Task(i) == task_step(i) \/ pool_exit(i) \/ task_return(i) \/ task_killed(i)

Next == Controller \/ Control \/ \E i \in Tasks : Task(i)

Spec == Init /\ [][Next]_vars

(* A task that can go on does, and the controller finishes what it began;  *)
(* nobody is obliged to start, stop or control a task.                     *)
FairSpec ==
    /\ Spec
    /\ WF_vars(mpc # "idle" /\ Controller)
    /\ \A i \in Tasks : WF_vars(Task(i))

-----------------------------------------------------------------------------
(* Properties                                                              *)

Live(i) == w[i] \notin {"none", "ended"}

(* The slot of a thread that still runs is not given to another thread, so *)
(* pool_find after pool_join or after a detached exit is safe.             *)
SlotNotStolen == \A i \in Tasks : Live(i) => \E s \in Slots : slot[s].task = i

(* Once its slot is given back, a task's info says how the task ended:     *)
(* what it passed to pool_exit, and SUCCESS if it just returned (pool.h:86 *)
(* and 87), until the info is freed.  A task that exits before the thread  *)
(* that starts it is through with pool_start always loses its state: the   *)
(* info is back at RUNNING (pool.c:92), and pool_join makes it SUCCESS if  *)
(* pool_start wiped `quit', too.  Besides, only a task_suspend or          *)
(* task_resume that came after the end makes it say something else.        *)
ExitStateKept ==
    \A i \in reaped \ late :
        info[i] \in {"freed"} \cup
            (IF i \in hasty THEN IF Starting(i) THEN {code[i], "RUNNING"} ELSE {"RUNNING", "SUCCESS"}
             ELSE {IF code[i] \in Final THEN code[i] ELSE "SUCCESS"})

(* Every info is in one of the queues exactly once until it is freed, and  *)
(* a freed one is in none: pool_clear neither loses nor keeps one twice,   *)
(* so pool_destroy frees each exactly once.                                *)
InfosConserved ==
    LET all == taskinfo \o ti[1] \o ti[2]
        starting == IF mpc \in {"exist", "flags", "put"} THEN {slot[cur].task} ELSE {}
    IN  /\ IsInjective(all)
        /\ ToSet(all) = {i \in 1..started : info[i] # "freed"} \ starting

(* Nobody writes a state into an info that was freed.  pool_clear frees the *)
(* info of a task that called pool_exit and was not joined yet; only the   *)
(* order of pool_exit's two stores and of pool_start's keeps pool_join     *)
(* from writing through the dangling t->info of pool.c:121.                *)
FreedStaysFreed ==
    [][\A i \in 1..started : info[i] = "freed" => info'[i] = "freed"]_vars

(* A task ends as cancelled only if somebody called task_cancel for it, or *)
(* if it looked at its slot before pool_start had reset it and the last    *)
(* task of that slot was the one to cancel: in no other way does what one  *)
(* task left reach another.                                                *)
CancelWasAsked ==
    \A i \in Tasks :
        code[i] = "CANCEL" /\ asked[i] = "no" =>
            i \in misled /\ prev[i] # 0 /\ asked[prev[i]] # "no"

(* A cancelled task ends, unless it is suspended again after the cancel.   *)
CancelEnds == \A i \in Tasks : asked[i] = "cancelled" ~> w[i] = "ended" \/ asked[i] = "suspended"

=============================================================================
