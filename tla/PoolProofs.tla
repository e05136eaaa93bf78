------------------------------ MODULE PoolProofs ------------------------------
(***************************************************************************)
(* For any number of slots and of starts: a thread that runs keeps its     *)
(* slot, a task ends as cancelled only when it was asked to, its exit      *)
(* state is kept, a freed info stays freed, and the others are in one      *)
(* queue each.                                                             *)
(***************************************************************************)
EXTENDS Pool, WellFoundedInduction, TLAPS

(* pool_start is at work, and its slot does not look taken or clean yet.   *)
Starts == {"exist", "flags", "put", "running"}
Stale(s) == mpc \in {"exist", "flags"} /\ cur = s

(* The types of what the properties are about.                             *)
InfoState == Final \cup {"none", "return", "RUNNING", "PAUSE", "freed"}
TaskPlaces == {"none", "run", "pause", "cancel", "exit", "state", "quit", "gone", "ended"}
Codes == Final \cup {"none", "return"}

PoolType ==
    /\ slot \in [Slots -> Slot]
    /\ info \in [Tasks -> InfoState]
    /\ started \in 0..MaxStarts
    /\ cur \in 1..(Num + 1)
    /\ mpc \in {"exist", "flags", "put", "running"} => cur \in Slots
    /\ w \in [Tasks -> TaskPlaces]
    /\ code \in [Tasks -> Codes]
    /\ asked \in [Tasks -> {"no", "cancelled", "suspended"}]
    /\ prev \in [Tasks -> 0..MaxStarts] /\ misled \subseteq Tasks /\ hasty \subseteq Tasks

(* Each thread is in at most one slot, and a running one's slot is taken   *)
(* from the moment pool_start has marked it.                               *)
SlotInv ==
    /\ \A i \in Tasks : i > started => w[i] = "none"
    /\ \A s \in Slots : /\ slot[s].task <= started
                        /\ slot[s].exist => slot[s].task # 0
    /\ \A s, u \in Slots : slot[s].task = slot[u].task /\ slot[s].task # 0 => s = u
    /\ mpc \in Starts => cur \in Slots /\ slot[cur].task # 0
    /\ mpc = "exist" => ~slot[cur].exist
    /\ \A i \in Tasks : Live(i) =>
            \E s \in Slots : /\ slot[s].task = i
                             /\ slot[s].exist \/ (mpc = "exist" /\ cur = s)

(* A cancel flag was set for the task of its slot or, as long as pool_start*)
(* has not reset it, for the last task there.                              *)
CancelInv ==
    /\ \A s \in Slots : slot[s].cancel =>
            /\ slot[s].task # 0
            /\ IF Stale(s)
               THEN prev[slot[s].task] # 0 /\ asked[prev[slot[s].task]] # "no"
               ELSE asked[slot[s].task] # "no"
    /\ \A i \in Tasks : i > started => code[i] = "none"
    /\ mpc = "exist" => w[slot[cur].task] \notin {"pause", "cancel"}
    /\ CancelWasAsked

(* Past pool_exit_state the info has the task's own code, and quit tells   *)
(* pool_join whether the task came that far.                               *)
HasExited(i) == w[i] = "gone" \/ (w[i] = "ended" /\ code[i] \in Final)

(* A task that was not hasty is still to exit when pool_start is over, and *)
(* then its state stays; a hasty one's is gone.                            *)
StateKept(i) ==
    /\ Starting(i) => w[i] # "quit" /\ ~HasExited(i) /\ i \notin reaped
    /\ w[i] = "quit" \/ HasExited(i) => info[i] \in {code[i], "freed"} \/ i \in late
    /\ i \in reaped /\ code[i] \notin Final => info[i] \in {"SUCCESS", "freed"} \/ i \in late

StateLost(i) ==
    /\ w[i] \in {"quit", "gone", "ended"}
    /\ \/ i \in late
       \/ info[i] \in {"freed", "RUNNING", IF Starting(i) THEN code[i] ELSE "SUCCESS"}

ExitOf(i) ==
    /\ w[i] \in {"exit", "state", "quit", "gone"} => code[i] \in Final
    /\ IF i \in hasty THEN StateLost(i) ELSE StateKept(i)

QuitOf(s) ==
    slot[s].exist /\ ~Stale(s) /\ slot[s].task \notin hasty =>
        (slot[s].quit <=> HasExited(slot[s].task))

ReapedOf(i) == w[i] = "ended" /\ \A s \in Slots : slot[s].task = i => ~slot[s].exist

ExitInv ==
    /\ mpc = "exist" => /\ w[slot[cur].task] \in {"run", "exit", "ended"}
                        /\ info[slot[cur].task] = "RUNNING"
                        /\ slot[cur].task \notin reaped
    /\ mpc = "destroyed" => \A i \in Tasks : w[i] \in {"none", "ended"}
    /\ reaped \subseteq Tasks /\ \A i \in reaped : ReapedOf(i)
    /\ \A i \in Tasks : ExitOf(i)
    /\ \A s \in Slots : QuitOf(s)

(* An info is freed, or looks ready for it, only when its task is past     *)
(* pool_exit_state and pool_join will find quit set.                       *)
Ready(i) == info[i] = "freed" \/ Finished(i)

FreedInv ==
    /\ mpc = "destroyed" => \A i \in Tasks : w[i] \in {"none", "ended"}
    /\ mpc \in Starts => info[slot[cur].task] # "freed"
    /\ \A i \in Tasks : w[i] \in {"exit", "state", "quit", "gone"} => code[i] \in Final
    /\ \A i \in 1..started : w[i] # "none"
    /\ \A i \in 1..started : Ready(i) => w[i] \in {"quit", "gone", "ended"}
    /\ \A s \in Slots :
            /\ slot[s].exist /\ mpc # "destroyed" /\ ~(mpc \in Starts /\ cur = s)
            /\ Ready(slot[s].task)
            => slot[s].quit \/ w[slot[s].task] = "quit"

-----------------------------------------------------------------------------
(* pool_find has a lowest free slot to return.                             *)
LEMMA FindFacts ==
    ASSUME FreeSlots # {}, PoolAssumption
    PROVE  pool_find \in Slots /\ ~slot[pool_find].exist
<1> DEFINE Less == {p \in Nat \X Nat : p[1] < p[2]}
<1>1. FreeSlots \subseteq Nat
    BY DEF FreeSlots, Slots, PoolAssumption
<1>2. IsWellFoundedOn(Less, Nat)
    BY NatLessThanWellFounded DEF OpToRel
<1>3. \E s \in FreeSlots : \A u \in FreeSlots : ~(<<u, s>> \in Less)
    BY <1>1, <1>2, WFMin
<1>4. \E s \in FreeSlots : \A u \in FreeSlots : s <= u
    <2>1. PICK s \in FreeSlots : \A u \in FreeSlots : ~(<<u, s>> \in Less)
        BY <1>3
    <2>2. \A u \in FreeSlots : s <= u
        <3> TAKE u \in FreeSlots
        <3>1. s \in Nat /\ u \in Nat
            BY <1>1
        <3>2. <<u, s>> \in Nat \X Nat /\ <<u, s>>[1] = u /\ <<u, s>>[2] = s
            BY <3>1
        <3>3. ~(u < s)
            BY <2>1, <3>2
        <3> QED BY <3>1, <3>3
    <2> QED BY <2>2
<1>5. pool_find \in FreeSlots
    BY <1>4 DEF pool_find
<1> QED BY <1>5 DEF FreeSlots

(* A store into a slot leaves an array of slots.                           *)
LEMMA SlotStores ==
    ASSUME slot \in [Slots -> Slot], NEW s, NEW i \in 0..MaxStarts, NEW b \in BOOLEAN
    PROVE  /\ [slot EXCEPT ![s].task = i] \in [Slots -> Slot]
           /\ [slot EXCEPT ![s].exist = b] \in [Slots -> Slot]
           /\ [slot EXCEPT ![s].detach = b] \in [Slots -> Slot]
           /\ [slot EXCEPT ![s].pause = b] \in [Slots -> Slot]
           /\ [slot EXCEPT ![s].quit = b] \in [Slots -> Slot]
           /\ [slot EXCEPT ![s].cancel = TRUE, ![s].pause = FALSE] \in [Slots -> Slot]
           /\ [slot EXCEPT ![s].quit = FALSE, ![s].cancel = FALSE, ![s].pause = FALSE,
                           ![s].detach = FALSE] \in [Slots -> Slot]
<1>1. [slot EXCEPT ![s].task = i] \in [Slots -> Slot]
    BY DEF Slot
<1>2. [slot EXCEPT ![s].exist = b] \in [Slots -> Slot]
    BY DEF Slot
<1>3. [slot EXCEPT ![s].detach = b] \in [Slots -> Slot]
    BY DEF Slot
<1>4. [slot EXCEPT ![s].pause = b] \in [Slots -> Slot]
    BY DEF Slot
<1>5. [slot EXCEPT ![s].quit = b] \in [Slots -> Slot]
    BY DEF Slot
<1>6. [slot EXCEPT ![s].cancel = TRUE, ![s].pause = FALSE] \in [Slots -> Slot]
    BY DEF Slot
<1>7. [slot EXCEPT ![s].quit = FALSE, ![s].cancel = FALSE, ![s].pause = FALSE,
                     ![s].detach = FALSE] \in [Slots -> Slot]
    BY ZenonT(60) DEF Slot
<1> QED BY <1>1, <1>2, <1>3, <1>4, <1>5, <1>6, <1>7



(* Every step keeps the types.                                             *)
LEMMA TypeStep ==
    ASSUME PoolAssumption, PoolType, [Next]_vars
    PROVE  PoolType'
<1>0. PoolType
    OBVIOUS
<1> USE DEF PoolType, InfoState, TaskPlaces, Codes, Final, early, Hasty
<1>1. CASE pool_start_create
    <2>1. started + 1 \in Tasks /\ started + 1 \in 0..MaxStarts
        BY <1>1, <1>0 DEF pool_start_create, Tasks, PoolAssumption
    <2>2. slot' \in [Slots -> Slot]
        BY <1>1, <2>1, <1>0, SlotStores DEF pool_start_create
    <2>3. cur' \in Slots /\ cur' \in 1..(Num + 1)
        BY <1>1, FindFacts DEF pool_start_create, Slots, PoolAssumption
    <2>4. slot[pool_find].task \in 0..MaxStarts
        BY <1>1, <1>0, FindFacts DEF pool_start_create, Slot
    <2> QED BY <1>1, <2>1, <2>2, <2>3, <2>4, <1>0 DEF pool_start_create, infos
<1>2. CASE pool_start_exist
    BY <1>2, <1>0, SlotStores DEF pool_start_exist, infos, tasks, early
<1>3. CASE pool_start_flags
    BY <1>3, <1>0, SlotStores DEF pool_start_flags, infos, tasks, early
<1>4. CASE pool_start_put
    BY <1>4, <1>0 DEF pool_start_put, infos, tasks, early
<1>5. CASE pool_start_running
    BY <1>5, <1>0 DEF pool_start_running, infos, tasks, early
<1>6. CASE pool_clear_begin
    BY <1>6, <1>0 DEF pool_clear_begin, infos, tasks, early
<1>7. CASE pool_clear_ti
    BY <1>7, <1>0 DEF pool_clear_ti, infos, tasks, early
<1>8. CASE pool_clear_taskinfo
    BY <1>8, <1>0 DEF pool_clear_taskinfo, infos, tasks, early
<1>9. CASE pool_clear_end
    BY <1>9, <1>0 DEF pool_clear_end, infos, tasks, early
<1>10. CASE pool_func_next
    BY <1>10, <1>0 DEF pool_func_next, infos, tasks, early, Slots, Tasks, PoolAssumption
<1>11. CASE pool_join
    <2>1. slot' \in [Slots -> Slot]
        BY <1>11, <1>0, SlotStores DEF pool_join
    <2>2. cur' \in 1..(Num + 1)
        BY <1>11, <1>0 DEF pool_join, PoolAssumption
    <2> QED BY <1>11, <2>1, <2>2, <1>0 DEF pool_join, infos, tasks, early
<1>12. CASE pool_detach
    <2>1. slot' \in [Slots -> Slot]
        BY <1>12, <1>0, SlotStores DEF pool_detach
    <2>2. cur' \in 1..(Num + 1)
        BY <1>12, <1>0 DEF pool_detach, PoolAssumption
    <2> QED BY <1>12, <2>1, <2>2, <1>0 DEF pool_detach, infos, tasks, early
<1>13. CASE pool_kill
    BY <1>13, <1>0 DEF pool_kill, infos, tasks, early, Slots, Tasks, PoolAssumption
<1>14. CASE pool_func_begin
    BY <1>14, <1>0 DEF pool_func_begin, infos, tasks, early, Slots, Tasks, PoolAssumption
<1>15. CASE pool_destroy
    BY <1>15, <1>0 DEF pool_destroy, infos, tasks, early
<1>16. ASSUME NEW s \in Slots, task_suspend(s) PROVE PoolType'
    BY <1>16, <1>0, SlotStores DEF task_suspend, infos, Handle, Ended
<1>17. ASSUME NEW s \in Slots, task_resume(s) PROVE PoolType'
    BY <1>17, <1>0, SlotStores DEF task_resume, infos, Handle, Ended
<1>18. ASSUME NEW s \in Slots, task_cancel(s) PROVE PoolType'
    BY <1>18, <1>0, SlotStores DEF task_cancel, infos, Handle, Ended
<1>19. ASSUME NEW i \in Tasks, task_step_begin(i) PROVE PoolType'
    BY <1>19, <1>0 DEF task_step_begin, unchangedByTask, Move
<1>20. ASSUME NEW i \in Tasks, task_step_pause(i) PROVE PoolType'
    BY <1>20, <1>0 DEF task_step_pause, unchangedByTask, Move
<1>21. ASSUME NEW i \in Tasks, task_step_cancel(i) PROVE PoolType'
    BY <1>21, <1>0 DEF task_step_cancel, unchangedByTask, Move
<1>22. ASSUME NEW i \in Tasks, pool_exit_call(i) PROVE PoolType'
    BY <1>22, <1>0 DEF pool_exit_call, unchangedByTask, Move
<1>23. ASSUME NEW i \in Tasks, pool_exit_find(i) PROVE PoolType'
    BY <1>23, <1>0 DEF pool_exit_find, unchangedByTask, Move
<1>24. ASSUME NEW i \in Tasks, pool_exit_state(i) PROVE PoolType'
    BY <1>24, <1>0 DEF pool_exit_state, unchangedByTask, Move
<1>25. ASSUME NEW i \in Tasks, pool_exit_quit(i) PROVE PoolType'
    BY <1>25, <1>0, SlotStores DEF pool_exit_quit, unchangedByTask, Move
<1>26. ASSUME NEW i \in Tasks, pool_exit_gone(i) PROVE PoolType'
    BY <1>26, <1>0, SlotStores DEF pool_exit_gone, unchangedByTask, Move
<1>27. ASSUME NEW i \in Tasks, task_return(i) PROVE PoolType'
    BY <1>27, <1>0 DEF task_return, unchangedByTask, Move
<1>28. ASSUME NEW i \in Tasks, task_killed(i) PROVE PoolType'
    BY <1>28, <1>0 DEF task_killed, unchangedByTask, Move
<1>29. CASE UNCHANGED vars
    BY <1>29, <1>0 DEF vars
<1> QED
    BY <1>1, <1>2, <1>3, <1>4, <1>5, <1>6, <1>7, <1>8, <1>9, <1>10, <1>11,
       <1>12, <1>13, <1>14, <1>15, <1>16, <1>17, <1>18, <1>19, <1>20, <1>21,
       <1>22, <1>23, <1>24, <1>25, <1>26, <1>27, <1>28, <1>29
    DEF Next, Controller, Control, pool_start, pool_clear, Task, task_step, pool_exit

(* Every step keeps each running thread in a slot of its own.              *)
LEMMA SlotStep ==
    ASSUME PoolAssumption, PoolType, SlotInv, [Next]_vars
    PROVE  SlotInv'
<1> USE DEF PoolType, SlotInv, Live, Slot, Starts, TaskPlaces
<1>1. CASE pool_start_create
    <2> DEFINE n == started + 1
               f == pool_find
    <2>1. n \in Tasks /\ f \in Slots /\ ~slot[f].exist
        BY <1>1, FindFacts DEF pool_start_create, Tasks, PoolAssumption
    <2>2. /\ slot' = [slot EXCEPT ![f].task = n] /\ w' = [w EXCEPT ![n] = "run"]
          /\ started' = n /\ cur' = f /\ mpc = "idle" /\ mpc' = "exist"
        BY <1>1 DEF pool_start_create
    <2> HIDE DEF n, f
    <2>3. /\ slot'[f].task = n /\ slot'[f].exist = slot[f].exist
          /\ \A u \in Slots \ {f} : slot'[u] = slot[u]
        BY <2>1, <2>2
    <2>4. n = started + 1 /\ started \in Nat
        BY DEF n
    <2>5. \A j \in Tasks : j # n => w'[j] = w[j]
        BY <2>1, <2>2
    <2>6. \A j \in Tasks : Live(j)' =>
                \E u \in Slots : /\ slot'[u].task = j
                                 /\ slot'[u].exist \/ (mpc' = "exist" /\ cur' = u)
        BY <2>1, <2>2, <2>3, <2>5
    <2>7. \A j \in Tasks : j > started' => w'[j] = "none"
        BY <2>2, <2>4, <2>5 DEF Tasks
    <2>8. \A u \in Slots : slot'[u].task <= started' /\ (slot'[u].exist => slot'[u].task # 0)
        BY <2>1, <2>2, <2>3, <2>4
    <2>9. \A u, v \in Slots : slot'[u].task = slot'[v].task /\ slot'[u].task # 0 => u = v
        BY <2>1, <2>2, <2>3, <2>4
    <2> QED BY <2>1, <2>2, <2>3, <2>4, <2>6, <2>7, <2>8, <2>9
<1>2. CASE pool_start_exist
    BY <1>2 DEF pool_start_exist, infos, tasks, early
<1>3. CASE pool_start_flags
    BY <1>3 DEF pool_start_flags, infos, tasks, early
<1>4. CASE pool_start_put
    BY <1>4 DEF pool_start_put, infos, tasks, early
<1>5. CASE pool_start_running
    BY <1>5 DEF pool_start_running, infos, tasks, early
<1>6. CASE pool_clear_begin
    BY <1>6 DEF pool_clear_begin, infos, tasks, early
<1>7. CASE pool_clear_ti
    BY <1>7 DEF pool_clear_ti, infos, tasks, early
<1>8. CASE pool_clear_taskinfo
    BY <1>8 DEF pool_clear_taskinfo, infos, tasks, early
<1>9. CASE pool_clear_end
    BY <1>9 DEF pool_clear_end, infos, tasks, early
<1>10. CASE pool_func_next
    BY <1>10 DEF pool_func_next, infos, tasks, early
<1>11. CASE pool_join
    BY <1>11 DEF pool_join, infos, tasks, early
<1>12. CASE pool_detach
    BY <1>12 DEF pool_detach, infos, tasks, early
<1>13. CASE pool_kill
    BY <1>13 DEF pool_kill, infos, tasks, early
<1>14. CASE pool_func_begin
    BY <1>14 DEF pool_func_begin, infos, tasks, early
<1>15. CASE pool_destroy
    BY <1>15 DEF pool_destroy, infos, tasks, early
<1>16. ASSUME NEW s \in Slots, task_suspend(s) PROVE SlotInv'
    BY <1>16 DEF task_suspend, infos, Handle
<1>17. ASSUME NEW s \in Slots, task_resume(s) PROVE SlotInv'
    BY <1>17 DEF task_resume, infos, Handle
<1>18. ASSUME NEW s \in Slots, task_cancel(s) PROVE SlotInv'
    <2>1. \A u \in Slots : slot'[u].task = slot[u].task /\ slot'[u].exist = slot[u].exist
        BY <1>18 DEF task_cancel
    <2> QED BY <1>18, <2>1 DEF task_cancel, infos
<1>19. ASSUME NEW i \in Tasks, task_step_begin(i) PROVE SlotInv'
    BY <1>19 DEF task_step_begin, unchangedByTask, Move
<1>20. ASSUME NEW i \in Tasks, task_step_pause(i) PROVE SlotInv'
    BY <1>20 DEF task_step_pause, unchangedByTask, Move
<1>21. ASSUME NEW i \in Tasks, task_step_cancel(i) PROVE SlotInv'
    BY <1>21 DEF task_step_cancel, unchangedByTask, Move
<1>22. ASSUME NEW i \in Tasks, pool_exit_call(i) PROVE SlotInv'
    BY <1>22 DEF pool_exit_call, unchangedByTask, Move
<1>23. ASSUME NEW i \in Tasks, pool_exit_find(i) PROVE SlotInv'
    BY <1>23 DEF pool_exit_find, unchangedByTask, Move
<1>24. ASSUME NEW i \in Tasks, pool_exit_state(i) PROVE SlotInv'
    BY <1>24 DEF pool_exit_state, unchangedByTask, Move
<1>25. ASSUME NEW i \in Tasks, pool_exit_quit(i) PROVE SlotInv'
    BY <1>25 DEF pool_exit_quit, unchangedByTask, Move
<1>26. ASSUME NEW i \in Tasks, pool_exit_gone(i) PROVE SlotInv'
    <2>1. \A u \in Slots : slot'[u].task = slot[u].task
        BY <1>26 DEF pool_exit_gone
    <2>2. \A u \in Slots : slot'[u].exist => slot[u].exist
        BY <1>26 DEF pool_exit_gone
    <2>3. \A u \in Slots \ {Own(i)} : slot'[u] = slot[u]
        BY <1>26 DEF pool_exit_gone
    <2>4. Own(i) \in Slots /\ slot[Own(i)].task = i
        BY <1>26 DEF pool_exit_gone, Own
    <2>5. /\ w' = [w EXCEPT ![i] = "ended"] /\ w[i] = "gone"
          /\ UNCHANGED <<started, mpc, cur>>
        BY <1>26 DEF pool_exit_gone, Move, unchangedByTask
    <2>6. \A j \in Tasks : w'[j] \notin {"none", "ended"} =>
                \E u \in Slots : /\ slot'[u].task = j
                                 /\ slot'[u].exist \/ (mpc' = "exist" /\ cur' = u)
        <3> TAKE j \in Tasks
        <3> HAVE w'[j] \notin {"none", "ended"}
        <3>1. j # i /\ Live(j)
            BY <2>5
        <3>2. PICK u \in Slots : /\ slot[u].task = j
                                 /\ slot[u].exist \/ (mpc = "exist" /\ cur = u)
            BY <3>1
        <3>3. u # Own(i)
            BY <2>4, <3>1, <3>2
        <3> QED BY <2>1, <2>3, <2>5, <3>2, <3>3
    <2> QED BY <2>1, <2>2, <2>5, <2>6
<1>27. ASSUME NEW i \in Tasks, task_return(i) PROVE SlotInv'
    BY <1>27 DEF task_return, unchangedByTask, Move
<1>28. ASSUME NEW i \in Tasks, task_killed(i) PROVE SlotInv'
    BY <1>28 DEF task_killed, unchangedByTask, Move
<1>29. CASE UNCHANGED vars
    BY <1>29 DEF vars
<1> QED
    BY <1>1, <1>2, <1>3, <1>4, <1>5, <1>6, <1>7, <1>8, <1>9, <1>10, <1>11,
       <1>12, <1>13, <1>14, <1>15, <1>16, <1>17, <1>18, <1>19, <1>20, <1>21,
       <1>22, <1>23, <1>24, <1>25, <1>26, <1>27, <1>28, <1>29
    DEF Next, Controller, Control, pool_start, pool_clear, Task, task_step, pool_exit

(* Every step leaves only cancel flags that were asked for.                *)
LEMMA CancelStep ==
    ASSUME PoolAssumption, PoolType, SlotInv, CancelInv, [Next]_vars
    PROVE  CancelInv'
<1> USE DEF PoolType, SlotInv, CancelInv, CancelWasAsked, Stale, Slot, Starts, Starting, early
<1>1. CASE pool_start_create
    <2> DEFINE n == started + 1
               f == pool_find
    <2>1. n \in Tasks /\ n > started /\ f \in Slots
        BY <1>1, FindFacts DEF pool_start_create, Tasks, PoolAssumption
    <2>2. /\ slot' = [slot EXCEPT ![f].task = n] /\ w' = [w EXCEPT ![n] = "run"]
          /\ prev' = [prev EXCEPT ![n] = slot[f].task] /\ started' = n
          /\ cur' = f /\ mpc = "idle" /\ mpc' = "exist"
          /\ UNCHANGED <<code, asked, misled>>
        BY <1>1 DEF pool_start_create
    <2>3. \A j \in Tasks : j > n => j > started
        BY DEF Tasks
    <2> HIDE DEF n, f
    <2>4. slot'[f].task = n /\ slot'[f].cancel = slot[f].cancel /\ prev'[n] = slot[f].task
        BY <2>1, <2>2
    <2>5. \A u \in Slots \ {f} : slot'[u] = slot[u] /\ slot[u].task # n
        BY <2>1, <2>2
    <2>6. code[n] = "none"
        BY <2>1
    <2>7. \A j \in Tasks \ {n} : prev'[j] = prev[j]
        BY <2>2
    <2>8. CancelWasAsked'
        BY <2>2, <2>6, <2>7
    <2>9. ASSUME NEW u \in Slots, slot'[u].cancel
          PROVE  /\ slot'[u].task # 0
                 /\ IF Stale(u)'
                    THEN prev'[slot'[u].task] # 0 /\ asked'[prev'[slot'[u].task]] # "no"
                    ELSE asked'[slot'[u].task] # "no"
        <3>1. CASE u = f
            BY <2>1, <2>2, <2>4, <2>9, <3>1 DEF Tasks
        <3>2. CASE u # f
            BY <2>2, <2>5, <2>9, <3>2
        <3> QED BY <3>1, <3>2
    <2>10. w'[slot'[cur'].task] = "run"
        BY <2>1, <2>2, <2>4
    <2> QED BY <2>2, <2>3, <2>8, <2>9, <2>10
<1>2. CASE pool_start_exist
    BY <1>2 DEF pool_start_exist, infos, tasks, early
<1>3. CASE pool_start_flags
    BY <1>3 DEF pool_start_flags, infos, tasks, early
<1>4. CASE pool_start_put
    BY <1>4 DEF pool_start_put, infos, tasks, early
<1>5. CASE pool_start_running
    BY <1>5 DEF pool_start_running, infos, tasks, early
<1>6. CASE pool_clear_begin
    BY <1>6 DEF pool_clear_begin, infos, tasks, early
<1>7. CASE pool_clear_ti
    BY <1>7 DEF pool_clear_ti, infos, tasks, early
<1>8. CASE pool_clear_taskinfo
    BY <1>8 DEF pool_clear_taskinfo, infos, tasks, early
<1>9. CASE pool_clear_end
    BY <1>9 DEF pool_clear_end, infos, tasks, early
<1>10. CASE pool_func_next
    BY <1>10 DEF pool_func_next, infos, tasks, early
<1>11. CASE pool_join
    BY <1>11 DEF pool_join, infos, tasks, early
<1>12. CASE pool_detach
    BY <1>12 DEF pool_detach, infos, tasks, early
<1>13. CASE pool_kill
    BY <1>13 DEF pool_kill, infos, tasks, early
<1>14. CASE pool_func_begin
    BY <1>14 DEF pool_func_begin, infos, tasks, early
<1>15. CASE pool_destroy
    BY <1>15 DEF pool_destroy, infos, tasks, early
<1>16. ASSUME NEW s \in Slots, task_suspend(s) PROVE CancelInv'
    BY <1>16 DEF task_suspend, infos, Handle
<1>17. ASSUME NEW s \in Slots, task_resume(s) PROVE CancelInv'
    BY <1>17 DEF task_resume, infos, Handle
<1>18. ASSUME NEW s \in Slots, task_cancel(s) PROVE CancelInv'
    <2>1. /\ asked' = [asked EXCEPT ![slot[s].task] = "cancelled"]
          /\ slot[s].task \in Tasks /\ mpc = "idle"
          /\ UNCHANGED <<mpc, cur, code, prev, misled, started, w>>
        BY <1>18 DEF task_cancel, Handle, Tasks, PoolAssumption
    <2>2. \A u \in Slots : slot'[u].task = slot[u].task
        BY <1>18 DEF task_cancel
    <2>3. \A u \in Slots \ {s} : slot'[u] = slot[u]
        BY <1>18 DEF task_cancel
    <2>4. asked'[slot[s].task] = "cancelled"
        BY <2>1
    <2>5. \A i \in Tasks : asked[i] # "no" => asked'[i] # "no"
        BY <2>1
    <2>6. CancelWasAsked'
        <3>1. \A i \in Tasks : prev[i] # 0 => prev[i] \in Tasks
            BY DEF Tasks, PoolAssumption
        <3> QED BY <2>1, <2>5, <3>1
    <2>7. ASSUME NEW u \in Slots, slot'[u].cancel
          PROVE  slot'[u].task # 0 /\ asked'[slot'[u].task] # "no"
        <3>1. CASE u = s
            BY <2>1, <2>2, <2>4, <3>1 DEF Tasks
        <3>2. CASE u # s
            <4>1. slot[u].cancel /\ ~Stale(u)
                BY <2>1, <2>3, <2>7, <3>2
            <4>2. slot[u].task # 0 /\ asked[slot[u].task] # "no"
                BY <4>1
            <4>3. slot[u].task \in Tasks
                BY <4>2 DEF Tasks, PoolAssumption
            <4> QED BY <2>2, <2>5, <4>2, <4>3
        <3> QED BY <3>1, <3>2
    <2> QED BY <2>1, <2>2, <2>6, <2>7
<1>19. ASSUME NEW i \in Tasks, task_step_begin(i) PROVE CancelInv'
    <2>1. mpc = "exist" /\ i = slot[cur].task => pool_task(i) = 0
        BY DEF pool_task
    <2>2. w[i] = "run" /\ w' = [w EXCEPT ![i] = IF pool_task(i) = 0 THEN "run" ELSE "pause"]
        BY <1>19 DEF task_step_begin, Move
    <2>3. mpc = "exist" => w'[slot[cur].task] \notin {"pause", "cancel"}
        BY <2>1, <2>2
    <2> QED BY <1>19, <2>3 DEF task_step_begin, unchangedByTask
<1>20. ASSUME NEW i \in Tasks, task_step_pause(i) PROVE CancelInv'
    BY <1>20 DEF task_step_pause, unchangedByTask, Move
<1>21. ASSUME NEW i \in Tasks, task_step_cancel(i) PROVE CancelInv'
    <2>1. PICK s \in Slots : s = Own(i) /\ slot[s].task = i
        BY <1>21 DEF task_step_cancel, Own, Live
    <2>2. /\ code' = IF slot[s].cancel THEN [code EXCEPT ![i] = "CANCEL"] ELSE code
          /\ misled' = IF Starting(i) /\ mpc = "flags" THEN misled \cup {i} ELSE misled
          /\ w[i] = "cancel" /\ w' = [w EXCEPT ![i] = IF slot[s].cancel THEN "exit" ELSE "run"]
          /\ UNCHANGED <<slot, mpc, cur, asked, prev, started>>
        BY <1>21, <2>1 DEF task_step_cancel, unchangedByTask, Move
    <2>3. mpc # "exist" \/ slot[cur].task # i
        BY <2>2
    <2>4. Stale(s) => Starting(i) /\ mpc = "flags"
        BY <2>1, <2>3
    <2>5. slot[s].cancel /\ asked[i] = "no" =>
              i \in misled' /\ prev[i] # 0 /\ asked[prev[i]] # "no"
        BY <2>1, <2>2, <2>4
    <2>6. misled \subseteq misled'
        BY <2>2
    <2>7. \A j \in Tasks : j > started => w[j] = "none" /\ code[j] = "none"
        OBVIOUS
    <2>8. \A j \in Tasks : j > started => code'[j] = "none"
        BY <2>2, <2>7
    <2>9. CancelWasAsked'
        BY <2>2, <2>5, <2>6
    <2>10. mpc' = "exist" => w'[slot'[cur'].task] \notin {"pause", "cancel"}
        BY <2>2, <2>3
    <2> QED BY <2>2, <2>8, <2>9, <2>10
<1>22. ASSUME NEW i \in Tasks, pool_exit_call(i) PROVE CancelInv'
    BY <1>22 DEF pool_exit_call, unchangedByTask, Move
<1>23. ASSUME NEW i \in Tasks, pool_exit_find(i) PROVE CancelInv'
    BY <1>23 DEF pool_exit_find, unchangedByTask, Move
<1>24. ASSUME NEW i \in Tasks, pool_exit_state(i) PROVE CancelInv'
    BY <1>24 DEF pool_exit_state, unchangedByTask, Move
<1>25. ASSUME NEW i \in Tasks, pool_exit_quit(i) PROVE CancelInv'
    BY <1>25 DEF pool_exit_quit, unchangedByTask, Move
<1>26. ASSUME NEW i \in Tasks, pool_exit_gone(i) PROVE CancelInv'
    BY <1>26 DEF pool_exit_gone, unchangedByTask, Move
<1>27. ASSUME NEW i \in Tasks, task_return(i) PROVE CancelInv'
    BY <1>27 DEF task_return, unchangedByTask, Move
<1>28. ASSUME NEW i \in Tasks, task_killed(i) PROVE CancelInv'
    BY <1>28 DEF task_killed, unchangedByTask, Move
<1>29. CASE UNCHANGED vars
    BY <1>29 DEF vars
<1> QED
    BY <1>1, <1>2, <1>3, <1>4, <1>5, <1>6, <1>7, <1>8, <1>9, <1>10, <1>11,
       <1>12, <1>13, <1>14, <1>15, <1>16, <1>17, <1>18, <1>19, <1>20, <1>21,
       <1>22, <1>23, <1>24, <1>25, <1>26, <1>27, <1>28, <1>29
    DEF Next, Controller, Control, pool_start, pool_clear, Task, task_step, pool_exit

(* A task whose info at most is freed, and a slot that is the same, stay   *)
(* as they are.                                                            *)
LEMMA ExitFrame ==
    ASSUME NEW j \in Tasks, ExitOf(j), w'[j] = w[j], code'[j] = code[j],
           info'[j] \in {info[j], "freed"}, j \in hasty' <=> j \in hasty,
           j \in late => j \in late', j \in reaped' <=> j \in reaped,
           Starting(j)' <=> Starting(j)
    PROVE  ExitOf(j)'
BY DEF ExitOf, StateKept, StateLost, HasExited

LEMMA QuitFrame ==
    ASSUME NEW u \in Slots, QuitOf(u), slot'[u].task = slot[u].task,
           slot'[u].quit <=> slot[u].quit,
           slot'[u].exist /\ ~Stale(u)' => slot[u].exist /\ ~Stale(u),
           w'[slot[u].task] = w[slot[u].task], code'[slot[u].task] = code[slot[u].task],
           hasty \subseteq hasty'
    PROVE  QuitOf(u)'
BY DEF QuitOf, HasExited

(* Where the places and codes of all tasks stay, and pool_start is where it*)
(* was or goes on to a step at which it looks the same to them.            *)
LEMMA ExitSame ==
    ASSUME PoolType, SlotInv, ExitInv,
           UNCHANGED <<w, code, hasty, late, reaped>>,
           \A j \in Tasks : info'[j] \in {info[j], "freed"},
           \A u \in Slots : /\ slot'[u].task = slot[u].task
                            /\ slot'[u].quit <=> slot[u].quit
                            /\ slot'[u].exist /\ ~Stale(u)' => slot[u].exist /\ ~Stale(u),
           \A j \in Tasks : Starting(j)' <=> Starting(j),
           mpc' # "exist",
           mpc' = "destroyed" => \A i \in Tasks : w[i] \in {"none", "ended"},
           \A i \in reaped, u \in Slots : slot[u].task = i => ~slot'[u].exist
    PROVE  ExitInv'
<1>1. \A j \in Tasks : ExitOf(j)'
    BY ExitFrame DEF ExitInv
<1>2. \A u \in Slots : QuitOf(u)'
    BY QuitFrame DEF ExitInv
<1>3. \A j \in reaped' : ReapedOf(j)'
    BY DEF ExitInv, ReapedOf
<1> QED BY <1>1, <1>2, <1>3 DEF ExitInv

(* The same, where one task moves on, to a place that is none of the last  *)
(* ones.                                                                   *)
LEMMA ExitMoves ==
    ASSUME PoolType, SlotInv, ExitInv, NEW i \in Tasks, NEW to,
           w[i] \notin {"none", "quit", "gone", "ended"}, to \notin {"quit", "gone"},
           w' = [w EXCEPT ![i] = to],
           to \in {"exit", "state"} => code'[i] \in Final,
           to = "ended" => code'[i] \notin Final,
           \A j \in Tasks \ {i} : code'[j] = code[j],
           mpc = "exist" /\ slot[cur].task = i => to \in {"run", "exit", "ended"},
           UNCHANGED <<slot, info, mpc, cur, hasty, late, reaped>>
    PROVE  ExitInv'
<1> DEFINE own(u) == slot[u].task
<1>1. i \notin hasty /\ i \notin reaped
    BY DEF ExitInv, ExitOf, StateLost, ReapedOf
<1>2. /\ w'[i] = to /\ \A j \in Tasks \ {i} : w'[j] = w[j]
      /\ \A j \in Tasks : Starting(j)' <=> Starting(j)
      /\ \A u \in Slots : Stale(u)' <=> Stale(u)
    BY DEF PoolType, Starting, Stale
<1>3. ExitOf(i)'
    BY <1>1, <1>2 DEF ExitOf, StateKept, HasExited
<1>4. ASSUME NEW j \in Tasks \ {i} PROVE ExitOf(j)'
    BY <1>2, <1>4, ExitFrame DEF ExitInv
<1>5. ASSUME NEW u \in Slots, slot[u].exist PROVE QuitOf(u)'
    <2>1. slot[u].task \in Tasks
        BY <1>5 DEF PoolType, SlotInv, Slot, Tasks
    <2>2. CASE slot[u].task # i
        BY <1>2, <2>1, <2>2, QuitFrame DEF ExitInv
    <2>3. CASE slot[u].task = i
        <3>1. ~HasExited(i) /\ ~HasExited(i)'
            BY <1>2 DEF HasExited
        <3> QED BY <1>1, <1>2, <2>3, <3>1 DEF ExitInv, QuitOf
    <2> QED BY <2>2, <2>3
<1>6. \A u \in Slots : QuitOf(u)'
    BY <1>5 DEF QuitOf
<1>7. \A j \in reaped' : ReapedOf(j)'
    BY <1>1, <1>2 DEF ExitInv, ReapedOf
<1>8. mpc' = "destroyed" => \A j \in Tasks : w'[j] \in {"none", "ended"}
    BY <1>2 DEF ExitInv
<1>9. mpc' = "exist" => /\ w'[slot'[cur'].task] \in {"run", "exit", "ended"}
                        /\ info'[slot'[cur'].task] = "RUNNING"
                        /\ slot'[cur'].task \notin reaped'
    <2>1. mpc = "exist" => slot[cur].task \in Tasks
        BY DEF PoolType, SlotInv, Starts, Slot, Tasks
    <2> QED BY <1>2, <2>1 DEF ExitInv
<1> QED BY <1>3, <1>4, <1>6, <1>7, <1>8, <1>9 DEF ExitInv

(* A running task finds its slot, except before pool_start has marked it.  *)
LEMMA TaskFound ==
    ASSUME PoolAssumption, SlotInv, NEW i \in Tasks, Live(i), mpc # "destroyed"
    PROVE  pool_task(i) = 0 <=> mpc = "exist" /\ Starting(i)
<1> DEFINE mine == {s \in Slots : slot[s].exist /\ slot[s].task = i}
<1>1. i # 0 /\ 0 \notin Slots
    BY DEF Tasks, Slots, PoolAssumption
<1>2. CASE mine = {}
    <2>1. pool_task(i) = 0
        BY <1>2 DEF pool_task
    <2> QED BY <1>2, <2>1 DEF SlotInv, Starting
<1>3. CASE mine # {}
    <2>1. (CHOOSE s \in mine : TRUE) \in Slots
        BY <1>3
    <2>2. pool_task(i) = CHOOSE s \in mine : TRUE
        BY <1>3 DEF pool_task
    <2>3. pool_task(i) # 0
        BY <1>1, <2>1, <2>2
    <2>4. PICK s \in Slots : slot[s].exist /\ slot[s].task = i
        BY <1>3
    <2>5. ~(mpc = "exist" /\ Starting(i))
        BY <1>1, <2>4 DEF SlotInv, Starting, Starts
    <2> QED BY <2>3, <2>5
<1> QED BY <1>2, <1>3

(* Every step keeps the exit states.                                       *)
LEMMA ExitStep ==
    ASSUME PoolAssumption, PoolType, SlotInv, ExitInv, [Next]_vars
    PROVE  ExitInv'
<1> USE DEF early
<1>0. /\ \A u \in Slots : slot[u].exist => slot[u].task \in Tasks
      /\ \A u, v \in Slots : slot[u].task = slot[v].task /\ slot[u].task # 0 => u = v
      /\ mpc \in Starts => cur \in Slots /\ slot[cur].task \in Tasks
      /\ 0 \notin Tasks
    BY DEF PoolType, SlotInv, Slot, Tasks, PoolAssumption
<1>a. /\ \A j \in Tasks : ExitOf(j)
      /\ \A u \in Slots : QuitOf(u)
      /\ \A j \in reaped : ReapedOf(j) /\ j \in Tasks
    BY DEF ExitInv
<1>1. CASE pool_start_create
    <2> DEFINE n == started + 1
               f == pool_find
    <2>1. n \in Tasks /\ n > started /\ f \in Slots /\ ~slot[f].exist
        BY <1>1, FindFacts DEF pool_start_create, Tasks, PoolAssumption, PoolType
    <2>2. /\ slot' = [slot EXCEPT ![f].task = n] /\ w' = [w EXCEPT ![n] = "run"]
          /\ info' = [info EXCEPT ![n] = "RUNNING"]
          /\ cur' = f /\ mpc = "idle" /\ mpc' = "exist"
          /\ UNCHANGED <<code, late, reaped, hasty>>
        BY <1>1 DEF pool_start_create
    <2>3. w[n] = "none"
        BY <2>1 DEF SlotInv
    <2> HIDE DEF n, f
    <2>4. slot'[f].task = n /\ ~slot'[f].exist
        BY <2>1, <2>2 DEF PoolType, Slot
    <2>5. \A u \in Slots \ {f} : slot'[u] = slot[u] /\ slot[u].task # n
        BY <2>1, <2>2 DEF PoolType, SlotInv, Slot, Tasks, PoolAssumption
    <2>6. n \notin reaped /\ n \notin hasty
        BY <1>a, <2>1, <2>3 DEF ReapedOf, ExitOf, StateLost
    <2>7. w'[n] = "run" /\ \A j \in Tasks \ {n} : w'[j] = w[j] /\ info'[j] = info[j]
        BY <2>1, <2>2 DEF PoolType
    <2>8. ASSUME NEW j \in Tasks PROVE ExitOf(j)'
        <3>1. CASE j = n
            BY <2>2, <2>6, <2>7, <3>1 DEF ExitOf, StateKept, HasExited
        <3>2. CASE j # n
            <4>1. ~Starting(j) /\ ~Starting(j)'
                BY <2>2, <2>4, <3>2 DEF Starting
            <4> QED BY <1>a, <2>2, <2>7, <3>2, <4>1, ExitFrame
        <3> QED BY <3>1, <3>2
    <2>9. ASSUME NEW u \in Slots, slot'[u].exist PROVE QuitOf(u)'
        <3>1. u # f /\ slot'[u] = slot[u] /\ slot[u].task \in Tasks \ {n}
            BY <1>0, <2>4, <2>5, <2>9
        <3>2. ~Stale(u)
            BY <2>2 DEF Stale
        <3> QED BY <1>a, <2>2, <2>7, <3>1, <3>2, QuitFrame
    <2>10. \A u \in Slots : QuitOf(u)'
        BY <2>9 DEF QuitOf
    <2>11. \A j \in reaped' : ReapedOf(j)'
        BY <1>a, <2>2, <2>4, <2>5, <2>6, <2>7 DEF ReapedOf
    <2>12. info'[n] = "RUNNING"
        BY <2>1, <2>2 DEF PoolType
    <2> QED BY <1>a, <2>1, <2>2, <2>4, <2>6, <2>7, <2>8, <2>10, <2>11, <2>12 DEF ExitInv
<1>2. CASE pool_start_exist
    <2>1. /\ mpc = "exist" /\ mpc' = "flags" /\ slot' = [slot EXCEPT ![cur].exist = TRUE]
          /\ UNCHANGED <<info, cur, w, code, hasty, late, reaped>>
        BY <1>2 DEF pool_start_exist, tasks
    <2>2. /\ \A u \in Slots : slot'[u].task = slot[u].task /\ slot'[u].quit = slot[u].quit
          /\ \A u \in Slots \ {cur} : slot'[u] = slot[u]
        BY <2>1 DEF PoolType, Slot
    <2>3. \A u \in Slots : slot'[u].exist /\ ~Stale(u)' => slot[u].exist /\ ~Stale(u)
        BY <2>1, <2>2 DEF Stale
    <2>4. \A j \in Tasks : Starting(j)' <=> Starting(j)
        BY <1>0, <2>1, <2>2 DEF Starting, Starts
    <2>a. slot[cur].task \notin reaped
        BY <2>1 DEF ExitInv
    <2>5. \A i \in reaped, u \in Slots : slot[u].task = i => ~slot'[u].exist
        BY <1>a, <2>2, <2>a DEF ReapedOf
    <2> QED BY <2>1, <2>2, <2>3, <2>4, <2>5, ExitSame
<1>3. CASE pool_start_flags
    <2>1. /\ mpc = "flags" /\ mpc' = "put"
          /\ UNCHANGED <<info, cur, w, code, hasty, late, reaped>>
        BY <1>3 DEF pool_start_flags, tasks
    <2>2. slot' = [slot EXCEPT ![cur].quit = FALSE, ![cur].cancel = FALSE,
                               ![cur].pause = FALSE, ![cur].detach = FALSE]
        BY <1>3 DEF pool_start_flags
    <2>3. /\ \A u \in Slots : slot'[u].task = slot[u].task /\ slot'[u].exist = slot[u].exist
          /\ \A u \in Slots \ {cur} : slot'[u] = slot[u]
          /\ cur \in Slots => slot'[cur].quit = FALSE
        BY <2>2 DEF PoolType, Slot
    <2>4. \A j \in Tasks : Starting(j)' <=> Starting(j)
        BY <1>0, <2>1, <2>3 DEF Starting, Starts
    <2>5. \A j \in Tasks : ExitOf(j)'
        BY <1>a, <2>1, <2>4, ExitFrame
    <2>6. \A j \in reaped' : ReapedOf(j)'
        BY <1>a, <2>1, <2>3 DEF ReapedOf
    <2>7. ASSUME NEW u \in Slots PROVE QuitOf(u)'
        <3>1. CASE u = cur
            <4>1. slot[cur].task \in Tasks /\ Starting(slot[cur].task)
                BY <1>0, <2>1 DEF Starts, Starting
            <4>2. slot[cur].task \notin hasty => ~HasExited(slot[cur].task)
                BY <1>a, <4>1 DEF ExitOf, StateKept
            <4> QED BY <2>1, <2>3, <3>1, <4>2 DEF QuitOf, HasExited
        <3>2. CASE u # cur
            <4>1. ~Stale(u)
                BY <3>2 DEF Stale
            <4> QED BY <1>a, <2>1, <2>3, <3>2, <4>1, QuitFrame
        <3> QED BY <3>1, <3>2
    <2> QED BY <1>a, <2>1, <2>5, <2>6, <2>7 DEF ExitInv
<1>4. CASE pool_start_put
    BY <1>4, ExitSame DEF pool_start_put, tasks, Starting, Stale, ExitInv, ReapedOf
<1>5. CASE pool_start_running
    <2> DEFINE n == slot[cur].task
    <2>1. /\ mpc = "running" /\ mpc' = "clear" /\ n \in Tasks /\ Starting(n)
          /\ info' = [info EXCEPT ![n] = "RUNNING"]
          /\ UNCHANGED <<slot, cur, w, code, hasty, late, reaped>>
        BY <1>0, <1>5 DEF pool_start_running, tasks, Starts, Starting
    <2>2. /\ \A j \in Tasks \ {n} : info'[j] = info[j] /\ ~Starting(j)
          /\ info'[n] = "RUNNING" /\ \A j \in Tasks : ~Starting(j)'
        BY <2>1 DEF PoolType, Starting
    <2> HIDE DEF n
    <2>3. ASSUME NEW j \in Tasks PROVE ExitOf(j)'
        <3>1. CASE j = n
            BY <1>a, <2>1, <2>2, <3>1 DEF ExitOf, StateKept, StateLost, HasExited
        <3>2. CASE j # n
            BY <1>a, <2>1, <2>2, <3>2, ExitFrame
        <3> QED BY <3>1, <3>2
    <2>4. \A u \in Slots : QuitOf(u)'
        BY <1>a, <2>1 DEF QuitOf, HasExited, Stale
    <2>5. \A j \in reaped' : ReapedOf(j)'
        BY <1>a, <2>1 DEF ReapedOf
    <2> QED BY <1>a, <2>1, <2>3, <2>4, <2>5 DEF ExitInv
<1>6. CASE pool_clear_begin
    BY <1>6, ExitSame DEF pool_clear_begin, tasks, Starting, Stale, ExitInv, ReapedOf
<1>7. CASE pool_clear_ti
    <2>1. \A j \in Tasks : info'[j] \in {info[j], "freed"}
        BY <1>7 DEF pool_clear_ti, PoolType
    <2> QED BY <1>7, <2>1, ExitSame DEF pool_clear_ti, tasks, Starting, Stale, ExitInv, ReapedOf
<1>8. CASE pool_clear_taskinfo
    <2>1. \A j \in Tasks : info'[j] \in {info[j], "freed"}
        BY <1>8 DEF pool_clear_taskinfo, PoolType
    <2> QED BY <1>8, <2>1, ExitSame DEF pool_clear_taskinfo, tasks, Starting, Stale, ExitInv, ReapedOf
<1>9. CASE pool_clear_end
    BY <1>9, ExitSame DEF pool_clear_end, tasks, Starting, Stale, ExitInv, ReapedOf
<1>10. CASE pool_func_next
    BY <1>10, ExitSame DEF pool_func_next, tasks, Starting, Stale, ExitInv, ReapedOf
<1>11. CASE pool_join
    <2> DEFINE i == slot[cur].task
    <2>1. /\ cur \in Slots /\ slot[cur].exist /\ i \in Tasks /\ w[i] = "ended"
          /\ mpc = "join"
        <3>1. cur \in 1..(Num + 1) /\ cur <= Num /\ Num \in Nat
            BY <1>11 DEF pool_join, PoolType, PoolAssumption
        <3>2. cur \in Slots
            BY <3>1 DEF Slots
        <3> QED BY <1>0, <1>11, <3>2 DEF pool_join
    <2>2. /\ slot' = [slot EXCEPT ![cur].exist = FALSE]
          /\ info' = IF slot[cur].quit THEN info ELSE [info EXCEPT ![i] = "SUCCESS"]
          /\ reaped' = reaped \cup {i}
          /\ UNCHANGED <<mpc, w, code, late, hasty>>
        BY <1>11 DEF pool_join, tasks
    <2> HIDE DEF i
    <2>3. /\ \A u \in Slots \ {cur} : slot'[u] = slot[u] /\ slot[u].task # i
          /\ slot'[cur].task = i /\ ~slot'[cur].exist
        BY <1>0, <2>1, <2>2 DEF PoolType, Slot, i
    <2>4. \A j \in Tasks : ~Starting(j) /\ ~Starting(j)'
        BY <2>1, <2>2 DEF Starting
    <2>5. \A u \in Slots : ~Stale(u) /\ ~Stale(u)'
        BY <2>1, <2>2 DEF Stale
    <2>6. i \notin hasty => (slot[cur].quit <=> code[i] \in Final)
        BY <1>a, <2>1, <2>5 DEF QuitOf, HasExited, i
    <2>7. \A j \in Tasks \ {i} : info'[j] = info[j]
        BY <2>2 DEF PoolType
    <2>8. info'[i] = IF slot[cur].quit THEN info[i] ELSE "SUCCESS"
        BY <2>1, <2>2 DEF PoolType
    <2>9. ASSUME NEW j \in Tasks PROVE ExitOf(j)'
        <3>1. CASE j = i /\ i \in hasty
            BY <1>a, <2>1, <2>2, <2>4, <2>8, <3>1 DEF ExitOf, StateLost
        <3>2. CASE j = i /\ i \notin hasty
            BY <1>a, <2>1, <2>2, <2>4, <2>6, <2>8, <3>2 DEF ExitOf, StateKept, HasExited
        <3>3. CASE j # i
            BY <1>a, <2>2, <2>4, <2>7, <3>3, ExitFrame
        <3> QED BY <3>1, <3>2, <3>3
    <2>10. ASSUME NEW u \in Slots, slot'[u].exist PROVE QuitOf(u)'
        <3>1. u # cur /\ slot'[u] = slot[u]
            BY <2>3, <2>10
        <3> QED BY <1>a, <2>2, <2>5, <3>1, QuitFrame
    <2>11. \A u \in Slots : QuitOf(u)'
        BY <2>10 DEF QuitOf
    <2>12. \A j \in reaped' : ReapedOf(j)'
        BY <1>a, <2>1, <2>2, <2>3 DEF ReapedOf
    <2> QED BY <1>a, <2>1, <2>2, <2>9, <2>11, <2>12 DEF ExitInv
<1>12. CASE pool_detach
    <2>1. \A u \in Slots : /\ slot'[u].task = slot[u].task /\ slot'[u].quit = slot[u].quit
                           /\ slot'[u].exist = slot[u].exist
        BY <1>12 DEF pool_detach, PoolType, Slot
    <2>2. /\ mpc = "detach" /\ UNCHANGED <<info, mpc, w, code, hasty, late, reaped>>
        BY <1>12 DEF pool_detach, tasks
    <2>3. \A u \in Slots : ~Stale(u) /\ \A j \in Tasks : ~Starting(j)' /\ ~Starting(j)
        BY <2>2 DEF Stale, Starting
    <2>4. \A j \in Tasks : ~Starting(j)' /\ ~Starting(j)
        BY <2>2 DEF Starting
    <2>5. \A j \in reaped, u \in Slots : slot[u].task = j => ~slot'[u].exist
        BY <1>a, <2>1 DEF ReapedOf
    <2> QED BY <2>1, <2>2, <2>3, <2>4, <2>5, ExitSame
<1>13. CASE pool_kill
    BY <1>a, <1>13, ExitSame DEF pool_kill, Starting, Stale, ReapedOf
<1>14. CASE pool_func_begin
    BY <1>a, <1>14, ExitSame DEF pool_func_begin, tasks, Starting, Stale, ReapedOf
<1>15. CASE pool_destroy
    <2>1. \A j \in Tasks : info'[j] \in {info[j], "freed"}
        BY <1>15 DEF pool_destroy
    <2>2. /\ mpc' = "destroyed" /\ mpc = "idle"
          /\ \A j \in Tasks : w[j] \in {"none", "ended"}
          /\ UNCHANGED <<slot, cur, w, code, hasty, late, reaped>>
        BY <1>15 DEF pool_destroy, tasks
    <2> QED BY <1>a, <2>1, <2>2, ExitSame DEF Starting, Stale, ReapedOf
<1>b. ASSUME NEW s \in Slots, slot[s].exist, mpc = "idle",
             \A u \in Slots : /\ slot'[u].task = slot[u].task /\ slot'[u].quit = slot[u].quit
                              /\ slot'[u].exist = slot[u].exist,
             \A j \in Tasks \ {slot[s].task} : info'[j] = info[j],
             late' = late \cup Ended(slot[s].task),
             UNCHANGED <<mpc, cur, w, code, hasty, reaped>>
      PROVE  ExitInv'
    <2> DEFINE n == slot[s].task
    <2>1. n \in Tasks /\ n \notin reaped
        BY <1>0, <1>a, <1>b DEF ReapedOf
    <2>2. w[n] \in {"quit", "gone", "ended"} => n \in late'
        BY <1>b DEF Ended
    <2>3. \A j \in Tasks : ~Starting(j) /\ ~Starting(j)'
        BY <1>b DEF Starting
    <2>4. ASSUME NEW j \in Tasks PROVE ExitOf(j)'
        <3>1. CASE j = n
            BY <1>a, <1>b, <2>1, <2>2, <2>3, <3>1
            DEF ExitOf, StateKept, StateLost, HasExited
        <3>2. CASE j # n
            BY <1>a, <1>b, <2>3, <3>2, ExitFrame
        <3> QED BY <3>1, <3>2
    <2>5. \A u \in Slots : QuitOf(u)'
        BY <1>a, <1>b DEF QuitOf, HasExited, Stale
    <2>6. \A j \in reaped' : ReapedOf(j)'
        BY <1>a, <1>b DEF ReapedOf
    <2> QED BY <1>a, <1>b, <2>4, <2>5, <2>6 DEF ExitInv
<1>16. ASSUME NEW s \in Slots, task_suspend(s) PROVE ExitInv'
    <2>1. \A u \in Slots : /\ slot'[u].task = slot[u].task /\ slot'[u].quit = slot[u].quit
                           /\ slot'[u].exist = slot[u].exist
        BY <1>16 DEF task_suspend, PoolType, Slot
    <2>2. \A j \in Tasks \ {slot[s].task} : info'[j] = info[j]
        BY <1>16 DEF task_suspend, PoolType
    <2> QED BY <1>b, <1>16, <2>1, <2>2 DEF task_suspend, Handle
<1>17. ASSUME NEW s \in Slots, task_resume(s) PROVE ExitInv'
    <2>1. \A u \in Slots : /\ slot'[u].task = slot[u].task /\ slot'[u].quit = slot[u].quit
                           /\ slot'[u].exist = slot[u].exist
        BY <1>17 DEF task_resume, PoolType, Slot
    <2>2. \A j \in Tasks \ {slot[s].task} : info'[j] = info[j]
        BY <1>17 DEF task_resume, PoolType
    <2> QED BY <1>b, <1>17, <2>1, <2>2 DEF task_resume, Handle
<1>18. ASSUME NEW s \in Slots, task_cancel(s) PROVE ExitInv'
    <2>1. \A u \in Slots : /\ slot'[u].task = slot[u].task /\ slot'[u].quit = slot[u].quit
                           /\ slot'[u].exist = slot[u].exist
        BY <1>18 DEF task_cancel, PoolType, Slot
    <2>2. /\ mpc = "idle" /\ UNCHANGED <<info, mpc, cur, w, code, hasty, late, reaped>>
        BY <1>18 DEF task_cancel, Handle
    <2>3. \A j \in reaped, u \in Slots : slot[u].task = j => ~slot'[u].exist
        BY <1>a, <2>1 DEF ReapedOf
    <2> QED BY <2>1, <2>2, <2>3, ExitSame DEF Starting, Stale
<1>c. ASSUME NEW i \in Tasks, Live(i)
      PROVE  /\ mpc # "destroyed"
             /\ mpc = "exist" /\ slot[cur].task = i => w[i] \in {"run", "exit"}
             /\ pool_task(i) = 0 <=> mpc = "exist" /\ slot[cur].task = i
    <2>1. mpc # "destroyed"
        BY <1>c DEF ExitInv, Live
    <2>2. mpc = "exist" /\ slot[cur].task = i => w[i] \in {"run", "exit"}
        BY <1>c DEF ExitInv, Live
    <2>3. pool_task(i) = 0 <=> mpc = "exist" /\ slot[cur].task = i
        BY <1>c, <2>1, TaskFound DEF Starting
    <2> QED BY <2>1, <2>2, <2>3
<1>19. ASSUME NEW i \in Tasks, task_step_begin(i) PROVE ExitInv'
    <2> DEFINE to == IF pool_task(i) = 0 THEN "run" ELSE "pause"
    <2>1. /\ w[i] = "run" /\ w' = [w EXCEPT ![i] = to]
          /\ UNCHANGED <<slot, info, code, mpc, cur, hasty, late, reaped>>
        BY <1>19 DEF task_step_begin, unchangedByTask, Move
    <2>2. Live(i)
        BY <2>1 DEF Live
    <2>3. mpc = "exist" /\ slot[cur].task = i => to = "run"
        BY <1>c, <2>2
    <2>4. to \in {"run", "pause"}
        OBVIOUS
    <2> HIDE DEF to
    <2> QED BY <2>1, <2>3, <2>4, ExitMoves
<1>20. ASSUME NEW i \in Tasks, task_step_pause(i) PROVE ExitInv'
    <2>1. /\ w[i] = "pause" /\ w' = [w EXCEPT ![i] = "cancel"]
          /\ UNCHANGED <<slot, info, code, mpc, cur, hasty, late, reaped>>
        BY <1>20 DEF task_step_pause, unchangedByTask, Move
    <2>2. ~(mpc = "exist" /\ slot[cur].task = i)
        BY <1>c, <2>1 DEF Live
    <2> QED BY <2>1, <2>2, ExitMoves
<1>21. ASSUME NEW i \in Tasks, task_step_cancel(i) PROVE ExitInv'
    <2> DEFINE to == IF slot[Own(i)].cancel THEN "exit" ELSE "run"
    <2>1. /\ w[i] = "cancel" /\ w' = [w EXCEPT ![i] = to]
          /\ code' = IF to = "exit" THEN [code EXCEPT ![i] = "CANCEL"] ELSE code
          /\ UNCHANGED <<slot, info, mpc, cur, hasty, late, reaped>>
        BY <1>21 DEF task_step_cancel, unchangedByTask, Move
    <2>2. to \in {"run", "exit"}
        OBVIOUS
    <2> HIDE DEF to
    <2>3. /\ to = "exit" => code'[i] \in Final
          /\ \A j \in Tasks \ {i} : code'[j] = code[j]
        BY <2>1 DEF PoolType, Final
    <2> QED BY <2>1, <2>2, <2>3, ExitMoves
<1>22. ASSUME NEW i \in Tasks, pool_exit_call(i) PROVE ExitInv'
    <2>1. /\ w[i] = "run" /\ w' = [w EXCEPT ![i] = "exit"]
          /\ UNCHANGED <<slot, info, mpc, cur, hasty, late, reaped>>
        BY <1>22 DEF pool_exit_call, unchangedByTask, Move
    <2>2. code'[i] \in Final /\ \A j \in Tasks \ {i} : code'[j] = code[j]
        BY <1>22 DEF pool_exit_call, PoolType, Final
    <2> QED BY <2>1, <2>2, ExitMoves
<1>23. ASSUME NEW i \in Tasks, pool_exit_find(i) PROVE ExitInv'
    <2>1. /\ w[i] = "exit" /\ UNCHANGED <<slot, info, code, mpc, cur, late, reaped>>
          /\ code[i] \in Final /\ i \notin reaped /\ i \notin hasty
        BY <1>a, <1>23
        DEF pool_exit_find, unchangedByTask, Move, ExitOf, StateLost, ReapedOf
    <2>2. pool_task(i) = 0 <=> mpc = "exist" /\ slot[cur].task = i
        BY <1>c, <2>1 DEF Live
    <2>3. CASE pool_task(i) # 0
        <3>1. w' = [w EXCEPT ![i] = "state"] /\ hasty' = hasty
            BY <1>23, <2>3 DEF pool_exit_find, Move
        <3> QED BY <2>1, <2>2, <2>3, <3>1, ExitMoves
    <2>4. CASE pool_task(i) = 0
        <3>1. mpc = "exist" /\ slot[cur].task = i /\ info[i] = "RUNNING" /\ Starting(i)
            BY <2>2, <2>4 DEF ExitInv, Starting
        <3>2. w' = [w EXCEPT ![i] = "ended"] /\ hasty' = hasty \cup {i}
            BY <1>23, <2>4, <3>1 DEF pool_exit_find, Move, Hasty
        <3>3. w'[i] = "ended" /\ \A j \in Tasks \ {i} : w'[j] = w[j]
            BY <3>2 DEF PoolType
        <3>4. ASSUME NEW j \in Tasks PROVE ExitOf(j)'
            <4>1. CASE j = i
                BY <2>1, <3>1, <3>2, <3>3, <4>1 DEF ExitOf, StateLost
            <4>2. CASE j # i
                BY <1>a, <2>1, <3>2, <3>3, <4>2, ExitFrame DEF Starting
            <4> QED BY <4>1, <4>2
        <3>5. ASSUME NEW u \in Slots, slot[u].exist, slot[u].task # i PROVE QuitOf(u)'
            BY <1>0, <1>a, <2>1, <3>2, <3>3, <3>5, QuitFrame DEF Stale
        <3>6. \A u \in Slots : QuitOf(u)'
            BY <2>1, <3>2, <3>5 DEF QuitOf
        <3>7. \A j \in reaped' : ReapedOf(j)'
            BY <1>a, <2>1, <3>3 DEF ReapedOf
        <3> QED BY <1>a, <2>1, <3>1, <3>3, <3>4, <3>6, <3>7 DEF ExitInv
    <2> QED BY <2>3, <2>4
<1>24. ASSUME NEW i \in Tasks, pool_exit_state(i) PROVE ExitInv'
    <2>1. /\ w[i] = "state" /\ w' = [w EXCEPT ![i] = "quit"]
          /\ info' = [info EXCEPT ![i] = code[i]]
          /\ hasty' = IF Starting(i) THEN hasty \cup {i} ELSE hasty
          /\ UNCHANGED <<slot, code, mpc, cur, late, reaped>>
        BY <1>24 DEF pool_exit_state, unchangedByTask, Move, Hasty
    <2>2. code[i] \in Final /\ i \notin hasty /\ i \notin reaped
        BY <1>a, <2>1 DEF ExitOf, StateLost, ReapedOf
    <2>3. ~(mpc = "exist" /\ slot[cur].task = i) /\ mpc # "destroyed"
        BY <1>c, <2>1 DEF Live
    <2>4. /\ w'[i] = "quit" /\ info'[i] = code[i]
          /\ \A j \in Tasks \ {i} : w'[j] = w[j] /\ info'[j] = info[j]
          /\ \A j \in Tasks : Starting(j)' <=> Starting(j)
        BY <2>1 DEF PoolType, Starting
    <2>5. ASSUME NEW j \in Tasks PROVE ExitOf(j)'
        <3>1. CASE j = i /\ Starting(i)
            BY <2>1, <2>2, <2>4, <3>1 DEF ExitOf, StateLost
        <3>2. CASE j = i /\ ~Starting(i)
            BY <2>1, <2>2, <2>4, <3>2 DEF ExitOf, StateKept, HasExited
        <3>3. CASE j # i
            BY <1>a, <2>1, <2>4, <3>3, ExitFrame
        <3> QED BY <3>1, <3>2, <3>3
    <2>6. ~HasExited(i) /\ ~HasExited(i)'
        BY <2>1, <2>4 DEF HasExited
    <2>7. \A j \in Tasks : HasExited(j)' <=> HasExited(j)
        BY <2>1, <2>4, <2>6 DEF HasExited
    <2>8. \A u \in Slots : QuitOf(u)'
        BY <1>0, <1>a, <2>1, <2>7 DEF QuitOf, Stale
    <2>9. \A j \in reaped' : ReapedOf(j)'
        BY <1>a, <2>1, <2>2, <2>4 DEF ReapedOf
    <2> QED BY <1>0, <1>a, <2>1, <2>3, <2>4, <2>5, <2>8, <2>9 DEF ExitInv, Starts
<1>25. ASSUME NEW i \in Tasks, pool_exit_quit(i) PROVE ExitInv'
    <2>1. /\ w[i] = "quit" /\ w' = [w EXCEPT ![i] = "gone"] /\ i # 0
          /\ UNCHANGED <<info, code, mpc, cur, hasty, late, reaped>>
        BY <1>0, <1>25 DEF pool_exit_quit, unchangedByTask, Move
    <2>2. ~(mpc = "exist" /\ slot[cur].task = i) /\ mpc # "destroyed" /\ i \notin reaped
        BY <1>a, <1>c, <2>1 DEF Live, ReapedOf
    <2>3. PICK s \in Slots : s = Own(i) /\ slot[s].task = i
        BY <2>1 DEF Own, SlotInv, Live
    <2>4. slot' = [slot EXCEPT ![s].quit = TRUE]
        BY <1>25, <2>3 DEF pool_exit_quit
    <2>5. /\ slot'[s].quit /\ slot'[s].task = slot[s].task /\ slot'[s].exist = slot[s].exist
          /\ \A u \in Slots \ {s} : slot'[u] = slot[u] /\ slot[u].task # i
        BY <1>0, <2>1, <2>3, <2>4 DEF PoolType, Slot
    <2>6. /\ w'[i] = "gone" /\ \A j \in Tasks \ {i} : w'[j] = w[j]
        BY <2>1 DEF PoolType
    <2>7. \A j \in Tasks : Starting(j)' <=> Starting(j)
        BY <1>0, <2>1, <2>5 DEF Starting, Starts
    <2>8. ASSUME NEW j \in Tasks PROVE ExitOf(j)'
        <3>1. CASE j = i
            BY <1>a, <2>1, <2>2, <2>6, <2>7, <3>1 DEF ExitOf, StateLost, StateKept, HasExited
        <3>2. CASE j # i
            BY <1>a, <2>1, <2>6, <2>7, <3>2, ExitFrame
        <3> QED BY <3>1, <3>2
    <2>9. ASSUME NEW u \in Slots, slot[u].exist PROVE QuitOf(u)'
        <3>1. CASE u = s
            BY <2>3, <2>5, <2>6, <3>1 DEF QuitOf, HasExited
        <3>2. CASE u # s
            BY <1>0, <1>a, <2>1, <2>5, <2>6, <2>9, <3>2, QuitFrame DEF Stale
        <3> QED BY <3>1, <3>2
    <2>10. \A u \in Slots : QuitOf(u)'
        BY <2>5, <2>9 DEF QuitOf
    <2>11. \A j \in reaped' : ReapedOf(j)'
        BY <1>a, <2>1, <2>2, <2>5, <2>6 DEF ReapedOf
    <2> QED BY <1>0, <1>a, <2>1, <2>2, <2>5, <2>6, <2>8, <2>10, <2>11 DEF ExitInv, Starts
<1>26. ASSUME NEW i \in Tasks, pool_exit_gone(i) PROVE ExitInv'
    <2>1. /\ w[i] = "gone" /\ w' = [w EXCEPT ![i] = "ended"] /\ i # 0 /\ code[i] \in Final
          /\ UNCHANGED <<info, code, mpc, cur, hasty, late>>
        BY <1>0, <1>a, <1>26 DEF pool_exit_gone, unchangedByTask, Move, ExitOf
    <2>2. ~(mpc = "exist" /\ slot[cur].task = i) /\ mpc # "destroyed" /\ i \notin reaped
        BY <1>a, <1>c, <2>1 DEF Live, ReapedOf
    <2>3. PICK s \in Slots : s = Own(i) /\ slot[s].task = i
        BY <2>1 DEF Own, SlotInv, Live
    <2>4. /\ slot' = [slot EXCEPT ![s].exist = @ /\ ~slot[s].detach]
          /\ reaped' = IF slot[s].detach THEN reaped \cup {i} ELSE reaped
        BY <1>26, <2>3 DEF pool_exit_gone
    <2>5. /\ slot'[s].quit = slot[s].quit /\ slot'[s].task = slot[s].task
          /\ slot'[s].exist = (slot[s].exist /\ ~slot[s].detach)
          /\ \A u \in Slots \ {s} : slot'[u] = slot[u] /\ slot[u].task # i
        BY <1>0, <2>1, <2>3, <2>4 DEF PoolType, Slot
    <2>6. /\ w'[i] = "ended" /\ \A j \in Tasks \ {i} : w'[j] = w[j]
        BY <2>1 DEF PoolType
    <2>7. \A j \in Tasks : Starting(j)' <=> Starting(j)
        BY <1>0, <2>1, <2>5 DEF Starting, Starts
    <2>8. \A j \in Tasks \ {i} : j \in reaped' <=> j \in reaped
        BY <2>4
    <2>9. ASSUME NEW j \in Tasks PROVE ExitOf(j)'
        <3>1. CASE j = i
            BY <1>a, <2>1, <2>2, <2>6, <2>7, <3>1 DEF ExitOf, StateLost, StateKept, HasExited
        <3>2. CASE j # i
            BY <1>a, <2>1, <2>6, <2>7, <2>8, <3>2, ExitFrame
        <3> QED BY <3>1, <3>2
    <2>10. \A j \in Tasks : HasExited(j)' <=> HasExited(j)
        BY <2>1, <2>6 DEF HasExited
    <2>11. \A u \in Slots : QuitOf(u)'
        BY <1>0, <1>a, <2>1, <2>5, <2>10 DEF QuitOf, Stale
    <2>13. \A u \in Slots : slot'[u].task = slot[u].task /\ (slot'[u].exist => slot[u].exist)
        BY <2>5
    <2>12. ASSUME NEW j \in reaped' PROVE ReapedOf(j)' /\ j \in Tasks
        <3>1. CASE j \in reaped
            BY <1>a, <2>2, <2>6, <2>13, <3>1 DEF ReapedOf
        <3>2. CASE j \notin reaped
            BY <2>3, <2>4, <2>5, <2>6, <2>12, <3>2 DEF ReapedOf
        <3> QED BY <3>1, <3>2
    <2> QED BY <1>0, <1>a, <2>1, <2>2, <2>5, <2>6, <2>8, <2>9, <2>11, <2>12 DEF ExitInv, Starts
<1>27. ASSUME NEW i \in Tasks, task_return(i) PROVE ExitInv'
    <2>1. /\ w[i] = "run" /\ w' = [w EXCEPT ![i] = "ended"]
          /\ UNCHANGED <<slot, info, mpc, cur, hasty, late, reaped>>
        BY <1>27 DEF task_return, unchangedByTask, Move
    <2>2. code'[i] \notin Final /\ \A j \in Tasks \ {i} : code'[j] = code[j]
        BY <1>27 DEF task_return, PoolType, Final
    <2> QED BY <2>1, <2>2, ExitMoves
<1>28. ASSUME NEW i \in Tasks, task_killed(i) PROVE ExitInv'
    <2>1. /\ w[i] = "run" /\ w' = [w EXCEPT ![i] = "ended"]
          /\ UNCHANGED <<slot, info, mpc, cur, hasty, late, reaped>>
        BY <1>28 DEF task_killed, unchangedByTask, Move
    <2>2. code'[i] \notin Final /\ \A j \in Tasks \ {i} : code'[j] = code[j]
        BY <1>28 DEF task_killed, PoolType, Final
    <2> QED BY <2>1, <2>2, ExitMoves
<1>29. CASE UNCHANGED vars
    <2>1. /\ UNCHANGED <<slot, info, mpc, cur, w, code, hasty, late, reaped>>
        BY <1>29 DEF vars
    <2>2. \A j \in Tasks : ExitOf(j)'
        BY <1>a, <2>1 DEF ExitOf, StateLost, StateKept, HasExited, Starting
    <2>3. \A u \in Slots : QuitOf(u)'
        BY <1>a, <2>1 DEF QuitOf, HasExited, Stale
    <2>4. \A j \in reaped' : ReapedOf(j)'
        BY <1>a, <2>1 DEF ReapedOf
    <2> QED BY <1>a, <2>1, <2>2, <2>3, <2>4 DEF ExitInv
<1> QED
    BY <1>1, <1>2, <1>3, <1>4, <1>5, <1>6, <1>7, <1>8, <1>9, <1>10, <1>11,
       <1>12, <1>13, <1>14, <1>15, <1>16, <1>17, <1>18, <1>19, <1>20, <1>21,
       <1>22, <1>23, <1>24, <1>25, <1>26, <1>27, <1>28, <1>29
    DEF Next, Controller, Control, pool_start, pool_clear, Task, task_step, pool_exit

(* FreedInv is kept, and with it no freed info is written to, as long as   *)
(* nobody suspends or resumes: task_suspend stores into t->info whatever   *)
(* became of it.                                                           *)
LEMMA FreedStep ==
    ASSUME PoolAssumption, PoolType, SlotInv, FreedInv, [Next]_vars,
           Controls \cap {"suspend", "resume"} = {}
    PROVE  /\ FreedInv'
           /\ \A i \in 1..started : info[i] = "freed" => info'[i] = "freed"
<1> DEFINE Kept == \A i \in 1..started : info[i] = "freed" => info'[i] = "freed"
<1> USE DEF PoolType, SlotInv, FreedInv, Ready, Finished, Live, Slot, Starts, Codes, Final
<1>1. CASE pool_start_create
    <2> DEFINE n == started + 1
               f == pool_find
    <2>1. n \in Tasks /\ n > started /\ f \in Slots /\ ~slot[f].exist
        BY <1>1, FindFacts DEF pool_start_create, Tasks, PoolAssumption
    <2>2. /\ slot' = [slot EXCEPT ![f].task = n] /\ w' = [w EXCEPT ![n] = "run"]
          /\ info' = [info EXCEPT ![n] = "RUNNING"] /\ started' = n
          /\ cur' = f /\ mpc = "idle" /\ mpc' = "exist" /\ code' = code
        BY <1>1 DEF pool_start_create
    <2>3. 1..started' = 1..started \cup {n} /\ 1..started \subseteq Tasks \ {n}
        BY <2>1, <2>2 DEF Tasks, PoolAssumption
    <2> HIDE DEF n, f
    <2>4. slot'[f].task = n /\ ~slot'[f].exist
        BY <2>1, <2>2
    <2>5. \A u \in Slots \ {f} : slot'[u] = slot[u] /\ slot[u].task # n
        BY <2>1, <2>2
    <2>6. \A j \in Tasks \ {n} : w'[j] = w[j] /\ info'[j] = info[j]
        BY <2>2
    <2>7. w'[n] = "run" /\ info'[n] = "RUNNING"
        BY <2>1, <2>2
    <2>8. Kept
        BY <2>3, <2>6
    <2>9. \A j \in 1..started' : /\ w'[j] # "none"
                                 /\ Ready(j)' => w'[j] \in {"quit", "gone", "ended"}
        BY <2>3, <2>6, <2>7
    <2>10. ASSUME NEW u \in Slots, slot'[u].exist, Ready(slot[u].task)'
           PROVE  slot'[u].quit \/ w'[slot'[u].task] = "quit"
        <3>1. u # f /\ slot[u].exist /\ slot[u].task \in Tasks \ {n}
            BY <2>4, <2>5, <2>10 DEF Tasks, PoolAssumption
        <3> QED BY <2>2, <2>5, <2>6, <2>10, <3>1
    <2>11. \A j \in Tasks : w'[j] \in {"exit", "state", "quit", "gone"} => code'[j] \in Final
        BY <2>2, <2>6, <2>7
    <2>12. info'[slot'[cur'].task] # "freed"
        BY <2>2, <2>4, <2>7
    <2> QED BY <2>2, <2>4, <2>5, <2>8, <2>9, <2>10, <2>11, <2>12
<1>2. CASE pool_start_exist
    BY <1>2 DEF pool_start_exist, infos, tasks, early
<1>3. CASE pool_start_flags
    BY <1>3 DEF pool_start_flags, infos, tasks, early
<1>4. CASE pool_start_put
    BY <1>4 DEF pool_start_put, infos, tasks, early
<1>5. CASE pool_start_running
    <2> DEFINE t == slot[cur].task
    <2>1. /\ mpc = "running" /\ mpc' = "clear" /\ info' = [info EXCEPT ![t] = "RUNNING"]
          /\ UNCHANGED <<slot, started, cur, w, code>> /\ info[t] # "freed"
          /\ cur \in Slots /\ t \in Tasks
        BY <1>5 DEF pool_start_running, tasks, early, Tasks, PoolAssumption
    <2>2. 1..started \subseteq Tasks
        BY DEF Tasks, PoolAssumption
    <2>3. \A u \in Slots \ {cur} : slot[u].task # t
        BY <2>1 DEF Tasks
    <2> HIDE DEF t
    <2>4. info'[t] = "RUNNING" /\ \A j \in Tasks \ {t} : info'[j] = info[j]
        BY <2>1
    <2>5. Kept
        BY <2>1, <2>2, <2>4
    <2>6. \A j \in 1..started : Ready(j)' => Ready(j)
        BY <2>2, <2>4
    <2>7. ASSUME NEW u \in Slots, slot[u].exist, info'[slot[u].task] \in {"freed", "FAILURE", "SUCCESS"}
          PROVE  slot[u].quit \/ w[slot[u].task] = "quit"
        <3>1. u # cur /\ slot[u].task \in Tasks \ {t}
            BY <2>1, <2>3, <2>4, <2>7 DEF Tasks, PoolAssumption, t
        <3> QED BY <2>1, <2>4, <2>7, <3>1
    <2> QED BY <2>1, <2>5, <2>6, <2>7
<1>6. CASE pool_clear_begin
    BY <1>6 DEF pool_clear_begin, infos, tasks, early
<1>7. CASE pool_clear_ti
    <2>1. \A j \in Tasks : info'[j] = info[j] \/ (Finished(j) /\ info'[j] = "freed")
        BY <1>7 DEF pool_clear_ti
    <2>2. UNCHANGED <<slot, mpc, cur, started, w, code>> /\ mpc \notin Starts
        BY <1>7 DEF pool_clear_ti, tasks, early
    <2>3. 1..started \subseteq Tasks
        BY DEF Tasks, PoolAssumption
    <2>4. \A j \in Tasks : Ready(j)' => Ready(j)
        BY <2>1
    <2>5. \A s \in Slots : slot[s].exist => slot[s].task \in Tasks
        BY DEF Tasks, PoolAssumption
    <2> QED BY <2>1, <2>2, <2>3, <2>4, <2>5
<1>8. CASE pool_clear_taskinfo
    <2>1. \A j \in Tasks : info'[j] = info[j] \/ (Finished(j) /\ info'[j] = "freed")
        BY <1>8 DEF pool_clear_taskinfo
    <2>2. UNCHANGED <<slot, mpc, cur, started, w, code>> /\ mpc \notin Starts
        BY <1>8 DEF pool_clear_taskinfo, tasks, early
    <2>3. 1..started \subseteq Tasks
        BY DEF Tasks, PoolAssumption
    <2>4. \A j \in Tasks : Ready(j)' => Ready(j)
        BY <2>1
    <2>5. \A s \in Slots : slot[s].exist => slot[s].task \in Tasks
        BY DEF Tasks, PoolAssumption
    <2> QED BY <2>1, <2>2, <2>3, <2>4, <2>5
<1>9. CASE pool_clear_end
    BY <1>9 DEF pool_clear_end, infos, tasks, early
<1>10. CASE pool_func_next
    BY <1>10 DEF pool_func_next, infos, tasks, early
<1>11. CASE pool_join
    <2> DEFINE i == slot[cur].task
    <2>1. /\ cur \in Slots /\ slot[cur].exist /\ i \in Tasks /\ w[i] = "ended"
          /\ mpc = "join" /\ mpc' = "join"
        BY <1>11 DEF pool_join, Slots, Tasks, PoolAssumption
    <2>2. /\ slot' = [slot EXCEPT ![cur].exist = FALSE]
          /\ info' = IF slot[cur].quit THEN info ELSE [info EXCEPT ![i] = "SUCCESS"]
          /\ UNCHANGED <<started, w, code>>
        BY <1>11 DEF pool_join, tasks, early
    <2>3. 1..started \subseteq Tasks
        BY DEF Tasks, PoolAssumption
    <2>4. ~slot[cur].quit => ~Ready(i)
        BY <2>1
    <2>5. \A u \in Slots \ {cur} : slot'[u] = slot[u] /\ slot[u].task # i
        BY <2>1, <2>2 DEF Tasks
    <2>6. ~slot'[cur].exist
        BY <2>1, <2>2
    <2>7. \A j \in Tasks \ {i} : info'[j] = info[j]
        BY <2>2
    <2>8. info' = info \/ ~Ready(i)
        BY <2>2, <2>4
    <2> HIDE DEF i
    <2>9. Kept
        BY <2>3, <2>7, <2>8
    <2>10. \A j \in 1..started : Ready(j)' => Ready(j) \/ j = i
        BY <2>3, <2>7
    <2>11. ASSUME NEW u \in Slots, slot'[u].exist,
                  info'[slot[u].task] \in {"freed", "FAILURE", "SUCCESS"}
           PROVE  slot[u].quit \/ w[slot[u].task] = "quit"
        <3>1. u # cur /\ slot[u].exist /\ slot[u].task \in Tasks \ {i}
            BY <2>5, <2>6, <2>11 DEF Tasks, PoolAssumption
        <3> QED BY <2>1, <2>7, <2>11, <3>1
    <2> QED BY <2>1, <2>2, <2>5, <2>6, <2>9, <2>10, <2>11
<1>12. CASE pool_detach
    BY <1>12 DEF pool_detach, infos, tasks, early
<1>13. CASE pool_kill
    BY <1>13 DEF pool_kill, infos, tasks, early
<1>14. CASE pool_func_begin
    BY <1>14 DEF pool_func_begin, infos, tasks, early
<1>15. CASE pool_destroy
    <2>1. \A j \in Tasks : info'[j] \in {info[j], "freed"}
        BY <1>15 DEF pool_destroy
    <2>2. /\ 1..started \subseteq Tasks /\ mpc = "idle" /\ mpc' = "destroyed"
          /\ \A j \in Tasks : w[j] \in {"none", "ended"}
          /\ UNCHANGED <<slot, started, w, code>>
        BY <1>15 DEF pool_destroy, tasks, early, Tasks, PoolAssumption
    <2> QED BY <2>1, <2>2
<1>16. ASSUME NEW s \in Slots, task_suspend(s) PROVE FreedInv' /\ Kept
    BY <1>16 DEF task_suspend, infos, Handle
<1>17. ASSUME NEW s \in Slots, task_resume(s) PROVE FreedInv' /\ Kept
    BY <1>17 DEF task_resume, infos, Handle
<1>18. ASSUME NEW s \in Slots, task_cancel(s) PROVE FreedInv' /\ Kept
    BY <1>18 DEF task_cancel, infos, Handle
<1>19. ASSUME NEW i \in Tasks, task_step_begin(i) PROVE FreedInv' /\ Kept
    BY <1>19 DEF task_step_begin, unchangedByTask, Move
<1>20. ASSUME NEW i \in Tasks, task_step_pause(i) PROVE FreedInv' /\ Kept
    BY <1>20 DEF task_step_pause, unchangedByTask, Move
<1>21. ASSUME NEW i \in Tasks, task_step_cancel(i) PROVE FreedInv' /\ Kept
    BY <1>21 DEF task_step_cancel, unchangedByTask, Move
<1>22. ASSUME NEW i \in Tasks, pool_exit_call(i) PROVE FreedInv' /\ Kept
    BY <1>22 DEF pool_exit_call, unchangedByTask, Move
<1>23. ASSUME NEW i \in Tasks, pool_exit_find(i) PROVE FreedInv' /\ Kept
    BY <1>23 DEF pool_exit_find, unchangedByTask, Move
<1>24. ASSUME NEW i \in Tasks, pool_exit_state(i) PROVE FreedInv' /\ Kept
    BY <1>24 DEF pool_exit_state, unchangedByTask, Move
<1>25. ASSUME NEW i \in Tasks, pool_exit_quit(i) PROVE FreedInv' /\ Kept
    <2>1. /\ w[i] = "quit" /\ w' = [w EXCEPT ![i] = "gone"] /\ i # 0
          /\ UNCHANGED <<info, code, mpc, cur, started>>
        BY <1>25 DEF pool_exit_quit, Move, unchangedByTask, Tasks
    <2>2. PICK s \in Slots : s = Own(i) /\ slot[s].task = i
        BY <2>1 DEF Own
    <2>3. slot' = [slot EXCEPT ![s].quit = TRUE]
        BY <1>25, <2>2 DEF pool_exit_quit
    <2>4. slot'[s].task = i /\ slot'[s].quit
        BY <2>2, <2>3
    <2>5. \A u \in Slots \ {s} : slot'[u] = slot[u] /\ slot[u].task # i
        BY <2>1, <2>2, <2>3
    <2>6. \A u \in Slots : slot'[u].task = slot[u].task /\ slot'[u].exist = slot[u].exist
        BY <2>3
    <2>7. ASSUME NEW u \in Slots \ {s}, slot[u].exist
          PROVE  w'[slot[u].task] = w[slot[u].task]
        BY <2>1, <2>5, <2>7
    <2>8. \A j \in Tasks : w'[j] \in {"exit", "state", "quit", "gone"} => code[j] \in Final
        BY <2>1
    <2>9. \A j \in 1..started : /\ w'[j] # "none"
                                /\ Ready(j) => w'[j] \in {"quit", "gone", "ended"}
        BY <2>1
    <2> QED BY <2>1, <2>4, <2>5, <2>6, <2>7, <2>8, <2>9
<1>26. ASSUME NEW i \in Tasks, pool_exit_gone(i) PROVE FreedInv' /\ Kept
    BY <1>26 DEF pool_exit_gone, unchangedByTask, Move
<1>27. ASSUME NEW i \in Tasks, task_return(i) PROVE FreedInv' /\ Kept
    BY <1>27 DEF task_return, unchangedByTask, Move
<1>28. ASSUME NEW i \in Tasks, task_killed(i) PROVE FreedInv' /\ Kept
    BY <1>28 DEF task_killed, unchangedByTask, Move
<1>29. CASE UNCHANGED vars
    BY <1>29 DEF vars
<1> QED
    BY <1>1, <1>2, <1>3, <1>4, <1>5, <1>6, <1>7, <1>8, <1>9, <1>10, <1>11,
       <1>12, <1>13, <1>14, <1>15, <1>16, <1>17, <1>18, <1>19, <1>20, <1>21,
       <1>22, <1>23, <1>24, <1>25, <1>26, <1>27, <1>28, <1>29
    DEF Next, Controller, Control, pool_start, pool_clear, Task, task_step, pool_exit

-----------------------------------------------------------------------------
LEMMA PoolInit ==
    ASSUME PoolAssumption, Init
    PROVE  PoolType /\ SlotInv /\ CancelInv /\ ExitInv /\ FreedInv
<1> USE DEF Init, PoolAssumption
<1>1. PoolType
    BY DEF PoolType, Slot, Slots, Tasks, InfoState, TaskPlaces, Codes, Final
<1>2. SlotInv
    BY DEF SlotInv, Live, Starts
<1>3. CancelInv
    BY DEF CancelInv, CancelWasAsked
<1>4. ExitInv
    BY DEF ExitInv, ExitOf, StateKept, StateLost, QuitOf, ReapedOf, HasExited
<1>5. FreedInv
    BY DEF FreedInv, Starts
<1> QED BY <1>1, <1>2, <1>3, <1>4, <1>5

LEMMA SlotsInvariance == Spec => [](PoolType /\ SlotInv)
<1> USE PoolAssumption
<1>1. Init => PoolType /\ SlotInv
    BY PoolInit
<1>2. PoolType /\ SlotInv /\ [Next]_vars => (PoolType /\ SlotInv)'
    BY TypeStep, SlotStep
<1> QED BY <1>1, <1>2, PTL DEF Spec

(* The slot of a thread that runs is not given away, whatever the          *)
(* controller does and however early a new thread starts (pool_find).      *)
THEOREM PoolSlotsKept == Spec => []SlotNotStolen
<1>1. SlotInv => SlotNotStolen
    BY DEF SlotInv, SlotNotStolen
<1> QED BY <1>1, SlotsInvariance, PTL

(* A task ends as cancelled only if it was cancelled itself, or took the   *)
(* request to the last task of its slot for its own before pool_start reset*)
(* it (task_step, pool_start).                                             *)
THEOREM PoolCancelsAsked == Spec => []CancelWasAsked
<1> USE PoolAssumption
<1>1. Init => CancelInv
    BY PoolInit
<1>2. PoolType /\ SlotInv /\ CancelInv /\ [Next]_vars => CancelInv'
    BY CancelStep
<1>3. CancelInv => CancelWasAsked
    BY DEF CancelInv
<1> QED BY <1>1, <1>2, <1>3, SlotsInvariance, PTL DEF Spec

LEMMA ExitInvariance == Spec => []ExitInv
<1> USE PoolAssumption
<1>1. Init => ExitInv
    BY PoolInit
<1>2. PoolType /\ SlotInv /\ ExitInv /\ [Next]_vars => ExitInv'
    BY ExitStep
<1> QED BY <1>1, <1>2, SlotsInvariance, PTL DEF Spec

(* The info of a task whose slot was given back says how the task ended,   *)
(* unless it exits before pool_start is over: then it never does           *)
(* (pool_exit, pool_join, pool_start).                                     *)
THEOREM PoolExitStates == Spec => []ExitStateKept
<1>1. ExitInv => ExitStateKept
    BY DEF ExitInv, ExitOf, ExitStateKept, StateKept, StateLost, ReapedOf, HasExited
<1> QED BY <1>1, ExitInvariance, PTL

LEMMA FreedInvariance ==
    ASSUME Controls \cap {"suspend", "resume"} = {}
    PROVE  Spec => []FreedInv
<1> USE PoolAssumption
<1>1. Init => FreedInv
    BY PoolInit
<1>2. PoolType /\ SlotInv /\ FreedInv /\ [Next]_vars => FreedInv'
    BY FreedStep
<1> QED BY <1>1, <1>2, SlotsInvariance, PTL DEF Spec

(* Nobody writes into an info that pool_clear freed, if nobody suspends or *)
(* resumes a task (pool_exit, pool_join, pool_clear).                      *)
THEOREM PoolFreedStays ==
    ASSUME Controls \cap {"suspend", "resume"} = {}
    PROVE  Spec => FreedStaysFreed
<1> USE PoolAssumption
<1>1. PoolType /\ SlotInv /\ FreedInv /\ [Next]_vars =>
            [\A i \in 1..started : info[i] = "freed" => info'[i] = "freed"]_vars
    BY FreedStep
<1> QED BY <1>1, FreedInvariance, SlotsInvariance, PTL DEF Spec, FreedStaysFreed

-----------------------------------------------------------------------------
(* Queues without repetition.                                              *)
LEMMA HeadTail ==
    ASSUME NEW S, NEW q \in Seq(S), q # <<>>, IsInjective(q)
    PROVE  /\ Head(q) \in S /\ Tail(q) \in Seq(S) /\ IsInjective(Tail(q))
           /\ Head(q) \in ToSet(q) /\ ToSet(Tail(q)) = ToSet(q) \ {Head(q)}
<1>1. Head(q) \in S /\ Tail(q) \in Seq(S) /\ Head(q) = q[1] /\ Len(q) \in Nat \ {0}
    OBVIOUS
<1>2. \A k \in 1..Len(Tail(q)) : k + 1 \in 1..Len(q) /\ Tail(q)[k] = q[k + 1]
    OBVIOUS
<1>3. \A k \in 1..Len(q) : k = 1 \/ (k - 1 \in 1..Len(Tail(q)) /\ Tail(q)[k - 1] = q[k])
    BY <1>1
<1>4. IsInjective(Tail(q))
    BY <1>1, <1>2 DEF IsInjective
<1>5. Head(q) \in ToSet(q)
    BY <1>1 DEF ToSet
<1>6. ToSet(Tail(q)) \subseteq ToSet(q) \ {Head(q)}
    BY <1>1, <1>2 DEF ToSet, IsInjective
<1>7. ToSet(q) \ {Head(q)} \subseteq ToSet(Tail(q))
    <2> SUFFICES ASSUME NEW k \in 1..Len(q), q[k] # q[1] PROVE q[k] \in ToSet(Tail(q))
        BY <1>1 DEF ToSet
    <2>1. k - 1 \in 1..Len(Tail(q)) /\ Tail(q)[k - 1] = q[k]
        BY <1>3
    <2>2. k - 1 \in DOMAIN Tail(q)
        BY <1>1, <2>1
    <2> QED BY <2>1, <2>2 DEF ToSet
<1> QED BY <1>1, <1>4, <1>5, <1>6, <1>7

LEMMA AppendNew ==
    ASSUME NEW S, NEW q \in Seq(S), NEW e \in S, e \notin ToSet(q), IsInjective(q)
    PROVE  /\ Append(q, e) \in Seq(S) /\ IsInjective(Append(q, e))
           /\ ToSet(Append(q, e)) = ToSet(q) \cup {e}
<1>1. /\ Append(q, e) \in Seq(S) /\ Len(Append(q, e)) = Len(q) + 1
      /\ Append(q, e)[Len(q) + 1] = e
      /\ \A k \in 1..Len(q) : Append(q, e)[k] = q[k]
    OBVIOUS
<1>2. \A k \in 1..Len(q) : q[k] # e
    BY DEF ToSet
<1>3. IsInjective(Append(q, e))
    BY <1>1, <1>2 DEF IsInjective
<1>4. ToSet(Append(q, e)) = ToSet(q) \cup {e}
    BY <1>1 DEF ToSet
<1> QED BY <1>1, <1>3, <1>4

LEMMA JoinNew ==
    ASSUME NEW S, NEW p \in Seq(S), NEW q \in Seq(S), IsInjective(p), IsInjective(q),
           ToSet(p) \cap ToSet(q) = {}
    PROVE  /\ p \o q \in Seq(S) /\ IsInjective(p \o q)
           /\ ToSet(p \o q) = ToSet(p) \cup ToSet(q)
<1>1. /\ p \o q \in Seq(S) /\ Len(p \o q) = Len(p) + Len(q)
      /\ \A k \in 1..Len(p) : (p \o q)[k] = p[k]
      /\ \A k \in (Len(p) + 1)..(Len(p) + Len(q)) :
            k - Len(p) \in 1..Len(q) /\ (p \o q)[k] = q[k - Len(p)]
      /\ Len(p) \in Nat /\ Len(q) \in Nat
    OBVIOUS
<1>2. \A k \in 1..Len(p), l \in 1..Len(q) : p[k] # q[l]
    BY DEF ToSet
<1>3. IsInjective(p \o q)
    <2> SUFFICES ASSUME NEW k \in 1..(Len(p) + Len(q)), NEW l \in 1..(Len(p) + Len(q)),
                        (p \o q)[k] = (p \o q)[l]
                 PROVE  k = l
        BY <1>1 DEF IsInjective
    <2>1. CASE k \in 1..Len(p) /\ l \in 1..Len(p)
        BY <1>1, <2>1 DEF IsInjective
    <2>2. CASE k \notin 1..Len(p) /\ l \notin 1..Len(p)
        BY <1>1, <2>2 DEF IsInjective
    <2>3. CASE (k \in 1..Len(p)) # (l \in 1..Len(p))
        BY <1>1, <1>2, <2>3
    <2> QED BY <2>1, <2>2, <2>3
<1>4. ToSet(p \o q) \subseteq ToSet(p) \cup ToSet(q)
    BY <1>1 DEF ToSet
<1>5. ToSet(p) \subseteq ToSet(p \o q)
    BY <1>1 DEF ToSet
<1>6. ToSet(q) \subseteq ToSet(p \o q)
    <2>1. \A l \in 1..Len(q) : /\ l + Len(p) \in 1..(Len(p) + Len(q))
                               /\ (p \o q)[l + Len(p)] = q[l]
        BY <1>1
    <2> QED BY <1>1, <2>1, SMTT(40) DEF ToSet
<1> QED BY <1>1, <1>3, <1>4, <1>5, <1>6

-----------------------------------------------------------------------------
(* What TypeOK says of the infos, their queues and the sets of tasks, and  *)
(* why a task that is about to store its state has one to store.           *)
InfoTypes ==
    /\ info \in [Tasks -> Final \cup {"RUNNING", "PAUSE", "freed"}]
    /\ taskinfo \in Seq(Tasks) /\ ti \in [{1, 2} -> Seq(Tasks)] /\ src \in {1, 2}
    /\ mpc \in {"idle", "exist", "flags", "put", "running", "clear", "clear_ti",
                "clear_taskinfo", "join", "detach", "kill", "destroyed"}
    /\ killed \subseteq Tasks /\ reaped \subseteq Tasks /\ late \subseteq Tasks
    /\ \A i \in Tasks : w[i] \in {"exit", "state", "quit", "gone"} => code[i] \in Final

(* The queues of infos are empty sequences at first and after pool_destroy.*)
LEMMA NoInfos ==
    ASSUME NEW q, q = <<<<>>, <<>>>>
    PROVE  q \in [{1, 2} -> Seq(Tasks)] /\ <<>> \in Seq(Tasks)
<1>1. <<>> \in Seq(Tasks)
    OBVIOUS
<1>2. \A k \in {1, 2} : q[k] = <<>>
    OBVIOUS
<1>3. q = [k \in {1, 2} |-> q[k]]
    OBVIOUS
<1> QED BY <1>1, <1>2, <1>3

(* A pair of queues stays one, whatever is stored.                         *)
LEMMA TwoStores ==
    ASSUME NEW S, NEW q \in [{1, 2} -> S], NEW x, NEW y, NEW a \in S, NEW b \in S
    PROVE  [q EXCEPT ![x] = a] \in [{1, 2} -> S] /\ [q EXCEPT ![x] = a, ![y] = b] \in [{1, 2} -> S]
OBVIOUS

(* Only infos that pool_start made are queued, and none but final states   *)
(* are stored into them.                                                   *)
LEMMA InfoTypesStep ==
    ASSUME PoolAssumption, PoolType, SlotInv, InfoTypes, [Next]_vars
    PROVE  InfoTypes'
<1>0. /\ InfoTypes /\ w \in [Tasks -> TaskPlaces] /\ code \in [Tasks -> Codes]
      /\ \A s \in Slots : slot[s].exist => slot[s].task \in Tasks
      /\ mpc \in Starts => slot[cur].task \in Tasks
      /\ Slots = 1..Num /\ Num \in Nat /\ cur \in 1..(Num + 1)
  <2>1. \A s \in Slots : slot[s].task \in 0..MaxStarts
    BY DEF PoolType, Slot
  <2>2. \A n \in 0..MaxStarts : n # 0 => n \in Tasks
    BY DEF Tasks, PoolAssumption
  <2> QED BY <2>1, <2>2 DEF PoolType, SlotInv, Slots, PoolAssumption
<1> USE DEF InfoTypes, Final, TaskPlaces, Codes, Starts
<1>1. CASE pool_start_create
    <2>1. started + 1 \in Tasks
        BY <1>1 DEF pool_start_create, Tasks, PoolAssumption, PoolType
    <2> QED BY <1>1, <1>0, <2>1 DEF pool_start_create, infos
<1>2. CASE pool_start_exist
    BY <1>2, <1>0 DEF pool_start_exist, infos, tasks, early
<1>3. CASE pool_start_flags
    BY <1>3, <1>0 DEF pool_start_flags, infos, tasks, early
<1>4. CASE pool_start_put
    <2>1. taskinfo' \in Seq(Tasks)
        BY <1>4, <1>0 DEF pool_start_put
    <2> QED BY <1>4, <1>0, <2>1 DEF pool_start_put, infos, tasks, early
<1>5. CASE pool_start_running
    BY <1>5, <1>0 DEF pool_start_running, infos, tasks, early
<1>6. CASE pool_clear_begin
    BY <1>6, <1>0 DEF pool_clear_begin, infos, tasks, early
<1>7. CASE pool_clear_ti
    <2>1. /\ ti[src] \in Seq(Tasks) /\ ti[src] # <<>> /\ ti[3 - src] \in Seq(Tasks)
          /\ 3 - src \in {1, 2}
        BY <1>7, <1>0 DEF pool_clear_ti
    <2>2. Head(ti[src]) \in Tasks /\ Tail(ti[src]) \in Seq(Tasks)
        BY <2>1
    <2>3. Append(ti[3 - src], Head(ti[src])) \in Seq(Tasks)
        BY <2>1, <2>2
    <2>4. \/ ti' = [ti EXCEPT ![src] = Tail(ti[src])]
          \/ ti' = [ti EXCEPT ![src] = Tail(ti[src]),
                             ![3 - src] = Append(ti[3 - src], Head(ti[src]))]
        BY <1>7, <2>1 DEF pool_clear_ti
    <2>5. ti' \in [{1, 2} -> Seq(Tasks)]
        <3> DEFINE S == Seq(Tasks)
                   a == Tail(ti[src])
                   b == Append(ti[3 - src], Head(ti[src]))
        <3>1. ti \in [{1, 2} -> S] /\ a \in S /\ b \in S
            BY <1>0, <2>2, <2>3
        <3>2. ti' = [ti EXCEPT ![src] = a] \/ ti' = [ti EXCEPT ![src] = a, ![3 - src] = b]
            BY <2>4
        <3> HIDE DEF S, a, b
        <3>3. ti' \in [{1, 2} -> S]
            BY <3>1, <3>2, TwoStores
        <3> QED BY <3>3 DEF S
    <2>6. info' \in {info, [info EXCEPT ![Head(ti[src])] = "freed"]}
        BY <1>7 DEF pool_clear_ti
    <2>7. info' \in [Tasks -> Final \cup {"RUNNING", "PAUSE", "freed"}]
        BY <1>0, <2>6
    <2> QED BY <1>7, <1>0, <2>5, <2>7 DEF pool_clear_ti, tasks, early
<1>8. CASE pool_clear_taskinfo
    <2>1. taskinfo \in Seq(Tasks) /\ taskinfo # <<>> /\ 3 - src \in {1, 2}
        BY <1>8, <1>0 DEF pool_clear_taskinfo, PoolAssumption
    <2>2. Head(taskinfo) \in Tasks /\ Tail(taskinfo) \in Seq(Tasks)
        BY <2>1
    <2>3. Append(ti[3 - src], Head(taskinfo)) \in Seq(Tasks)
        BY <1>0, <2>1, <2>2
    <2>4. ti' \in {ti, [ti EXCEPT ![3 - src] = Append(ti[3 - src], Head(taskinfo))]}
        BY <1>8, <1>0, <2>1 DEF pool_clear_taskinfo
    <2>5. ti' \in [{1, 2} -> Seq(Tasks)]
        <3> DEFINE S == Seq(Tasks)
                   b == Append(ti[3 - src], Head(taskinfo))
        <3>1. ti \in [{1, 2} -> S] /\ b \in S /\ ti' \in {ti, [ti EXCEPT ![3 - src] = b]}
            BY <1>0, <2>3, <2>4
        <3> HIDE DEF S, b
        <3>2. ti' \in [{1, 2} -> S]
            BY <3>1, TwoStores
        <3> QED BY <3>2 DEF S
    <2>6. info' \in {info, [info EXCEPT ![Head(taskinfo)] = "freed"]}
        BY <1>8 DEF pool_clear_taskinfo
    <2>7. info' \in [Tasks -> Final \cup {"RUNNING", "PAUSE", "freed"}]
        BY <1>0, <2>6
    <2> QED BY <1>8, <1>0, <2>2, <2>5, <2>7 DEF pool_clear_taskinfo, tasks, early
<1>9. CASE pool_clear_end
    BY <1>9, <1>0 DEF pool_clear_end, infos, tasks, early
<1>10. CASE pool_func_next
    BY <1>10, <1>0 DEF pool_func_next, infos, tasks, early
<1>11. CASE pool_join
    <2>1. cur \in Slots /\ slot[cur].task \in Tasks
        BY <1>11, <1>0 DEF pool_join
    <2> QED BY <1>11, <1>0, <2>1 DEF pool_join, infos, tasks, early
<1>12. CASE pool_detach
    BY <1>12, <1>0 DEF pool_detach, infos, tasks, early
<1>13. CASE pool_kill
    <2>1. cur \in Slots /\ slot[cur].task \in Tasks
        BY <1>13, <1>0 DEF pool_kill
    <2> QED BY <1>13, <1>0, <2>1 DEF pool_kill, infos
<1>14. CASE pool_func_begin
    BY <1>14, <1>0 DEF pool_func_begin, infos, tasks, early
<1>15. CASE pool_destroy
    <2>1. ti' \in [{1, 2} -> Seq(Tasks)] /\ taskinfo' \in Seq(Tasks)
        BY <1>15, NoInfos DEF pool_destroy
    <2> QED BY <1>15, <1>0, <2>1 DEF pool_destroy, tasks, early
<1>16. ASSUME NEW s \in Slots, task_suspend(s) PROVE InfoTypes'
    BY <1>16, <1>0 DEF task_suspend, infos, Handle, Ended
<1>17. ASSUME NEW s \in Slots, task_resume(s) PROVE InfoTypes'
    BY <1>17, <1>0 DEF task_resume, infos, Handle, Ended
<1>18. ASSUME NEW s \in Slots, task_cancel(s) PROVE InfoTypes'
    BY <1>18, <1>0 DEF task_cancel, infos, Handle
<1>19. ASSUME NEW i \in Tasks, task_step_begin(i) PROVE InfoTypes'
    BY <1>19, <1>0 DEF task_step_begin, unchangedByTask, Move
<1>20. ASSUME NEW i \in Tasks, task_step_pause(i) PROVE InfoTypes'
    BY <1>20, <1>0 DEF task_step_pause, unchangedByTask, Move
<1>21. ASSUME NEW i \in Tasks, task_step_cancel(i) PROVE InfoTypes'
    BY <1>21, <1>0 DEF task_step_cancel, unchangedByTask, Move
<1>22. ASSUME NEW i \in Tasks, pool_exit_call(i) PROVE InfoTypes'
    BY <1>22, <1>0 DEF pool_exit_call, unchangedByTask, Move
<1>23. ASSUME NEW i \in Tasks, pool_exit_find(i) PROVE InfoTypes'
    BY <1>23, <1>0 DEF pool_exit_find, unchangedByTask, Move
<1>24. ASSUME NEW i \in Tasks, pool_exit_state(i) PROVE InfoTypes'
    BY <1>24, <1>0 DEF pool_exit_state, unchangedByTask, Move
<1>25. ASSUME NEW i \in Tasks, pool_exit_quit(i) PROVE InfoTypes'
    BY <1>25, <1>0 DEF pool_exit_quit, unchangedByTask, Move
<1>26. ASSUME NEW i \in Tasks, pool_exit_gone(i) PROVE InfoTypes'
    BY <1>26, <1>0 DEF pool_exit_gone, unchangedByTask, Move
<1>27. ASSUME NEW i \in Tasks, task_return(i) PROVE InfoTypes'
    BY <1>27, <1>0 DEF task_return, unchangedByTask, Move
<1>28. ASSUME NEW i \in Tasks, task_killed(i) PROVE InfoTypes'
    BY <1>28, <1>0 DEF task_killed, unchangedByTask, Move
<1>29. CASE UNCHANGED vars
    BY <1>29, <1>0 DEF vars
<1> QED
    BY <1>1, <1>2, <1>3, <1>4, <1>5, <1>6, <1>7, <1>8, <1>9, <1>10, <1>11,
       <1>12, <1>13, <1>14, <1>15, <1>16, <1>17, <1>18, <1>19, <1>20, <1>21,
       <1>22, <1>23, <1>24, <1>25, <1>26, <1>27, <1>28, <1>29
    DEF Next, Controller, Control, pool_start, pool_clear, Task, task_step, pool_exit

(* The state words of infos are those of enum task_state that pool.c       *)
(* stores, queues hold started tasks only, whatever the controller does    *)
(* and however early a new thread runs (all of pool.c).                    *)
THEOREM PoolTypes == Spec => []TypeOK
<1> USE PoolAssumption
<1>1. Init => InfoTypes
    <2> SUFFICES ASSUME Init PROVE InfoTypes
        OBVIOUS
    <2>1. ti \in [{1, 2} -> Seq(Tasks)] /\ taskinfo \in Seq(Tasks)
        BY NoInfos DEF Init
    <2> QED BY <2>1 DEF Init, InfoTypes
<1>2. PoolType /\ SlotInv /\ InfoTypes /\ [Next]_vars => InfoTypes'
    BY InfoTypesStep
<1>3. PoolType /\ InfoTypes => TypeOK
    BY DEF PoolType, InfoTypes, TypeOK, TaskPlaces, Codes
<1> QED BY <1>1, <1>2, <1>3, SlotsInvariance, PTL DEF Spec

-----------------------------------------------------------------------------
(* The infos of the tasks that pool_start has not queued yet.              *)
Unqueued == IF mpc \in {"exist", "flags", "put"} THEN {slot[cur].task} ELSE {}

(* Each info that is not freed is in exactly one queue, once.              *)
InfosInv ==
    /\ taskinfo \in Seq(Tasks) /\ ti \in [{1, 2} -> Seq(Tasks)] /\ src \in {1, 2}
    /\ IsInjective(taskinfo) /\ IsInjective(ti[1]) /\ IsInjective(ti[2])
    /\ ToSet(taskinfo) \cap ToSet(ti[1]) = {} /\ ToSet(taskinfo) \cap ToSet(ti[2]) = {}
    /\ ToSet(ti[1]) \cap ToSet(ti[2]) = {}
    /\ ToSet(taskinfo) \cup ToSet(ti[1]) \cup ToSet(ti[2]) =
            {i \in 1..started : info[i] # "freed"} \ Unqueued

(* The same, said of taskinfo and the queues p and o of ti.                *)
TwoQueues(p, o) ==
    /\ taskinfo \in Seq(Tasks) /\ ti \in [{1, 2} -> Seq(Tasks)] /\ src \in {1, 2}
    /\ IsInjective(taskinfo) /\ IsInjective(ti[p]) /\ IsInjective(ti[o])
    /\ ToSet(taskinfo) \cap ToSet(ti[p]) = {} /\ ToSet(taskinfo) \cap ToSet(ti[o]) = {}
    /\ ToSet(ti[p]) \cap ToSet(ti[o]) = {}
    /\ ToSet(taskinfo) \cup ToSet(ti[p]) \cup ToSet(ti[o]) =
            {i \in 1..started : info[i] # "freed"} \ Unqueued

LEMMA EitherOrder ==
    ASSUME NEW p \in {1, 2}, NEW o \in {1, 2}, p # o
    PROVE  (InfosInv => TwoQueues(p, o)) /\ (TwoQueues(p, o)' => InfosInv')
<1>1. CASE p = 1 /\ o = 2
    BY <1>1 DEF InfosInv, TwoQueues
<1>2. CASE p = 2 /\ o = 1
    BY <1>2 DEF InfosInv, TwoQueues
<1> QED BY <1>1, <1>2

(* The three queues one after the other are what InfosConserved is about.  *)
LEMMA InfosInQueues ==
    ASSUME InfosInv
    PROVE  InfosConserved
<1> DEFINE tt == taskinfo \o ti[1]
<1>1. ti[1] \in Seq(Tasks) /\ ti[2] \in Seq(Tasks)
    BY DEF InfosInv
<1>2. /\ tt \in Seq(Tasks) /\ IsInjective(tt)
      /\ ToSet(tt) = ToSet(taskinfo) \cup ToSet(ti[1])
    BY <1>1, JoinNew DEF InfosInv
<1>3. ToSet(tt) \cap ToSet(ti[2]) = {}
    BY <1>2 DEF InfosInv
<1> HIDE DEF tt
<1>4. /\ IsInjective(tt \o ti[2])
      /\ ToSet(tt \o ti[2]) = ToSet(tt) \cup ToSet(ti[2])
    BY <1>1, <1>2, <1>3, JoinNew DEF InfosInv
<1>5. taskinfo \o ti[1] \o ti[2] = tt \o ti[2]
    BY DEF tt
<1> QED BY <1>2, <1>4, <1>5 DEF InfosConserved, InfosInv, Unqueued

(* A step that touches no queue frees nothing and starts nothing.          *)
LEMMA InfosStay ==
    ASSUME InfosInv, UNCHANGED <<taskinfo, ti, started>>, Unqueued' = Unqueued,
           src' \in {1, 2},
           \A i \in 1..started : info'[i] = "freed" <=> info[i] = "freed"
    PROVE  InfosInv'
<1>1. {i \in 1..started : info'[i] # "freed"} = {i \in 1..started : info[i] # "freed"}
    OBVIOUS
<1> QED BY <1>1 DEF InfosInv

(* Every step moves each info from one queue to one other, or frees it.    *)
LEMMA InfosStep ==
    ASSUME PoolAssumption, PoolType, SlotInv, FreedInv, InfosInv, [Next]_vars,
           Controls \cap {"suspend", "resume"} = {}
    PROVE  InfosInv'
<1>0. \A i \in 1..started : info[i] = "freed" => info'[i] = "freed"
    BY FreedStep
<1>s. ASSUME UNCHANGED <<taskinfo, ti, started>>, src' \in {1, 2, src},
             Unqueued' = Unqueued,
             \A i \in Tasks : info'[i] = "freed" => info[i] = "freed"
      PROVE  InfosInv'
    <2>1. 1..started \subseteq Tasks
        BY DEF PoolType, Tasks, PoolAssumption
    <2> QED BY <1>0, <1>s, <2>1, InfosStay DEF InfosInv
<1>1. CASE pool_start_create
    <2> DEFINE n == started + 1
    <2>1. /\ n \in Tasks /\ info' = [info EXCEPT ![n] = "RUNNING"] /\ started' = n
          /\ mpc = "idle" /\ mpc' = "exist" /\ cur' = pool_find
          /\ slot' = [slot EXCEPT ![pool_find].task = n]
          /\ UNCHANGED <<taskinfo, ti, src>>
        BY <1>1 DEF pool_start_create, infos, PoolType, Tasks, PoolAssumption
    <2>2. Unqueued = {} /\ Unqueued' = {n}
        BY <1>1, <2>1, FindFacts DEF pool_start_create, PoolType, Slot, Unqueued
    <2>3. {i \in 1..started' : info'[i] # "freed"} \ {n} = {i \in 1..started : info[i] # "freed"}
        BY <2>1 DEF PoolType, Tasks
    <2> QED BY <2>1, <2>2, <2>3 DEF InfosInv
<1>2. CASE pool_start_exist
    BY <1>2, <1>s DEF pool_start_exist, infos, tasks, early, PoolType, Slot, Unqueued
<1>3. CASE pool_start_flags
    BY <1>3, <1>s DEF pool_start_flags, infos, tasks, early, PoolType, Slot, Unqueued
<1>4. CASE pool_start_put
    <2> DEFINE t == slot[cur].task
               live == {i \in 1..started : info[i] # "freed"}
    <2>1. /\ t \in 1..started /\ t \in Tasks /\ taskinfo' = Append(taskinfo, t)
          /\ UNCHANGED <<ti, src, started, info>>
        BY <1>4 DEF pool_start_put, SlotInv, Starts, PoolType, Slot, Tasks, PoolAssumption
    <2>2. Unqueued = {t} /\ Unqueued' = {}
        BY <1>4 DEF pool_start_put, Unqueued
    <2>3. t \in live
        BY <2>1, <1>4 DEF FreedInv, Starts, pool_start_put
    <2> HIDE DEF t
    <2>4. /\ t \notin ToSet(taskinfo) /\ t \notin ToSet(ti[1]) /\ t \notin ToSet(ti[2])
        BY <2>2 DEF InfosInv
    <2>5. /\ taskinfo' \in Seq(Tasks) /\ IsInjective(taskinfo')
          /\ ToSet(taskinfo') = ToSet(taskinfo) \cup {t}
        BY <2>1, <2>4, AppendNew DEF InfosInv
    <2>6. ToSet(taskinfo) \cup ToSet(ti[1]) \cup ToSet(ti[2]) = live \ {t}
        BY <2>2 DEF InfosInv
    <2>7. ToSet(taskinfo') \cup ToSet(ti[1]) \cup ToSet(ti[2]) = live
        BY <2>3, <2>5, <2>6
    <2> HIDE DEF live
    <2>8. live' = live
        BY <2>1 DEF live
    <2>9. live' = {i \in 1..started' : info'[i] # "freed"}
        BY DEF live
    <2> QED BY <2>1, <2>2, <2>4, <2>5, <2>7, <2>8, <2>9 DEF InfosInv
<1>5. CASE pool_start_running
    BY <1>5, <1>s DEF pool_start_running, infos, tasks, early, PoolType, Slot, Unqueued
<1>6. CASE pool_clear_begin
    BY <1>6, <1>s DEF pool_clear_begin, infos, tasks, early, PoolType, Slot, Unqueued
<1>7. CASE pool_clear_ti
    <2>1. PICK p \in {1, 2}, o \in {1, 2} : src = p /\ o = 3 - src /\ p # o
        BY DEF InfosInv
    <2> DEFINE i == Head(ti[p])
               live == {j \in 1..started : info[j] # "freed"}
    <2>2. TwoQueues(p, o)
        BY <2>1, EitherOrder
    <2>3. /\ ti[p] \in Seq(Tasks) /\ ti[o] \in Seq(Tasks) /\ ti[p] # <<>>
          /\ ti \in [{1, 2} -> Seq(Tasks)] /\ 1..started \subseteq Tasks
        BY <1>7, <2>1, <2>2 DEF pool_clear_ti, TwoQueues, PoolType, Tasks, PoolAssumption
    <2>4. /\ i \in Tasks /\ Tail(ti[p]) \in Seq(Tasks) /\ IsInjective(Tail(ti[p]))
          /\ i \in ToSet(ti[p]) /\ ToSet(Tail(ti[p])) = ToSet(ti[p]) \ {i}
        BY <2>2, <2>3, HeadTail DEF TwoQueues
    <2>5. /\ mpc = "clear_ti" /\ UNCHANGED <<slot, taskinfo, src, started, mpc, cur>>
          /\ IF Finished(i)
             THEN /\ info' = [info EXCEPT ![i] = "freed"]
                  /\ ti' = [ti EXCEPT ![p] = Tail(ti[p])]
             ELSE /\ ti' = [ti EXCEPT ![p] = Tail(ti[p]), ![o] = Append(ti[o], i)]
                  /\ info' = info
        BY <1>7, <2>1, <2>2, <2>3 DEF pool_clear_ti
    <2> HIDE DEF i, live
    <2>6. Unqueued = {} /\ Unqueued' = {}
        BY <2>5 DEF Unqueued
    <2>7. ToSet(taskinfo) \cup ToSet(ti[p]) \cup ToSet(ti[o]) = live
        BY <2>2, <2>6 DEF TwoQueues, live
    <2>8. CASE Finished(i)
        <3>1. /\ ti'[p] = Tail(ti[p]) /\ ti'[o] = ti[o]
              /\ ti' \in [{1, 2} -> Seq(Tasks)]
            BY <2>1, <2>2, <2>3, <2>4, <2>5, <2>8, ZenonT(60)
        <3>2. live' = live \ {i}
            BY <2>3, <2>4, <2>5, <2>8 DEF live, PoolType
        <3>3. ToSet(taskinfo) \cup ToSet(ti'[p]) \cup ToSet(ti'[o]) = live'
            BY <2>2, <2>4, <2>7, <3>1, <3>2 DEF TwoQueues
        <3>4. TwoQueues(p, o)'
            BY <2>1, <2>2, <2>4, <2>5, <2>6, <3>1, <3>3 DEF TwoQueues, live
        <3> QED BY <2>1, <3>4, EitherOrder
    <2>9. CASE ~Finished(i)
        <3>1. i \notin ToSet(ti[o])
            BY <2>2, <2>4 DEF TwoQueues
        <3>2. /\ Append(ti[o], i) \in Seq(Tasks) /\ IsInjective(Append(ti[o], i))
              /\ ToSet(Append(ti[o], i)) = ToSet(ti[o]) \cup {i}
            BY <2>2, <2>3, <2>4, <3>1, AppendNew DEF TwoQueues
        <3>3. /\ ti'[p] = Tail(ti[p]) /\ ti'[o] = Append(ti[o], i)
              /\ ti' \in [{1, 2} -> Seq(Tasks)]
            <4> DEFINE a == Tail(ti[p])
                       b == Append(ti[o], i)
            <4>1. ti' = [ti EXCEPT ![p] = a, ![o] = b] /\ a \in Seq(Tasks) /\ b \in Seq(Tasks)
                BY <2>4, <2>5, <2>9, <3>2
            <4> HIDE DEF a, b
            <4>2. ti'[p] = a /\ ti'[o] = b /\ ti' \in [{1, 2} -> Seq(Tasks)]
                BY <2>1, <2>3, <4>1
            <4> QED BY <4>2 DEF a, b
        <3>4. live' = live
            BY <2>5, <2>9 DEF live
        <3>5. ToSet(taskinfo) \cup ToSet(ti'[p]) \cup ToSet(ti'[o]) = live'
            BY <2>4, <2>7, <3>2, <3>3, <3>4
        <3>6. /\ ToSet(taskinfo) \cap ToSet(ti'[p]) = {}
              /\ ToSet(taskinfo) \cap ToSet(ti'[o]) = {}
              /\ ToSet(ti'[p]) \cap ToSet(ti'[o]) = {}
            BY <2>2, <2>4, <3>2, <3>3 DEF TwoQueues
        <3>7. TwoQueues(p, o)'
            BY <2>1, <2>2, <2>4, <2>5, <2>6, <3>2, <3>3, <3>5, <3>6 DEF TwoQueues, live
        <3> QED BY <2>1, <3>7, EitherOrder
    <2> QED BY <2>8, <2>9
<1>8. CASE pool_clear_taskinfo
    <2> DEFINE i == Head(taskinfo)
               live == {j \in 1..started : info[j] # "freed"}
    <2>1. PICK p \in {1, 2}, o \in {1, 2} : src = p /\ o = 3 - src /\ p # o
        BY DEF InfosInv
    <2>2. TwoQueues(p, o)
        BY <2>1, EitherOrder
    <2>3. /\ taskinfo \in Seq(Tasks) /\ ti[o] \in Seq(Tasks) /\ taskinfo # <<>>
          /\ ti \in [{1, 2} -> Seq(Tasks)] /\ 1..started \subseteq Tasks
        BY <1>8, <2>2, SMTT(40) DEF pool_clear_taskinfo, TwoQueues, PoolType, Tasks, PoolAssumption
    <2>4. /\ i \in Tasks /\ Tail(taskinfo) \in Seq(Tasks) /\ IsInjective(Tail(taskinfo))
          /\ i \in ToSet(taskinfo) /\ ToSet(Tail(taskinfo)) = ToSet(taskinfo) \ {i}
        BY <2>2, <2>3, HeadTail DEF TwoQueues
    <2>5. /\ mpc = "clear_taskinfo" /\ UNCHANGED <<slot, src, started, mpc, cur>>
          /\ taskinfo' = Tail(taskinfo)
          /\ IF Finished(i)
             THEN info' = [info EXCEPT ![i] = "freed"] /\ ti' = ti
             ELSE ti' = [ti EXCEPT ![o] = Append(ti[o], i)] /\ info' = info
        BY <1>8, <2>1, <2>3 DEF pool_clear_taskinfo
    <2> HIDE DEF i, live
    <2>6. Unqueued = {} /\ Unqueued' = {}
        BY <2>5 DEF Unqueued
    <2>7. ToSet(taskinfo) \cup ToSet(ti[p]) \cup ToSet(ti[o]) = live
        BY <2>2, <2>6 DEF TwoQueues, live
    <2>8. CASE Finished(i)
        <3>1. live' = live \ {i}
            BY <2>3, <2>4, <2>5, <2>8 DEF live, PoolType
        <3>2. ToSet(taskinfo') \cup ToSet(ti[p]) \cup ToSet(ti[o]) = live'
            BY <2>2, <2>4, <2>5, <2>7, <3>1 DEF TwoQueues
        <3>3. TwoQueues(p, o)'
            BY <2>1, <2>2, <2>4, <2>5, <2>6, <2>8, <3>2 DEF TwoQueues, live
        <3> QED BY <2>1, <3>3, EitherOrder
    <2>9. CASE ~Finished(i)
        <3>1. i \notin ToSet(ti[o])
            BY <2>2, <2>4 DEF TwoQueues
        <3>2. /\ Append(ti[o], i) \in Seq(Tasks) /\ IsInjective(Append(ti[o], i))
              /\ ToSet(Append(ti[o], i)) = ToSet(ti[o]) \cup {i}
            BY <2>2, <2>3, <2>4, <3>1, AppendNew DEF TwoQueues
        <3>3. /\ ti'[p] = ti[p] /\ ti'[o] = Append(ti[o], i)
              /\ ti' \in [{1, 2} -> Seq(Tasks)]
            <4> DEFINE b == Append(ti[o], i)
            <4>1. ti' = [ti EXCEPT ![o] = b] /\ b \in Seq(Tasks)
                BY <2>5, <2>9, <3>2
            <4> HIDE DEF b
            <4>2. ti'[p] = ti[p] /\ ti'[o] = b /\ ti' \in [{1, 2} -> Seq(Tasks)]
                BY <2>1, <2>3, <4>1
            <4> QED BY <4>2 DEF b
        <3>4. live' = live
            BY <2>5, <2>9 DEF live
        <3>5. ToSet(taskinfo') \cup ToSet(ti'[p]) \cup ToSet(ti'[o]) = live'
            BY <2>4, <2>5, <2>7, <3>2, <3>3, <3>4
        <3>6. /\ ToSet(taskinfo') \cap ToSet(ti'[p]) = {}
              /\ ToSet(taskinfo') \cap ToSet(ti'[o]) = {}
              /\ ToSet(ti'[p]) \cap ToSet(ti'[o]) = {}
            BY <2>2, <2>4, <2>5, <3>2, <3>3 DEF TwoQueues
        <3>7. TwoQueues(p, o)'
            BY <2>1, <2>2, <2>4, <2>5, <2>6, <3>2, <3>3, <3>5, <3>6 DEF TwoQueues, live
        <3> QED BY <2>1, <3>7, EitherOrder
    <2> QED BY <2>8, <2>9
<1>9. CASE pool_clear_end
    BY <1>9, <1>s DEF pool_clear_end, infos, tasks, early, PoolType, Slot, Unqueued
<1>10. CASE pool_func_next
    BY <1>10, <1>s DEF pool_func_next, infos, tasks, early, PoolType, Slot, Unqueued
<1>11. CASE pool_join
    BY <1>11, <1>s DEF pool_join, infos, tasks, early, PoolType, Slot, Unqueued,
        FreedInv, Final
<1>12. CASE pool_detach
    BY <1>12, <1>s DEF pool_detach, infos, tasks, early, PoolType, Slot, Unqueued
<1>13. CASE pool_kill
    BY <1>13, <1>s DEF pool_kill, infos, tasks, early, PoolType, Slot, Unqueued
<1>14. CASE pool_func_begin
    BY <1>14, <1>s DEF pool_func_begin, infos, tasks, early, PoolType, Slot, Unqueued
<1>15. CASE pool_destroy
    <2>1. /\ mpc = "idle" /\ mpc' = "destroyed" /\ taskinfo' = <<>> /\ ti' = <<<<>>, <<>>>>
          /\ UNCHANGED <<src, started>>
          /\ info' = [i \in Tasks |->
                        IF i \in ToSet(taskinfo) \cup ToSet(ti[1]) \cup ToSet(ti[2])
                        THEN "freed" ELSE info[i]]
        BY <1>15 DEF pool_destroy
    <2>2. Unqueued = {} /\ Unqueued' = {} /\ 1..started \subseteq Tasks
        BY <2>1 DEF PoolType, Tasks, PoolAssumption, Unqueued
    <2>3. {i \in 1..started' : info'[i] # "freed"} = {}
        BY <2>1, <2>2 DEF InfosInv
    <2>4. /\ ToSet(taskinfo') = {} /\ ToSet(ti'[1]) = {} /\ ToSet(ti'[2]) = {}
          /\ IsInjective(taskinfo') /\ IsInjective(ti'[1]) /\ IsInjective(ti'[2])
        BY <2>1 DEF ToSet, IsInjective
    <2>5. taskinfo' \in Seq(Tasks) /\ ti' \in [{1, 2} -> Seq(Tasks)]
        <3>1. \A k \in {1, 2} : ti'[k] = <<>> /\ <<>> \in Seq(Tasks)
            BY <2>1
        <3>2. DOMAIN ti' = {1, 2} /\ ti' = [k \in {1, 2} |-> ti'[k]]
            BY <2>1
        <3> QED BY <2>1, <3>1, <3>2
    <2> QED BY <2>1, <2>2, <2>3, <2>4, <2>5 DEF InfosInv
<1>16. ASSUME NEW s \in Slots, task_suspend(s) PROVE InfosInv'
    BY <1>16 DEF task_suspend, Handle
<1>17. ASSUME NEW s \in Slots, task_resume(s) PROVE InfosInv'
    BY <1>17 DEF task_resume, Handle
<1>18. ASSUME NEW s \in Slots, task_cancel(s) PROVE InfosInv'
    BY <1>18, <1>s DEF task_cancel, infos, Handle, PoolType, Slot, Unqueued
<1>19. ASSUME NEW i \in Tasks, task_step_begin(i) PROVE InfosInv'
    BY <1>19, <1>s DEF task_step_begin, unchangedByTask, Move, PoolType, Slot,
        Unqueued
<1>20. ASSUME NEW i \in Tasks, task_step_pause(i) PROVE InfosInv'
    BY <1>20, <1>s DEF task_step_pause, unchangedByTask, Move, PoolType, Slot,
        Unqueued
<1>21. ASSUME NEW i \in Tasks, task_step_cancel(i) PROVE InfosInv'
    BY <1>21, <1>s DEF task_step_cancel, unchangedByTask, Move, PoolType, Slot,
        Unqueued
<1>22. ASSUME NEW i \in Tasks, pool_exit_call(i) PROVE InfosInv'
    BY <1>22, <1>s DEF pool_exit_call, unchangedByTask, Move, PoolType, Slot,
        Unqueued
<1>23. ASSUME NEW i \in Tasks, pool_exit_find(i) PROVE InfosInv'
    BY <1>23, <1>s DEF pool_exit_find, unchangedByTask, Move, PoolType, Slot,
        Unqueued
<1>24. ASSUME NEW i \in Tasks, pool_exit_state(i) PROVE InfosInv'
    BY <1>24, <1>s DEF pool_exit_state, unchangedByTask, Move, PoolType, Slot,
        Unqueued, FreedInv, Final
<1>25. ASSUME NEW i \in Tasks, pool_exit_quit(i) PROVE InfosInv'
    <2>1. /\ UNCHANGED <<taskinfo, ti, src, started, mpc, cur, info>>
          /\ \A s \in Slots : slot'[s].task = slot[s].task
        BY <1>25 DEF pool_exit_quit, unchangedByTask, PoolType, Slot
    <2>2. Unqueued' = Unqueued
        BY <2>1 DEF Unqueued, PoolType
    <2> QED BY <1>s, <2>1, <2>2
<1>26. ASSUME NEW i \in Tasks, pool_exit_gone(i) PROVE InfosInv'
    <2>1. /\ UNCHANGED <<taskinfo, ti, src, started, mpc, cur, info>>
          /\ \A s \in Slots : slot'[s].task = slot[s].task
        BY <1>26 DEF pool_exit_gone, unchangedByTask, PoolType, Slot
    <2>2. Unqueued' = Unqueued
        BY <2>1 DEF Unqueued, PoolType
    <2> QED BY <1>s, <2>1, <2>2
<1>27. ASSUME NEW i \in Tasks, task_return(i) PROVE InfosInv'
    BY <1>27, <1>s DEF task_return, unchangedByTask, Move, PoolType, Slot,
        Unqueued
<1>28. ASSUME NEW i \in Tasks, task_killed(i) PROVE InfosInv'
    BY <1>28, <1>s DEF task_killed, unchangedByTask, Move, PoolType, Slot,
        Unqueued
<1>29. CASE UNCHANGED vars
    BY <1>29, <1>s DEF vars, Unqueued
<1> QED
    BY <1>1, <1>2, <1>3, <1>4, <1>5, <1>6, <1>7, <1>8, <1>9, <1>10, <1>11,
       <1>12, <1>13, <1>14, <1>15, <1>16, <1>17, <1>18, <1>19, <1>20, <1>21,
       <1>22, <1>23, <1>24, <1>25, <1>26, <1>27, <1>28, <1>29
    DEF Next, Controller, Control, pool_start, pool_clear, Task, task_step, pool_exit

LEMMA InfosInit ==
    ASSUME PoolAssumption, Init
    PROVE  InfosInv
<1>1. /\ taskinfo = <<>> /\ ti[1] = <<>> /\ ti[2] = <<>> /\ src = 1 /\ started = 0
      /\ mpc = "idle" /\ ti \in [{1, 2} -> Seq(Tasks)] /\ taskinfo \in Seq(Tasks)
    <2>1. ti = <<<<>>, <<>>>> /\ <<>> \in Seq(Tasks)
        BY DEF Init
    <2>2. \A k \in {1, 2} : ti[k] = <<>>
        BY <2>1
    <2>3. ti = [k \in {1, 2} |-> ti[k]]
        BY <2>1
    <2> QED BY <2>1, <2>2, <2>3 DEF Init
<1>2. Unqueued = {} /\ {i \in 1..started : info[i] # "freed"} = {}
    BY <1>1 DEF Unqueued
<1>3. \A q \in {taskinfo, ti[1], ti[2]} : IsInjective(q) /\ ToSet(q) = {}
    BY <1>1 DEF IsInjective, ToSet
<1> QED BY <1>1, <1>2, <1>3 DEF InfosInv

(* Every info is in one queue, once, until it is freed, so pool_clear      *)
(* frees no info twice and pool_destroy finds all that are left, if nobody *)
(* suspends or resumes a task (pool_start, pool_clear, pool_destroy).      *)
THEOREM PoolInfosConserved ==
    ASSUME Controls \cap {"suspend", "resume"} = {}
    PROVE  Spec => []InfosConserved
<1> USE PoolAssumption
<1>1. Init => InfosInv
    BY InfosInit
<1>2. PoolType /\ SlotInv /\ FreedInv /\ InfosInv /\ [Next]_vars => InfosInv'
    BY InfosStep
<1>3. InfosInv => InfosConserved
    BY InfosInQueues
<1> QED BY <1>1, <1>2, <1>3, FreedInvariance, SlotsInvariance, PTL DEF Spec

=============================================================================
