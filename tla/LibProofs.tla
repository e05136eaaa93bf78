------------------------------- MODULE LibProofs ------------------------------
(***************************************************************************)
(* Proofs about the allocator of lib.c: HeldUsable and NothingLeaks, for   *)
(* any number of threads, blocks, pointers and pages.  The one assumption  *)
(* is that there are no more pointers than a char can count (Ref), which   *)
(* lib_flag_add does not test.  The invariant says who owns a block that   *)
(* nobody points to (Entering, Dying), that the path of a bit is there,    *)
(* and that the count of a block equals its pointers while its bit is set. *)
(***************************************************************************)
EXTENDS Lib, FiniteSetTheorems, TLAPS

(* A thread that enters a block in the page table, and one that has given  *)
(* back the last reference to a block, owns the block.                     *)
Entering == Inserting \cup {"delete_old"}
Dying == {"unlock_free", "delete", "free"}
Adding == {"lockinfo_add", "add"}
Subbing == {"lockinfo_sub", "sub"}
Asking == {"global", "make", "zero", "alloc"}

Owns(t, a) == ptr[t] = a /\ pc[t] \in Entering \cup Dying

Vars(t) == {ref[t], ref2[t]} \ {NULL}

(* Where a thread is says what its locals are.                             *)
Local(t) ==
    /\ pc[t] = "idle" => ref[t] = NULL /\ ref2[t] = NULL /\ ptr[t] = NULL /\ old[t] = NULL
    /\ pc[t] # "idle" => ref[t] \in Ref
    /\ pc[t] \in Adding => ref2[t] \in Ref \ Private /\ ref2[t] # ref[t]
                           /\ held[ref2[t]] = NULL /\ ref[t] \notin Private
    /\ pc[t] \in Asking => held[ref[t]] = NULL /\ ptr[t] = NULL /\ old[t] = NULL
    /\ pc[t] \in Adding \cup Subbing => held[ref[t]] = ptr[t]
    /\ pc[t] \in Entering \cup Dying \cup Adding \cup Subbing \cup {"unlock"} => ptr[t] \in Addr
    /\ pc[t] = "realloc" => /\ ptr[t] = NULL /\ ref[t] \in Private
                            /\ old[t] \in Addr /\ held[ref[t]] = old[t]
    /\ pc[t] = "delete_old" => old[t] \in Addr
    /\ pc[t] \in Entering =>
            /\ info[ptr[t]].flag = 1
            /\ held[ref[t]] = NULL \/ (held[ref[t]] = ptr[t] /\ ref[t] \in Private)
            /\ Pointers(ptr[t]) \subseteq {ref[t]}
    /\ pc[t] \in Dying => Pointers(ptr[t]) = {}
    /\ level[t] \in 1..(IF pc[t] \in Inserting THEN Len(Path[ptr[t]]) + 1 ELSE 1)
    /\ pc[t] \in {"lock", "create"} => level[t] <= Len(Path[ptr[t]])

LocalInv == \A t \in Threads : Local(t)

(* A pointer variable is used by one call at a time, and a block has one   *)
(* owner.                                                                  *)
AloneInv ==
    \A t, u \in Threads : t # u =>
        /\ Vars(t) \cap Vars(u) = {}
        /\ \A a \in Addr : ~(Owns(t, a) /\ Owns(u, a))

(* What is pointed to or owned is allocated; what is resized is not shared.*)
HeldInv ==
    /\ \A r \in Ref : held[r] # NULL => held[r] \in allocated
    /\ \A t \in Threads, a \in Addr : Owns(t, a) => a \in allocated
    /\ \A r \in Private : held[r] # NULL => Pointers(held[r]) = {r} /\ info[held[r]].flag = 1

(* The page table: what a walk has passed and what a bit needs is there.   *)
TableInv ==
    /\ \A t \in Threads : pc[t] \in Inserting =>
            \A i \in 1..(level[t] - 1) : Path[ptr[t]][i] \in pages
    /\ \A a \in bits : Reached(a)
    /\ \A a \in bits \ allocated : \E t \in Threads : pc[t] = "delete_old" /\ old[t] = a
    /\ \A t \in Threads : pc[t] = "free" => ptr[t] \notin bits

(* A block that is pointed to has its bit, is being entered or was hit.    *)
BitInv ==
    \A r \in Ref : held[r] # NULL =>
        \/ held[r] \in hit \/ held[r] \in bits
        \/ \E t \in Threads : pc[t] \in Entering /\ ptr[t] = held[r] /\ ref[t] = r

(* The pointers that are being given back.                                 *)
Leaving(a) == {r \in Pointers(a) : \E t \in Threads : ref[t] = r /\ pc[t] \in Subbing}

(* The pointers that a reference is counted for in a moment.               *)
Joining(a) == {r \in Ref : \E t \in Threads : ref2[t] = r /\ pc[t] \in Adding /\ ptr[t] = a}

(* The count of a block: exact while the block has its bit; when it was    *)
(* hit, enough for those that are given back and for one that never is.    *)
FlagAt(a) ==
    /\ info[a].flag + Cardinality(Joining(a)) <= Cardinality(Ref)
    /\ a \in bits => info[a].flag = Cardinality(Pointers(a))
    /\ info[a].flag >= Cardinality(Leaving(a))
                            + (IF Pointers(a) \subseteq Leaving(a) THEN 0 ELSE 1)

FlagInv == \A a \in Addr : Pointers(a) # {} => FlagAt(a)

(* What nobody points to has an owner.                                     *)
LeakInv ==
    \A a \in allocated \ hit : Pointers(a) # {} \/ \E t \in Threads : Owns(t, a)

(* The blocks that are counted as released and not free yet.               *)
Released == {a \in Addr : \E t \in Threads : pc[t] = "free" /\ ptr[t] = a}

Live == allocated \ Released

(* The calls that start when nothing is allocated.                         *)
Starting ==
    /\ ~global \/ (\E t \in Threads : pc[t] = "zero")
    /\ allocated = {}
    /\ ~global => memory_time = 0
    /\ \A t \in Threads : pc[t] \in {"idle", "global", "make", "zero"}
    /\ \A t, u \in Threads : t # u /\ pc[t] \in {"make", "zero"} => pc[u] \in {"idle", "global"}
    /\ \A t \in Threads : (pc[t] = "make" => ~global) /\ (pc[t] = "zero" => global)

(* The count of live blocks, once it exists.                               *)
Running ==
    /\ global
    /\ \A t \in Threads : pc[t] \notin {"make", "zero"}
    /\ memory_time = Cardinality(Live)

CountInv == raced \/ Starting \/ Running

LibInv ==
    /\ TypeOK /\ LocalInv /\ AloneInv /\ HeldInv /\ TableInv /\ BitInv /\ FlagInv
    /\ LeakInv /\ CountInv

-----------------------------------------------------------------------------
(* Counts of pointers, and what a call that gives one back may rely on.    *)

AllOf == TypeOK /\ LocalInv /\ AloneInv /\ HeldInv /\ TableInv /\ BitInv /\ FlagInv

(* Sets of pointers are finite.                                            *)
LEMMA RefSubsets ==
    \A S : S \subseteq Ref => IsFiniteSet(S) /\ Cardinality(S) \in Nat /\ Cardinality(S) <= Cardinality(Ref)
BY LibAssumption, FS_Subset, FS_CardinalityType DEF LibAssumption

(* The pointers to a block, and those that come and go, are countable.     *)
LEMMA PointersFinite ==
    /\ \A a : /\ IsFiniteSet(Pointers(a)) /\ Cardinality(Pointers(a)) \in Nat
              /\ IsFiniteSet(Leaving(a)) /\ Cardinality(Leaving(a)) \in Nat
              /\ IsFiniteSet(Joining(a)) /\ Cardinality(Joining(a)) \in Nat
    /\ IsFiniteSet(Ref) /\ Cardinality(Ref) \in Nat
<1>1. IsFiniteSet(Ref)
    BY LibAssumption DEF LibAssumption
<1>2. \A a : Pointers(a) \subseteq Ref /\ Leaving(a) \subseteq Ref /\ Joining(a) \subseteq Ref
    BY DEF Pointers, Leaving, Joining
<1> QED BY <1>1, <1>2, FS_Subset, FS_CardinalityType

(* A reference is given back only where one is counted, and the last only  *)
(* by the last pointer.                                                    *)
LEMMA SubCount ==
    ASSUME AllOf, NEW t \in Threads, pc[t] = "sub"
    PROVE  /\ ptr[t] \in Addr /\ ref[t] \in Ref /\ held[ref[t]] = ptr[t]
           /\ info[ptr[t]].flag \in Int /\ info[ptr[t]].flag >= 1
           /\ info[ptr[t]].flag - 1 <= 0 => Pointers(ptr[t]) = {ref[t]}
<1>1. ptr[t] \in Addr /\ ref[t] \in Ref /\ held[ref[t]] = ptr[t] /\ info[ptr[t]].flag \in Int
    BY DEF AllOf, LocalInv, Local, Subbing, TypeOK
<1> DEFINE a == ptr[t]
<1>2. ref[t] \in Pointers(a) /\ ref[t] \in Leaving(a)
    BY <1>1 DEF Pointers, Leaving, Subbing
<1>3. /\ info[a].flag >= Cardinality(Leaving(a))
                                + (IF Pointers(a) \subseteq Leaving(a) THEN 0 ELSE 1)
    BY <1>1, <1>2 DEF AllOf, FlagInv, FlagAt
<1>4. Cardinality(Leaving(a)) # 0 /\ Cardinality(Leaving(a)) \in Nat
    BY <1>2, PointersFinite, FS_EmptySet
<1>5. Cardinality(Leaving(a)) = 1 => Leaving(a) = {ref[t]}
    BY <1>2, PointersFinite, FS_Singleton
<1>6. Leaving(a) \subseteq Pointers(a)
    BY DEF Leaving
<1>7. info[a].flag >= 1
    BY <1>1, <1>3, <1>4
<1>8. ASSUME info[a].flag - 1 <= 0 PROVE Pointers(a) = {ref[t]}
    <2>1. Cardinality(Leaving(a)) = 1 /\ Pointers(a) \subseteq Leaving(a)
        BY <1>1, <1>3, <1>4, <1>8
    <2> QED BY <2>1, <1>5, <1>6
<1> QED BY <1>1, <1>7, <1>8

(* The path of a block is a sequence of pages.                             *)
LEMMA PathFacts ==
    ASSUME NEW a \in Addr
    PROVE  Path[a] \in Seq(Node) /\ Len(Path[a]) \in Nat /\ DOMAIN Path[a] = 1..Len(Path[a])
BY LibAssumption DEF LibAssumption

Info == [lock: BOOLEAN, flag: -(CharMax + 1)..CharMax]

(* lib_info keeps its type when it is locked and counted.                  *)
LEMMA InfoType ==
    ASSUME TypeOK, NEW a \in Addr
    PROVE  /\ \A l \in BOOLEAN : [info EXCEPT ![a].lock = l] \in [Addr -> Info]
           /\ [info EXCEPT ![a].flag = Char(@ + 1)] \in [Addr -> Info]
           /\ info[a].flag >= 1 => [info EXCEPT ![a].flag = @ - 1] \in [Addr -> Info]
<1>1. info \in [Addr -> Info] /\ info[a] \in Info /\ CharMax \in Nat
    BY LibAssumption DEF TypeOK, Info, LibAssumption
<1>2. ASSUME NEW l \in BOOLEAN PROVE [info EXCEPT ![a].lock = l] \in [Addr -> Info]
    <2>1. [info[a] EXCEPT !.lock = l] \in Info
        BY <1>1 DEF Info
    <2> QED BY <1>1, <2>1
<1>3. [info EXCEPT ![a].flag = Char(@ + 1)] \in [Addr -> Info]
    <2>1. Char(info[a].flag + 1) \in -(CharMax + 1)..CharMax
        BY <1>1 DEF Info, Char
    <2>2. [info[a] EXCEPT !.flag = Char(info[a].flag + 1)] \in Info
        BY <1>1, <2>1 DEF Info
    <2> QED BY <1>1, <2>2
<1>4. ASSUME info[a].flag >= 1 PROVE [info EXCEPT ![a].flag = @ - 1] \in [Addr -> Info]
    <2>1. info[a].flag - 1 \in -(CharMax + 1)..CharMax
        BY <1>1, <1>4 DEF Info
    <2>2. [info[a] EXCEPT !.flag = info[a].flag - 1] \in Info
        BY <1>1, <2>1 DEF Info
    <2> QED BY <1>1, <2>2
<1> QED BY <1>2, <1>3, <1>4

(* Every step keeps the types.                                             *)
LEMMA TypeStep ==
    ASSUME AllOf, NEW t \in Threads, Step(t)
    PROVE  TypeOK'
<1> USE LibAssumption DEF LibAssumption, TypeOK, AllOf, Inserting, Holding, tables, memory,
                          counters, call, Goto, Return
<1>1. CASE lib_malloc_call(t)
    BY <1>1 DEF lib_malloc_call
<1>2. CASE lib_malloc_global(t)
    BY <1>2 DEF lib_malloc_global
<1>3. CASE lib_malloc_make(t)
    BY <1>3 DEF lib_malloc_make
<1>4. CASE lib_malloc_zero(t)
    BY <1>4 DEF lib_malloc_zero
<1>5. CASE lib_malloc_alloc(t)
    BY <1>5 DEF lib_malloc_alloc
<1>6. CASE lib_malloc_fails(t)
    BY <1>6 DEF lib_malloc_fails
<1>7. CASE lib_page_insert_walk(t)
    <2>1. pc' \in {[pc EXCEPT ![t] = "walk"], [pc EXCEPT ![t] = "lock"]}
              /\ level' \in {level, [level EXCEPT ![t] = level[t] + 1]}
        BY <1>7 DEF lib_page_insert_walk
    <2>2. level' \in [Threads -> Nat \ {0}]
        BY <2>1
    <2> QED BY <1>7, <2>1, <2>2, ZenonT(60) DEF lib_page_insert_walk
<1>8. CASE lib_page_insert_lock(t)
    <2>1. ptr[t] \in Addr /\ level[t] \in Nat \ {0} /\ level[t] <= Len(Path[ptr[t]])
        BY <1>8 DEF lib_page_insert_lock, LocalInv, Local, Entering
    <2>2. Above(t) \in Node \cup {NULL}
        BY <2>1, PathFacts DEF Above
    <2> QED BY <1>8, <2>2 DEF lib_page_insert_lock
<1>9. CASE lib_page_insert_create(t)
    BY <1>9 DEF lib_page_insert_create, Above, Current, calloc_page, LocalInv, Local, Entering
<1>10. CASE lib_page_insert_bit(t)
    BY <1>10 DEF lib_page_insert_bit, LocalInv, Local, Entering
<1>11. CASE lib_flag_add_select(t)
    <2>1. PICK r \in Ref \ Private, r2 \in Ref \ Private :
            /\ r # r2 /\ held[r] # NULL /\ held[r2] = NULL /\ ~Busy(r) /\ ~Busy(r2)
            /\ IF lib_page_select(held[r])
               THEN /\ Goto(t, "idle", "lockinfo_add")
                    /\ ptr' = [ptr EXCEPT ![t] = held[r]]
                    /\ ref' = [ref EXCEPT ![t] = r] /\ ref2' = [ref2 EXCEPT ![t] = r2]
                    /\ UNCHANGED held
               ELSE /\ held' = [held EXCEPT ![r2] = held[r]]
                    /\ UNCHANGED <<pc, ptr, ref, ref2>>
        BY <1>11 DEF lib_flag_add_select
    <2>2. held[r] \in Addr /\ r \in Ref
        BY <2>1
    <2>0. UNCHANGED <<pages, bits, locked, allocated, info, global, memory_time, raced, old, level, hit>>
        BY <1>11 DEF lib_flag_add_select
    <2>3. CASE lib_page_select(held[r])
        <3>1. /\ pc' = [pc EXCEPT ![t] = "lockinfo_add"] /\ ptr' = [ptr EXCEPT ![t] = held[r]]
              /\ ref' = [ref EXCEPT ![t] = r] /\ held' = held /\ ref2' = [ref2 EXCEPT ![t] = r2]
            BY <2>1, <2>3
        <3> QED BY <2>0, <2>2, <3>1
    <2>4. CASE ~lib_page_select(held[r])
        <3>1. /\ pc' = pc /\ ptr' = ptr /\ ref' = ref /\ ref2' = ref2
              /\ held' = [held EXCEPT ![r2] = held[r]]
            BY <1>11, <2>1, <2>4 DEF lib_flag_add_select
        <3> QED BY <2>0, <2>2, <3>1
    <2> QED BY <2>3, <2>4
<1>12. CASE lockinfo(t)
    <2>1. ptr[t] \in Addr
        BY <1>12 DEF lockinfo, LocalInv, Local, Subbing, Adding, Dying
    <2>2. info' \in [Addr -> Info]
        BY <1>12, <2>1, InfoType DEF lockinfo
    <2>3. TypeOK'
        BY <1>12, <2>1, <2>2 DEF lockinfo, Info
    <2> QED BY <2>3
<1>13. CASE lib_flag_add_flag(t)
    <2>1. ptr[t] \in Addr
        BY <1>13 DEF lib_flag_add_flag, LocalInv, Local, Subbing, Adding, Dying
    <2>2. info' \in [Addr -> Info]
        BY <1>13, <2>1, InfoType DEF lib_flag_add_flag
    <2>3. TypeOK'
        BY <1>13, <2>1, <2>2 DEF lib_flag_add_flag, LocalInv, Local, Adding, Info
    <2> QED BY <2>3
<1>14. CASE unlockinfo(t)
    <2>1. ptr[t] \in Addr
        BY <1>14 DEF unlockinfo, LocalInv, Local, Subbing, Adding, Dying
    <2>2. info' \in [Addr -> Info]
        BY <1>14, <2>1, InfoType DEF unlockinfo
    <2>3. TypeOK'
        BY <1>14, <2>1, <2>2 DEF unlockinfo, Info
    <2> QED BY <2>3
<1>15. CASE lib_flag_sub_select(t)
    <2>1. PICK r \in Ref :
            /\ held[r] # NULL /\ ~Busy(r)
            /\ IF lib_page_select(held[r])
               THEN /\ Goto(t, "idle", "lockinfo_sub")
                    /\ ptr' = [ptr EXCEPT ![t] = held[r]] /\ ref' = [ref EXCEPT ![t] = r]
                    /\ UNCHANGED held
               ELSE /\ held' = [held EXCEPT ![r] = NULL]
                    /\ UNCHANGED <<pc, ptr, ref>>
        BY <1>15 DEF lib_flag_sub_select
    <2>2. held[r] \in Addr /\ r \in Ref
        BY <2>1
    <2>0. UNCHANGED <<pages, bits, locked, allocated, info, global, memory_time, raced, old, ref2, level, hit>>
        BY <1>15 DEF lib_flag_sub_select
    <2>3. CASE lib_page_select(held[r])
        <3>1. /\ pc' = [pc EXCEPT ![t] = "lockinfo_sub"] /\ ptr' = [ptr EXCEPT ![t] = held[r]]
              /\ ref' = [ref EXCEPT ![t] = r] /\ held' = held /\ ref2' = ref2
            BY <2>0, <2>1, <2>3
        <3> QED BY <2>0, <2>2, <3>1
    <2>4. CASE ~lib_page_select(held[r])
        <3>1. /\ pc' = pc /\ ptr' = ptr /\ ref' = ref /\ ref2' = ref2
              /\ held' = [held EXCEPT ![r] = NULL]
            BY <1>15, <2>1, <2>4 DEF lib_flag_sub_select
        <3> QED BY <2>0, <2>2, <3>1
    <2> QED BY <2>3, <2>4
<1>16. CASE lib_flag_sub_flag(t)
    <2>1. ptr[t] \in Addr
        BY <1>16 DEF lib_flag_sub_flag, LocalInv, Local, Subbing, Adding, Dying
    <2>2. info' \in [Addr -> Info]
        BY <1>16, <2>1, InfoType, SubCount DEF lib_flag_sub_flag
    <2>3. TypeOK'
        BY <1>16, <2>1, <2>2 DEF lib_flag_sub_flag, Info
    <2> QED BY <2>3
<1>17. CASE lib_flag_sub_unlock(t)
    <2>1. ptr[t] \in Addr
        BY <1>17 DEF lib_flag_sub_unlock, LocalInv, Local, Subbing, Adding, Dying
    <2>2. info' \in [Addr -> Info]
        BY <1>17, <2>1, InfoType DEF lib_flag_sub_unlock
    <2>3. TypeOK'
        BY <1>17, <2>1, <2>2 DEF lib_flag_sub_unlock, Info
    <2> QED BY <2>3
<1>18. CASE __lib_free_delete(t)
    BY <1>18 DEF __lib_free_delete, lib_page_delete
<1>19. CASE __lib_free_free(t)
    BY <1>19 DEF __lib_free_free
<1>20. CASE lib_realloc_call(t)
    BY <1>20 DEF lib_realloc_call
<1>21. CASE lib_realloc_stays(t)
    BY <1>21 DEF lib_realloc_stays
<1>22. CASE lib_realloc_moves(t)
    BY <1>22 DEF lib_realloc_moves, LocalInv, Local
<1>23. CASE lib_realloc_delete(t)
    BY <1>23 DEF lib_realloc_delete, lib_page_delete
<1> QED
    BY <1>1, <1>2, <1>3, <1>4, <1>5, <1>6, <1>7, <1>8, <1>9, <1>10, <1>11, <1>12, <1>13,
       <1>14, <1>15, <1>16, <1>17, <1>18, <1>19, <1>20, <1>21, <1>22, <1>23
    DEF Step, lib_malloc, lib_page_insert, lib_free, lib_realloc

-----------------------------------------------------------------------------
(* What a step of one thread leaves alone of the others.                   *)

LEMMA OthersStay ==
    ASSUME TypeOK, NEW t \in Threads, Step(t), NEW u \in Threads, u # t
    PROVE  /\ pc'[u] = pc[u] /\ ptr'[u] = ptr[u] /\ old'[u] = old[u] /\ level'[u] = level[u]
           /\ ref'[u] = ref[u] /\ ref2'[u] = ref2[u]
<1> USE DEF TypeOK, Inserting, Holding, tables, memory, counters, call, Goto, Return
<1>1. CASE lib_malloc_call(t)
    BY <1>1 DEF lib_malloc_call
<1>2. CASE lib_malloc_global(t)
    BY <1>2 DEF lib_malloc_global
<1>3. CASE lib_malloc_make(t)
    BY <1>3 DEF lib_malloc_make
<1>4. CASE lib_malloc_zero(t)
    BY <1>4 DEF lib_malloc_zero
<1>5. CASE lib_malloc_alloc(t)
    BY <1>5 DEF lib_malloc_alloc
<1>6. CASE lib_malloc_fails(t)
    BY <1>6 DEF lib_malloc_fails
<1>7. CASE lib_page_insert_walk(t)
    BY <1>7 DEF lib_page_insert_walk
<1>8. CASE lib_page_insert_lock(t)
    BY <1>8 DEF lib_page_insert_lock
<1>9. CASE lib_page_insert_create(t)
    BY <1>9 DEF lib_page_insert_create
<1>10. CASE lib_page_insert_bit(t)
    BY <1>10 DEF lib_page_insert_bit
<1>11. CASE lib_flag_add_select(t)
    BY <1>11 DEF lib_flag_add_select
<1>12. CASE lockinfo(t)
    BY <1>12 DEF lockinfo
<1>13. CASE lib_flag_add_flag(t)
    BY <1>13 DEF lib_flag_add_flag
<1>14. CASE unlockinfo(t)
    BY <1>14 DEF unlockinfo
<1>15. CASE lib_flag_sub_select(t)
    BY <1>15 DEF lib_flag_sub_select
<1>16. CASE lib_flag_sub_flag(t)
    BY <1>16 DEF lib_flag_sub_flag
<1>17. CASE lib_flag_sub_unlock(t)
    BY <1>17 DEF lib_flag_sub_unlock
<1>18. CASE __lib_free_delete(t)
    BY <1>18 DEF __lib_free_delete
<1>19. CASE __lib_free_free(t)
    BY <1>19 DEF __lib_free_free
<1>20. CASE lib_realloc_call(t)
    BY <1>20 DEF lib_realloc_call
<1>21. CASE lib_realloc_stays(t)
    BY <1>21 DEF lib_realloc_stays
<1>22. CASE lib_realloc_moves(t)
    BY <1>22 DEF lib_realloc_moves
<1>23. CASE lib_realloc_delete(t)
    BY <1>23 DEF lib_realloc_delete
<1> QED
    BY <1>1, <1>2, <1>3, <1>4, <1>5, <1>6, <1>7, <1>8, <1>9, <1>10, <1>11, <1>12, <1>13,
       <1>14, <1>15, <1>16, <1>17, <1>18, <1>19, <1>20, <1>21, <1>22, <1>23
    DEF Step, lib_malloc, lib_page_insert, lib_free, lib_realloc

(* The block that t moves is pointed to by nothing else.                   *)
LEMMA MovedBlock ==
    ASSUME AllOf, NEW t \in Threads, pc[t] = "realloc"
    PROVE  /\ ref[t] \in Private /\ ref[t] \in Ref /\ old[t] \in Addr /\ held[ref[t]] = old[t] /\ ptr[t] = NULL
           /\ old[t] \in allocated /\ Pointers(old[t]) = {ref[t]} /\ info[old[t]].flag = 1
<1>1. ref[t] \in Private /\ ref[t] \in Ref /\ old[t] \in Addr /\ held[ref[t]] = old[t] /\ ptr[t] = NULL
    BY LibAssumption DEF LibAssumption, AllOf, LocalInv, Local
<1>2. held[ref[t]] # NULL
    BY <1>1, LibAssumption DEF LibAssumption
<1>3. held[ref[t]] \in allocated /\ Pointers(held[ref[t]]) = {ref[t]} /\ info[held[ref[t]]].flag = 1
    BY <1>1, <1>2 DEF AllOf, HeldInv
<1> QED BY <1>1, <1>3

(* A step stores at most one pointer, that no other call is about: it is   *)
(* given up, or set to a block that t owns, that was free, or that another *)
(* such pointer points to.                                                 *)
Unused(r, t) == \A u \in Threads : u # t => r \notin Vars(u)

LEMMA HeldEffect ==
    ASSUME AllOf, NEW t \in Threads, Step(t)
    PROVE  \/ held' = held
           \/ \E r \in Ref :
                /\ Unused(r, t)
                /\ \/ held' = [held EXCEPT ![r] = NULL]
                   \/ \E a \in Addr :
                        /\ held' = [held EXCEPT ![r] = a]
                        /\ \/ Owns(t, a) /\ pc[t] \in Entering /\ r = ref[t]
                           \/ /\ a \notin allocated /\ a \in allocated' /\ info'[a].flag = 1
                              /\ pc[t] = "realloc" /\ pc'[t] = "delete_old" /\ r = ref[t]
                              /\ ptr'[t] = a /\ ref'[t] = r
                           \/ r \notin Private /\ \E s \in Pointers(a) \ Private : Unused(s, t)
<1> USE LibAssumption DEF LibAssumption, AllOf, TypeOK, tables, memory, counters, call, Goto, Return
<1>0. pc[t] # "idle" => ref[t] \in Ref /\ Unused(ref[t], t)
    BY DEF LocalInv, Local, AloneInv, Unused, Vars
<1>1. CASE lib_malloc_call(t)
    BY <1>1 DEF lib_malloc_call
<1>2. CASE lib_malloc_global(t)
    BY <1>2 DEF lib_malloc_global
<1>3. CASE lib_malloc_make(t)
    BY <1>3 DEF lib_malloc_make
<1>4. CASE lib_malloc_zero(t)
    BY <1>4 DEF lib_malloc_zero
<1>5. CASE lib_malloc_alloc(t)
    BY <1>5 DEF lib_malloc_alloc
<1>6. CASE lib_malloc_fails(t)
    BY <1>6 DEF lib_malloc_fails
<1>7. CASE lib_page_insert_walk(t)
    BY <1>7 DEF lib_page_insert_walk
<1>8. CASE lib_page_insert_lock(t)
    BY <1>8 DEF lib_page_insert_lock
<1>9. CASE lib_page_insert_create(t)
    BY <1>9 DEF lib_page_insert_create
<1>10. CASE lib_page_insert_bit(t)
    BY <1>10, <1>0 DEF lib_page_insert_bit, LocalInv, Local, Entering, Owns, Inserting
<1>11. CASE lib_flag_add_select(t)
    <2>1. PICK r \in Ref \ Private, r2 \in Ref \ Private :
            /\ r # r2 /\ held[r] # NULL /\ held[r2] = NULL /\ ~Busy(r) /\ ~Busy(r2)
            /\ IF lib_page_select(held[r])
               THEN /\ Goto(t, "idle", "lockinfo_add")
                    /\ ptr' = [ptr EXCEPT ![t] = held[r]]
                    /\ ref' = [ref EXCEPT ![t] = r] /\ ref2' = [ref2 EXCEPT ![t] = r2]
                    /\ UNCHANGED held
               ELSE /\ held' = [held EXCEPT ![r2] = held[r]]
                    /\ UNCHANGED <<pc, ptr, ref, ref2>>
        BY <1>11 DEF lib_flag_add_select
    <2>2. held[r] \in Addr /\ r \in Pointers(held[r]) \ Private /\ Unused(r, t) /\ Unused(r2, t)
        BY <2>1 DEF Busy, Unused, Vars, Pointers
    <2> QED BY <1>11, <2>1, <2>2
<1>12. CASE lockinfo(t)
    BY <1>12 DEF lockinfo
<1>13. CASE lib_flag_add_flag(t)
    <2>1. ref2[t] \in Ref /\ Unused(ref2[t], t) /\ ptr[t] \in Addr /\ ref[t] \in Pointers(ptr[t]) \ Private
              /\ ref2[t] \notin Private
        BY <1>13 DEF lib_flag_add_flag, LocalInv, Local, AloneInv, Unused, Vars,
           Adding, Pointers
    <2> QED BY <1>13, <1>0, <2>1 DEF lib_flag_add_flag
<1>14. CASE unlockinfo(t)
    BY <1>14 DEF unlockinfo
<1>15. CASE lib_flag_sub_select(t)
    BY <1>15 DEF lib_flag_sub_select, Busy, Unused, Vars
<1>16. CASE lib_flag_sub_flag(t)
    BY <1>16, <1>0 DEF lib_flag_sub_flag
<1>17. CASE lib_flag_sub_unlock(t)
    BY <1>17 DEF lib_flag_sub_unlock
<1>18. CASE __lib_free_delete(t)
    BY <1>18 DEF __lib_free_delete
<1>19. CASE __lib_free_free(t)
    BY <1>19 DEF __lib_free_free
<1>20. CASE lib_realloc_call(t)
    BY <1>20 DEF lib_realloc_call
<1>21. CASE lib_realloc_stays(t)
    BY <1>21 DEF lib_realloc_stays
<1>22. CASE lib_realloc_moves(t)
    <2>0. pc[t] = "realloc"
        BY <1>22 DEF lib_realloc_moves
    <2>1. PICK n \in Addr \ allocated :
            /\ allocated' = (allocated \ {old[t]}) \cup {n}
            /\ info' = [info EXCEPT ![n] = info[old[t]]]
            /\ ptr' = [ptr EXCEPT ![t] = n]
            /\ held' = [held EXCEPT ![ref[t]] = n]
        BY <1>22 DEF lib_realloc_moves
    <2>2. pc'[t] = "delete_old" /\ ref' = ref
        BY <1>22 DEF lib_realloc_moves
    <2>3. info[old[t]].flag = 1 /\ ref[t] \in Ref
        BY <2>0, MovedBlock
    <2>4. info'[n].flag = 1 /\ ptr'[t] = n /\ n \in allocated'
        BY <2>1, <2>3
    <2> QED BY <1>0, <2>0, <2>1, <2>2, <2>3, <2>4
<1>23. CASE lib_realloc_delete(t)
    BY <1>23 DEF lib_realloc_delete
<1> QED
    BY <1>1, <1>2, <1>3, <1>4, <1>5, <1>6, <1>7, <1>8, <1>9, <1>10, <1>11, <1>12, <1>13,
       <1>14, <1>15, <1>16, <1>17, <1>18, <1>19, <1>20, <1>21, <1>22, <1>23
    DEF Step, lib_malloc, lib_page_insert, lib_free, lib_realloc

(* No step touches the pointers or the block of another call.              *)
LEMMA OthersSafe ==
    ASSUME AllOf, NEW t \in Threads, Step(t), NEW u \in Threads, u # t
    PROVE  /\ \A r \in Vars(u) \cap Ref : held'[r] = held[r]
           /\ \A a \in Addr : Owns(u, a) => Pointers(a)' \subseteq Pointers(a)
<1>1. \A r \in Vars(u) \cap Ref : held'[r] = held[r]
    BY HeldEffect DEF AllOf, TypeOK, Unused
<1>2. ASSUME NEW a \in Addr, Owns(u, a), NEW r \in Pointers(a)', r \notin Pointers(a)
      PROVE  FALSE
    <2>1. r \in Ref /\ held'[r] = a /\ held[r] # a
        BY <1>2 DEF Pointers
    <2>0. a # NULL /\ held \in [Ref -> Addr \cup {NULL}] /\ held' # held
        BY <2>1, LibAssumption DEF LibAssumption, AllOf, TypeOK
    <2>2. /\ Unused(r, t)
          /\ Owns(t, a) \/ a \notin allocated \/ \E s \in Pointers(a) : Unused(s, t)
        <3>1. PICK x \in Ref :
                /\ Unused(x, t)
                /\ \/ held' = [held EXCEPT ![x] = NULL]
                   \/ \E b \in Addr :
                        /\ held' = [held EXCEPT ![x] = b]
                        /\ \/ Owns(t, b) \/ b \notin allocated
                           \/ \E s \in Pointers(b) : Unused(s, t)
            BY <2>0, HeldEffect
        <3>2. x = r
            BY <2>0, <2>1, <3>1
        <3>3. held' # [held EXCEPT ![x] = NULL]
            BY <2>0, <2>1, <3>2
        <3>4. PICK b \in Addr : /\ held' = [held EXCEPT ![x] = b]
                                /\ \/ Owns(t, b) \/ b \notin allocated
                                   \/ \E s \in Pointers(b) : Unused(s, t)
            BY <3>1, <3>3
        <3>5. b = a
            BY <2>0, <2>1, <3>2, <3>4
        <3> QED BY <3>1, <3>2, <3>4, <3>5
    <2>3. ~Owns(t, a) /\ a \in allocated
        BY <1>2 DEF AllOf, AloneInv, HeldInv
    <2>4. \A s \in Pointers(a) : s \in Vars(u)
        BY <1>2, LibAssumption DEF LibAssumption, AllOf, LocalInv, Local, Owns,
           Pointers, Vars, Entering, Dying, Inserting
    <2> QED BY <2>2, <2>3, <2>4 DEF Unused
<1> QED BY <1>1, <1>2

(* Nor the count of a block that another call owns.                        *)
LEMMA OthersFlags ==
    ASSUME AllOf, NEW t \in Threads, Step(t), NEW u \in Threads, u # t,
           NEW a \in Addr, Owns(u, a)
    PROVE  info'[a].flag = info[a].flag
<1> USE LibAssumption DEF LibAssumption, AllOf, TypeOK, tables, memory, counters, call, Goto, Return
<1>0. a \in allocated /\ \A s \in Pointers(a) : s \in Vars(u)
    BY DEF HeldInv, LocalInv, Local, Owns, Pointers, Vars, Entering, Dying, Inserting
<1>1. CASE lib_malloc_call(t)
    BY <1>1 DEF lib_malloc_call
<1>2. CASE lib_malloc_global(t)
    BY <1>2 DEF lib_malloc_global
<1>3. CASE lib_malloc_make(t)
    BY <1>3 DEF lib_malloc_make
<1>4. CASE lib_malloc_zero(t)
    BY <1>4 DEF lib_malloc_zero
<1>5. CASE lib_malloc_alloc(t)
    BY <1>5, <1>0 DEF lib_malloc_alloc
<1>6. CASE lib_malloc_fails(t)
    BY <1>6 DEF lib_malloc_fails
<1>7. CASE lib_page_insert_walk(t)
    BY <1>7 DEF lib_page_insert_walk
<1>8. CASE lib_page_insert_lock(t)
    BY <1>8 DEF lib_page_insert_lock
<1>9. CASE lib_page_insert_create(t)
    BY <1>9 DEF lib_page_insert_create
<1>10. CASE lib_page_insert_bit(t)
    BY <1>10 DEF lib_page_insert_bit
<1>11. CASE lib_flag_add_select(t)
    BY <1>11 DEF lib_flag_add_select
<1>12. CASE lockinfo(t)
    <2>1. ptr[t] \in Addr
        BY <1>12 DEF lockinfo, LocalInv, Local, Dying, Adding, Subbing
    <2> QED BY <1>12, <2>1 DEF lockinfo
<1>13. CASE lib_flag_add_flag(t)
    <2>1. ptr[t] \in Addr /\ ref[t] \in Pointers(ptr[t]) /\ ref[t] \notin Vars(u)
        BY <1>13 DEF lib_flag_add_flag, LocalInv, Local, AloneInv, Vars, Adding,
           Subbing, Pointers
    <2>2. ptr[t] # a
        BY <1>0, <2>1
    <2> QED BY <1>13, <2>1, <2>2 DEF lib_flag_add_flag
<1>14. CASE unlockinfo(t)
    <2>1. ptr[t] \in Addr
        BY <1>14 DEF unlockinfo, LocalInv, Local, Dying, Adding, Subbing
    <2> QED BY <1>14, <2>1 DEF unlockinfo
<1>15. CASE lib_flag_sub_select(t)
    BY <1>15 DEF lib_flag_sub_select
<1>16. CASE lib_flag_sub_flag(t)
    <2>1. ptr[t] \in Addr /\ ref[t] \in Pointers(ptr[t]) /\ ref[t] \notin Vars(u)
        BY <1>16 DEF lib_flag_sub_flag, LocalInv, Local, AloneInv, Vars, Adding,
           Subbing, Pointers
    <2>2. ptr[t] # a
        BY <1>0, <2>1
    <2> QED BY <1>16, <2>1, <2>2 DEF lib_flag_sub_flag
<1>17. CASE lib_flag_sub_unlock(t)
    <2>1. ptr[t] \in Addr
        BY <1>17 DEF lib_flag_sub_unlock, LocalInv, Local, Dying, Adding, Subbing
    <2> QED BY <1>17, <2>1 DEF lib_flag_sub_unlock
<1>18. CASE __lib_free_delete(t)
    BY <1>18 DEF __lib_free_delete
<1>19. CASE __lib_free_free(t)
    BY <1>19 DEF __lib_free_free
<1>20. CASE lib_realloc_call(t)
    BY <1>20 DEF lib_realloc_call
<1>21. CASE lib_realloc_stays(t)
    BY <1>21 DEF lib_realloc_stays
<1>22. CASE lib_realloc_moves(t)
    BY <1>22, <1>0 DEF lib_realloc_moves
<1>23. CASE lib_realloc_delete(t)
    BY <1>23 DEF lib_realloc_delete
<1> QED
    BY <1>1, <1>2, <1>3, <1>4, <1>5, <1>6, <1>7, <1>8, <1>9, <1>10, <1>11, <1>12, <1>13,
       <1>14, <1>15, <1>16, <1>17, <1>18, <1>19, <1>20, <1>21, <1>22, <1>23
    DEF Step, lib_malloc, lib_page_insert, lib_free, lib_realloc

-----------------------------------------------------------------------------
(* Where a thread is says what its locals are.                             *)

(* The locals of the other threads still fit.                              *)
LEMMA LocalOthers ==
    ASSUME AllOf, NEW t \in Threads, Step(t), NEW u \in Threads, u # t
    PROVE  Local(u)'
<1> USE LibAssumption DEF LibAssumption
<1>1. /\ pc'[u] = pc[u] /\ ptr'[u] = ptr[u] /\ old'[u] = old[u] /\ level'[u] = level[u]
      /\ ref'[u] = ref[u] /\ ref2'[u] = ref2[u]
    BY OthersStay DEF AllOf
<1>2. Local(u)
    BY DEF AllOf, LocalInv
<1>3. /\ ref[u] \in Ref => held'[ref[u]] = held[ref[u]]
      /\ ref2[u] \in Ref => held'[ref2[u]] = held[ref2[u]]
    BY OthersSafe DEF Vars
<1>4. pc[u] \in Entering \cup Dying => /\ Pointers(ptr[u])' \subseteq Pointers(ptr[u])
                                       /\ info'[ptr[u]].flag = info[ptr[u]].flag
    BY <1>1, <1>2, OthersSafe, OthersFlags DEF Local, Owns, Pointers
<1> QED BY <1>1, <1>2, <1>3, <1>4 DEF Local, Entering, Dying, Adding, Subbing, Asking,
   Inserting, Pointers

(* Every step keeps LocalInv.                                              *)
LEMMA LocalStep ==
    ASSUME AllOf, NEW t \in Threads, Step(t)
    PROVE  LocalInv'
<1> SUFFICES Local(t)'
    BY LocalOthers DEF LocalInv
<1> USE LibAssumption DEF LibAssumption, AllOf, TypeOK, tables, memory, counters, call, Goto, Return
<1>0. Local(t)
    BY DEF LocalInv
<1>1. CASE lib_malloc_call(t)
    BY <1>1, <1>0 DEF lib_malloc_call, Local, Entering, Dying, Adding, Subbing, Asking,
       Inserting
<1>2. CASE lib_malloc_global(t)
    BY <1>2, <1>0 DEF lib_malloc_global, Local, Entering, Dying, Adding, Subbing, Asking,
       Inserting
<1>3. CASE lib_malloc_make(t)
    BY <1>3, <1>0 DEF lib_malloc_make, Local, Entering, Dying, Adding, Subbing, Asking,
       Inserting
<1>4. CASE lib_malloc_zero(t)
    BY <1>4, <1>0 DEF lib_malloc_zero, Local, Entering, Dying, Adding, Subbing, Asking,
       Inserting
<1>5. CASE lib_malloc_alloc(t)
    BY <1>5, <1>0 DEF lib_malloc_alloc, Local, Entering, Dying, Adding, Subbing, Asking,
       Inserting, Pointers, HeldInv
<1>6. CASE lib_malloc_fails(t)
    BY <1>6, <1>0 DEF lib_malloc_fails, Local, Entering, Dying, Adding, Subbing, Asking,
       Inserting
<1>7. CASE lib_page_insert_walk(t)
    BY <1>7, <1>0 DEF lib_page_insert_walk, Local, Entering, Dying, Adding, Subbing,
       Asking, Inserting, Pointers, Current
<1>8. CASE lib_page_insert_lock(t)
    BY <1>8, <1>0 DEF lib_page_insert_lock, Local, Entering, Dying, Adding, Subbing,
       Asking, Inserting, Pointers
<1>9. CASE lib_page_insert_create(t)
    BY <1>9, <1>0 DEF lib_page_insert_create, Local, Entering, Dying, Adding, Subbing,
       Asking, Inserting, Pointers
<1>10. CASE lib_page_insert_bit(t)
    BY <1>10, <1>0 DEF lib_page_insert_bit, Local, Entering, Dying, Adding, Subbing,
       Asking, Inserting
<1>11. CASE lib_flag_add_select(t)
    BY <1>11, <1>0 DEF lib_flag_add_select, Local, Entering, Dying, Adding, Subbing,
       Asking, Inserting
<1>12. CASE lockinfo(t)
    BY <1>12, <1>0 DEF lockinfo, Local, Entering, Dying, Adding, Subbing, Asking, Inserting
<1>13. CASE lib_flag_add_flag(t)
    BY <1>13, <1>0 DEF lib_flag_add_flag, Local, Entering, Dying, Adding, Subbing, Asking,
       Inserting, Pointers
<1>14. CASE unlockinfo(t)
    BY <1>14, <1>0 DEF unlockinfo, Local, Entering, Dying, Adding, Subbing, Asking, Inserting
<1>15. CASE lib_flag_sub_select(t)
    BY <1>15, <1>0 DEF lib_flag_sub_select, Local, Entering, Dying, Adding, Subbing,
       Asking, Inserting
<1>16. CASE lib_flag_sub_flag(t)
    BY <1>16, <1>0, SubCount DEF lib_flag_sub_flag, Local, Pointers, Entering, Dying,
       Adding, Subbing, Asking, Inserting
<1>17. CASE lib_flag_sub_unlock(t)
    BY <1>17, <1>0 DEF lib_flag_sub_unlock, Local, Entering, Dying, Adding, Subbing,
       Asking, Inserting, Pointers
<1>18. CASE __lib_free_delete(t)
    BY <1>18, <1>0 DEF __lib_free_delete, Local, Entering, Dying, Adding, Subbing, Asking,
       Inserting, Pointers
<1>19. CASE __lib_free_free(t)
    BY <1>19, <1>0 DEF __lib_free_free, Local, Entering, Dying, Adding, Subbing, Asking,
       Inserting
<1>20. CASE lib_realloc_call(t)
    BY <1>20, <1>0 DEF lib_realloc_call, Local, Entering, Dying, Adding, Subbing, Asking,
       Inserting
<1>21. CASE lib_realloc_stays(t)
    BY <1>21, <1>0 DEF lib_realloc_stays, Local, Entering, Dying, Adding, Subbing, Asking,
       Inserting
<1>22. CASE lib_realloc_moves(t)
    <2>1. PICK n \in Addr \ allocated :
            /\ allocated' = (allocated \ {old[t]}) \cup {n}
            /\ info' = [info EXCEPT ![n] = info[old[t]]]
            /\ ptr' = [ptr EXCEPT ![t] = n]
            /\ held' = [held EXCEPT ![ref[t]] = n]
        BY <1>22 DEF lib_realloc_moves
    <2>2. /\ pc[t] = "realloc" /\ pc' = [pc EXCEPT ![t] = "delete_old"]
          /\ old' = old /\ ref' = ref /\ ref2' = ref2 /\ level' = level /\ bits' = bits /\ pages' = pages
          /\ hit' = hit \ {old[t]}
          /\ ref[t] \in Private /\ old[t] \in Addr /\ held[ref[t]] = old[t] /\ ptr[t] = NULL
        BY <1>22, <2>1 DEF lib_realloc_moves, LocalInv, Local
    <2>5. old[t] \in allocated /\ Pointers(old[t]) = {ref[t]} /\ info[old[t]].flag = 1
        <3>1. ref[t] \in Private /\ ref[t] \in Ref /\ held[ref[t]] # NULL
            BY <2>2
        <3>2. held[ref[t]] \in allocated /\ Pointers(held[ref[t]]) = {ref[t]} /\ info[held[ref[t]]].flag = 1
            BY <3>1 DEF HeldInv
        <3> QED BY <2>2, <3>2
    <2>6. \A r \in Ref : held[r] # n
        BY <2>1 DEF HeldInv
    <2>3. Pointers(n)' \subseteq {ref[t]} /\ held'[ref[t]] = n
        BY <2>1, <2>2, <2>5, <2>6 DEF Pointers
    <2>4. info'[n].flag = 1
        BY <2>1, <2>2, <2>5
    <2> QED BY <2>1, <2>2, <2>3, <2>4, <1>0 DEF Local, Entering, Dying, Adding, Subbing,
       Asking, Inserting
<1>23. CASE lib_realloc_delete(t)
    BY <1>23, <1>0 DEF lib_realloc_delete, Local, Entering, Dying, Adding, Subbing,
       Asking, Inserting, Pointers
<1> QED
    BY <1>1, <1>2, <1>3, <1>4, <1>5, <1>6, <1>7, <1>8, <1>9, <1>10, <1>11, <1>12, <1>13,
       <1>14, <1>15, <1>16, <1>17, <1>18, <1>19, <1>20, <1>21, <1>22, <1>23
    DEF Step, lib_malloc, lib_page_insert, lib_free, lib_realloc

-----------------------------------------------------------------------------
(* A pointer variable is used by one call at a time, a block has one owner.*)

(* A thread takes pointers no call is about, and owns what was free or     *)
(* what it gave the last reference of back.                                *)
LEMMA OwnEffect ==
    ASSUME AllOf, NEW t \in Threads, Step(t)
    PROVE  /\ \A x \in Vars(t)' : x \in Vars(t) \/ ~Busy(x)
           /\ \A a \in Addr : Owns(t, a)' =>
                \/ Owns(t, a) \/ (a \notin allocated /\ a \in allocated')
                \/ pc[t] = "sub" /\ Pointers(a) = {ref[t]}
<1> USE LibAssumption DEF LibAssumption, AllOf, TypeOK, tables, memory, counters, call, Goto, Return
<1>1. CASE lib_malloc_call(t)
    BY <1>1 DEF lib_malloc_call, Vars, Owns, Entering, Dying, Adding, Subbing, Asking, Inserting
<1>2. CASE lib_malloc_global(t)
    BY <1>2 DEF lib_malloc_global, Vars, Owns, Entering, Dying, Adding, Subbing, Asking,
       Inserting
<1>3. CASE lib_malloc_make(t)
    BY <1>3 DEF lib_malloc_make, Vars, Owns, Entering, Dying, Adding, Subbing, Asking, Inserting
<1>4. CASE lib_malloc_zero(t)
    BY <1>4 DEF lib_malloc_zero, Vars, Owns, Entering, Dying, Adding, Subbing, Asking, Inserting
<1>5. CASE lib_malloc_alloc(t)
    BY <1>5 DEF lib_malloc_alloc, Vars, Owns, Entering, Dying, Adding, Subbing, Asking,
       Inserting
<1>6. CASE lib_malloc_fails(t)
    BY <1>6 DEF lib_malloc_fails, Vars, Owns, Entering, Dying, Adding, Subbing, Asking,
       Inserting
<1>7. CASE lib_page_insert_walk(t)
    BY <1>7 DEF lib_page_insert_walk, Vars, Owns, Entering, Dying, Adding, Subbing,
       Asking, Inserting
<1>8. CASE lib_page_insert_lock(t)
    BY <1>8 DEF lib_page_insert_lock, Vars, Owns, Entering, Dying, Adding, Subbing,
       Asking, Inserting
<1>9. CASE lib_page_insert_create(t)
    BY <1>9 DEF lib_page_insert_create, Vars, Owns, Entering, Dying, Adding, Subbing,
       Asking, Inserting
<1>10. CASE lib_page_insert_bit(t)
    BY <1>10 DEF lib_page_insert_bit, Vars, Owns, Entering, Dying, Adding, Subbing,
       Asking, Inserting
<1>11. CASE lib_flag_add_select(t)
    BY <1>11 DEF lib_flag_add_select, Vars, Owns, Entering, Dying, Adding, Subbing,
       Asking, Inserting
<1>12. CASE lockinfo(t)
    BY <1>12 DEF lockinfo, Vars, Owns, Entering, Dying, Adding, Subbing, Asking, Inserting
<1>13. CASE lib_flag_add_flag(t)
    BY <1>13 DEF lib_flag_add_flag, Vars, Owns, Entering, Dying, Adding, Subbing, Asking,
       Inserting
<1>14. CASE unlockinfo(t)
    BY <1>14 DEF unlockinfo, Vars, Owns, Entering, Dying, Adding, Subbing, Asking, Inserting
<1>15. CASE lib_flag_sub_select(t)
    BY <1>15 DEF lib_flag_sub_select, Vars, Owns, Entering, Dying, Adding, Subbing,
       Asking, Inserting
<1>16. CASE lib_flag_sub_flag(t)
    BY <1>16, SubCount DEF lib_flag_sub_flag, Vars, Owns, Entering, Dying, Adding,
       Subbing, Asking, Inserting
<1>17. CASE lib_flag_sub_unlock(t)
    BY <1>17 DEF lib_flag_sub_unlock, Vars, Owns, Entering, Dying, Adding, Subbing,
       Asking, Inserting
<1>18. CASE __lib_free_delete(t)
    BY <1>18 DEF __lib_free_delete, Vars, Owns, Entering, Dying, Adding, Subbing, Asking,
       Inserting
<1>19. CASE __lib_free_free(t)
    BY <1>19 DEF __lib_free_free, Vars, Owns, Entering, Dying, Adding, Subbing, Asking,
       Inserting
<1>20. CASE lib_realloc_call(t)
    BY <1>20 DEF lib_realloc_call, Vars, Owns, Entering, Dying, Adding, Subbing, Asking,
       Inserting
<1>21. CASE lib_realloc_stays(t)
    BY <1>21 DEF lib_realloc_stays, Vars, Owns, Entering, Dying, Adding, Subbing, Asking,
       Inserting
<1>22. CASE lib_realloc_moves(t)
    BY <1>22 DEF lib_realloc_moves, Vars, Owns, Entering, Dying, Adding, Subbing, Asking,
       Inserting
<1>23. CASE lib_realloc_delete(t)
    BY <1>23 DEF lib_realloc_delete, Vars, Owns, Entering, Dying, Adding, Subbing, Asking,
       Inserting
<1> QED
    BY <1>1, <1>2, <1>3, <1>4, <1>5, <1>6, <1>7, <1>8, <1>9, <1>10, <1>11, <1>12, <1>13,
       <1>14, <1>15, <1>16, <1>17, <1>18, <1>19, <1>20, <1>21, <1>22, <1>23
    DEF Step, lib_malloc, lib_page_insert, lib_free, lib_realloc

(* An owned block is pointed to by nothing but the pointers of its owner.  *)
LEMMA OwnedPointers ==
    ASSUME AllOf, NEW u \in Threads, NEW a \in Addr, Owns(u, a)
    PROVE  a \in allocated /\ \A s \in Pointers(a) : s \in Vars(u)
BY LibAssumption DEF LibAssumption, AllOf, HeldInv, LocalInv, Local, Owns, Pointers, Vars,
   Entering, Dying, Inserting

(* Every step keeps AloneInv.                                              *)
LEMMA AloneStep ==
    ASSUME AllOf, NEW t \in Threads, Step(t)
    PROVE  AloneInv'
<1>1. \A u \in Threads : u # t => /\ Vars(u)' = Vars(u)
                                  /\ \A a \in Addr : Owns(u, a)' = Owns(u, a)
    BY OthersStay DEF AllOf, Vars, Owns
<1>2. ASSUME NEW u \in Threads, u # t
      PROVE  /\ Vars(t)' \cap Vars(u)' = {}
             /\ \A a \in Addr : ~(Owns(t, a)' /\ Owns(u, a)')
    <2>1. Vars(t)' \cap Vars(u) = {}
        BY <1>2, OwnEffect DEF AllOf, AloneInv, Busy, Vars
    <2>2. ASSUME NEW a \in Addr, Owns(t, a)', Owns(u, a) PROVE FALSE
        <3>1. a \in allocated /\ \A s \in Pointers(a) : s \in Vars(u)
            BY <2>2, OwnedPointers
        <3>2. ~Owns(t, a)
            BY <1>2, <2>2 DEF AllOf, AloneInv
        <3>3. pc[t] = "sub" /\ Pointers(a) = {ref[t]}
            BY <2>2, <3>1, <3>2, OwnEffect
        <3>4. ref[t] \in Vars(t)
            BY <3>3, LibAssumption DEF AllOf, LocalInv, Local, Vars, LibAssumption
        <3> QED BY <1>2, <3>1, <3>3, <3>4 DEF AllOf, AloneInv
    <2> QED BY <1>1, <1>2, <2>1, <2>2
<1> QED BY <1>1, <1>2 DEF AllOf, AloneInv

-----------------------------------------------------------------------------
(* What is pointed to or owned is allocated.                               *)

(* Memory is given back by its owner, or by a realloc that moves it.       *)
LEMMA AllocatedEffect ==
    ASSUME AllOf, NEW t \in Threads, Step(t), NEW a \in allocated, a \notin allocated'
    PROVE  /\ \/ pc[t] = "free" /\ a = ptr[t] /\ held' = held
              \/ /\ pc[t] = "realloc" /\ pc'[t] = "delete_old" /\ a = old[t] /\ old'[t] = a
                 /\ bits' = bits /\ held'[ref[t]] # a
           /\ ~Owns(t, a)'
<1> USE LibAssumption DEF LibAssumption, AllOf, TypeOK, tables, memory, counters, call, Goto, Return
<1>1. CASE lib_malloc_call(t)
    BY <1>1 DEF lib_malloc_call
<1>2. CASE lib_malloc_global(t)
    BY <1>2 DEF lib_malloc_global
<1>3. CASE lib_malloc_make(t)
    BY <1>3 DEF lib_malloc_make
<1>4. CASE lib_malloc_zero(t)
    BY <1>4 DEF lib_malloc_zero
<1>5. CASE lib_malloc_alloc(t)
    BY <1>5 DEF lib_malloc_alloc
<1>6. CASE lib_malloc_fails(t)
    BY <1>6 DEF lib_malloc_fails
<1>7. CASE lib_page_insert_walk(t)
    BY <1>7 DEF lib_page_insert_walk
<1>8. CASE lib_page_insert_lock(t)
    BY <1>8 DEF lib_page_insert_lock
<1>9. CASE lib_page_insert_create(t)
    BY <1>9 DEF lib_page_insert_create
<1>10. CASE lib_page_insert_bit(t)
    BY <1>10 DEF lib_page_insert_bit
<1>11. CASE lib_flag_add_select(t)
    BY <1>11 DEF lib_flag_add_select
<1>12. CASE lockinfo(t)
    BY <1>12 DEF lockinfo
<1>13. CASE lib_flag_add_flag(t)
    BY <1>13 DEF lib_flag_add_flag
<1>14. CASE unlockinfo(t)
    BY <1>14 DEF unlockinfo
<1>15. CASE lib_flag_sub_select(t)
    BY <1>15 DEF lib_flag_sub_select
<1>16. CASE lib_flag_sub_flag(t)
    BY <1>16 DEF lib_flag_sub_flag
<1>17. CASE lib_flag_sub_unlock(t)
    BY <1>17 DEF lib_flag_sub_unlock
<1>18. CASE __lib_free_delete(t)
    BY <1>18 DEF __lib_free_delete
<1>19. CASE __lib_free_free(t)
    BY <1>19 DEF __lib_free_free, Owns, Entering, Dying, Adding, Subbing, Asking, Inserting
<1>20. CASE lib_realloc_call(t)
    BY <1>20 DEF lib_realloc_call
<1>21. CASE lib_realloc_stays(t)
    BY <1>21 DEF lib_realloc_stays
<1>22. CASE lib_realloc_moves(t)
    BY <1>22, MovedBlock DEF lib_realloc_moves, Owns, Entering, Dying, Adding, Subbing,
       Asking, Inserting
<1>23. CASE lib_realloc_delete(t)
    BY <1>23 DEF lib_realloc_delete
<1> QED
    BY <1>1, <1>2, <1>3, <1>4, <1>5, <1>6, <1>7, <1>8, <1>9, <1>10, <1>11, <1>12, <1>13,
       <1>14, <1>15, <1>16, <1>17, <1>18, <1>19, <1>20, <1>21, <1>22, <1>23
    DEF Step, lib_malloc, lib_page_insert, lib_free, lib_realloc

(* What is pointed to stays allocated.                                     *)
LEMMA HeldPointed ==
    ASSUME AllOf, NEW t \in Threads, Step(t), NEW r \in Ref, held'[r] # NULL
    PROVE  held'[r] \in allocated'
<1>1. ASSUME NEW a \in allocated, a = held'[r], a \notin allocated' PROVE FALSE
    <2>1. CASE pc[t] = "free" /\ a = ptr[t] /\ held' = held
        <3>1. r \in Pointers(ptr[t])
            BY <1>1, <2>1 DEF Pointers
        <3> QED BY <2>1, <3>1 DEF AllOf, LocalInv, Local, Dying
    <2>2. CASE pc[t] = "realloc" /\ a = old[t] /\ held'[ref[t]] # a
        <3>1. Pointers(a) = {ref[t]} /\ held[ref[t]] = a /\ r # ref[t]
            BY <1>1, <2>2, MovedBlock
        <3>2. held[r] # a
            BY <3>1 DEF Pointers
        <3>3. held' # [held EXCEPT ![r] = a]
            BY <1>1, <2>2, <3>1, MovedBlock DEF AllOf, TypeOK
        <3>4. held' # held
            BY <1>1, <3>2
        <3>5. PICK x \in Ref : \/ held' = [held EXCEPT ![x] = NULL]
                               \/ \E b \in Addr : held' = [held EXCEPT ![x] = b]
            BY <3>4, HeldEffect
        <3>6. x = ref[t]
            BY <2>2, <3>1, <3>5, MovedBlock DEF AllOf, TypeOK
        <3> QED BY <1>1, <3>1, <3>2, <3>5, <3>6 DEF AllOf, TypeOK
    <2> QED BY <1>1, <2>1, <2>2, AllocatedEffect
<1> USE LibAssumption DEF LibAssumption, AllOf, TypeOK, tables, memory, counters, call, Goto, Return
<1>2. held'[r] # NULL => held'[r] \in allocated \/ held'[r] \in allocated'
    <2> SUFFICES ASSUME held'[r] # held[r] PROVE held'[r] \in allocated \/ held'[r] \in allocated'
        BY DEF HeldInv
    <2>1. CASE lib_realloc_moves(t)
        BY <2>1, MovedBlock DEF lib_realloc_moves
    <2>2. CASE lib_page_insert_bit(t)
        <3>1. Owns(t, ptr[t]) /\ ptr[t] \in Addr
            BY <2>2 DEF lib_page_insert_bit, Owns, LocalInv, Local, Entering, Inserting
        <3>2. ptr[t] \in allocated
            BY <3>1 DEF HeldInv
        <3> QED BY <2>2, <3>2 DEF lib_page_insert_bit
    <2>3. CASE lib_flag_add_select(t)
        BY <2>3 DEF lib_flag_add_select, HeldInv
    <2>4. CASE lib_flag_add_flag(t)
        BY <2>4 DEF lib_flag_add_flag, LocalInv, Local, Adding, HeldInv
    <2>5. CASE lib_flag_sub_select(t)
        BY <2>5 DEF lib_flag_sub_select
    <2>6. CASE lib_flag_sub_flag(t)
        BY <2>6, SubCount DEF lib_flag_sub_flag
    <2>7. held' = held \/ lib_realloc_moves(t) \/ lib_page_insert_bit(t) \/ lib_flag_add_select(t)
            \/ lib_flag_add_flag(t) \/ lib_flag_sub_select(t) \/ lib_flag_sub_flag(t)
        <3> USE DEF AllOf
        <3> QED BY DEF Step, lib_malloc, lib_page_insert, lib_free, lib_realloc,
           lib_malloc_call, lib_malloc_global, lib_malloc_make, lib_malloc_zero,
           lib_malloc_alloc, lib_malloc_fails, lib_page_insert_walk,
           lib_page_insert_lock, lib_page_insert_create, lockinfo, unlockinfo,
           lib_flag_sub_unlock, __lib_free_delete, __lib_free_free, lib_realloc_call,
           lib_realloc_stays, lib_realloc_delete
    <2> QED BY <2>1, <2>2, <2>3, <2>4, <2>5, <2>6, <2>7
<1> QED BY <1>1, <1>2

(* The count of a block is 1 when it is new, and changed under its lock.   *)
LEMMA FlagEffect ==
    ASSUME AllOf, NEW t \in Threads, Step(t), NEW a \in Addr
    PROVE  \/ info'[a].flag = info[a].flag
           \/ a \notin allocated /\ a \in allocated' /\ info'[a].flag = 1
           \/ /\ pc[t] = "add" /\ pc'[t] = "unlock" /\ a = ptr[t] /\ allocated' = allocated
              /\ info'[a].flag = Char(info[a].flag + 1) /\ held' = [held EXCEPT ![ref2[t]] = a]
           \/ /\ pc[t] = "sub" /\ pc'[t] \in {"unlock", "unlock_free"} /\ a = ptr[t]
              /\ allocated' = allocated
              /\ info'[a].flag = info[a].flag - 1 /\ held' = [held EXCEPT ![ref[t]] = NULL]
<1> USE LibAssumption DEF LibAssumption, AllOf, TypeOK, tables, memory, counters, call, Goto, Return
<1>1. CASE lib_malloc_call(t)
    BY <1>1 DEF lib_malloc_call
<1>2. CASE lib_malloc_global(t)
    BY <1>2 DEF lib_malloc_global
<1>3. CASE lib_malloc_make(t)
    BY <1>3 DEF lib_malloc_make
<1>4. CASE lib_malloc_zero(t)
    BY <1>4 DEF lib_malloc_zero
<1>5. CASE lib_malloc_alloc(t)
    BY <1>5 DEF lib_malloc_alloc
<1>6. CASE lib_malloc_fails(t)
    BY <1>6 DEF lib_malloc_fails
<1>7. CASE lib_page_insert_walk(t)
    BY <1>7 DEF lib_page_insert_walk
<1>8. CASE lib_page_insert_lock(t)
    BY <1>8 DEF lib_page_insert_lock
<1>9. CASE lib_page_insert_create(t)
    BY <1>9 DEF lib_page_insert_create
<1>10. CASE lib_page_insert_bit(t)
    BY <1>10 DEF lib_page_insert_bit
<1>11. CASE lib_flag_add_select(t)
    BY <1>11 DEF lib_flag_add_select
<1>12. CASE lockinfo(t)
    <2>1. ptr[t] \in Addr
        BY <1>12 DEF lockinfo, LocalInv, Local, Dying, Adding, Subbing
    <2> QED BY <1>12, <2>1 DEF lockinfo
<1>13. CASE lib_flag_add_flag(t)
    <2>1. ptr[t] \in Addr
        BY <1>13 DEF lib_flag_add_flag, LocalInv, Local, Adding
    <2>2. info'[ptr[t]].flag = Char(info[ptr[t]].flag + 1)
        BY <1>13, <2>1 DEF lib_flag_add_flag
    <2>3. a # ptr[t] => info'[a].flag = info[a].flag
        BY <1>13, <2>1 DEF lib_flag_add_flag
    <2>4. held' = [held EXCEPT ![ref2[t]] = ptr[t]] /\ pc[t] = "add" /\ pc'[t] = "unlock" /\ allocated' = allocated
        BY <1>13 DEF lib_flag_add_flag
    <2> QED BY <2>2, <2>3, <2>4
<1>14. CASE unlockinfo(t)
    <2>1. ptr[t] \in Addr
        BY <1>14 DEF unlockinfo, LocalInv, Local, Dying, Adding, Subbing
    <2> QED BY <1>14, <2>1 DEF unlockinfo
<1>15. CASE lib_flag_sub_select(t)
    BY <1>15 DEF lib_flag_sub_select
<1>16. CASE lib_flag_sub_flag(t)
    <2>1. ptr[t] \in Addr
        BY <1>16 DEF lib_flag_sub_flag, LocalInv, Local, Dying, Adding, Subbing
    <2> QED BY <1>16, <2>1 DEF lib_flag_sub_flag
<1>17. CASE lib_flag_sub_unlock(t)
    <2>1. ptr[t] \in Addr
        BY <1>17 DEF lib_flag_sub_unlock, LocalInv, Local, Dying, Adding, Subbing
    <2> QED BY <1>17, <2>1 DEF lib_flag_sub_unlock
<1>18. CASE __lib_free_delete(t)
    BY <1>18 DEF __lib_free_delete
<1>19. CASE __lib_free_free(t)
    BY <1>19 DEF __lib_free_free
<1>20. CASE lib_realloc_call(t)
    BY <1>20 DEF lib_realloc_call
<1>21. CASE lib_realloc_stays(t)
    BY <1>21 DEF lib_realloc_stays
<1>22. CASE lib_realloc_moves(t)
    <2>1. pc[t] = "realloc"
        BY <1>22 DEF lib_realloc_moves
    <2>2. info[old[t]].flag = 1
        BY <2>1, MovedBlock
    <2> QED BY <1>22, <2>2 DEF lib_realloc_moves
<1>23. CASE lib_realloc_delete(t)
    BY <1>23 DEF lib_realloc_delete
<1> QED
    BY <1>1, <1>2, <1>3, <1>4, <1>5, <1>6, <1>7, <1>8, <1>9, <1>10, <1>11, <1>12, <1>13,
       <1>14, <1>15, <1>16, <1>17, <1>18, <1>19, <1>20, <1>21, <1>22, <1>23
    DEF Step, lib_malloc, lib_page_insert, lib_free, lib_realloc

(* What is owned stays allocated.                                          *)
LEMMA OwnedAllocated ==
    ASSUME AllOf, NEW t \in Threads, Step(t), NEW u \in Threads, NEW a \in Addr, Owns(u, a)'
    PROVE  a \in allocated'
<1>1. CASE u = t
    <2>1. CASE a \in allocated
        BY <1>1, <2>1, AllocatedEffect
    <2>2. CASE a \notin allocated
        <3>1. ~Owns(t, a)
            BY <2>2 DEF AllOf, HeldInv
        <3>2. CASE pc[t] = "sub" /\ Pointers(a) = {ref[t]}
            <4>1. ref[t] \in Ref /\ held[ref[t]] = a
                BY <3>2 DEF Pointers
            <4> QED BY <2>2, <4>1, LibAssumption DEF LibAssumption, AllOf, HeldInv
        <3> QED BY <1>1, <3>1, <3>2, OwnEffect
    <2> QED BY <2>1, <2>2
<1>2. CASE u # t
    <2>1. Owns(u, a)
        BY <1>2, OthersStay DEF AllOf, Owns
    <2>2. a \in allocated /\ \A s \in Pointers(a) : s \in Vars(u)
        BY <2>1, OwnedPointers
    <2>3. ~Owns(t, a)
        BY <1>2, <2>1 DEF AllOf, AloneInv
    <2>4. ASSUME pc[t] = "realloc", a = old[t] PROVE FALSE
        <3>1. ref[t] \in Pointers(a) /\ ref[t] \in Vars(t)
            BY <2>4, MovedBlock, LibAssumption, ZenonT(60) DEF LibAssumption, Vars
        <3> QED BY <1>2, <2>2, <3>1 DEF AllOf, AloneInv
    <2> QED BY <2>2, <2>3, <2>4, AllocatedEffect DEF Owns, Dying
<1> QED BY <1>1, <1>2

(* A block that is resized is not shared.                                  *)
LEMMA PrivatePointers ==
    ASSUME AllOf, NEW t \in Threads, Step(t), NEW r \in Private, NEW b \in Addr, held'[r] = b
    PROVE  Pointers(b)' = {r} /\ info'[b].flag = 1
<1>0. r \in Ref /\ b \in Addr /\ b # NULL /\ held \in [Ref -> Addr \cup {NULL}]
    BY TypeStep, LibAssumption DEF LibAssumption, AllOf, TypeOK
<1>1. CASE held[r] = b
    <2>1. Pointers(b) = {r} /\ info[b].flag = 1 /\ b \in allocated
        BY <1>0, <1>1 DEF AllOf, HeldInv
    <2>2. ASSUME NEW s \in Ref, s # r, held'[s] = b PROVE FALSE
        <3>1. held[s] # b
            BY <2>1, <2>2 DEF Pointers
        <3>2. PICK x \in Ref :
                \/ held' = [held EXCEPT ![x] = NULL]
                \/ \E a \in Addr :
                     /\ held' = [held EXCEPT ![x] = a]
                     /\ \/ Owns(t, a) /\ pc[t] \in Entering /\ x = ref[t]
                        \/ a \notin allocated
                        \/ \E y \in Pointers(a) \ Private : Unused(y, t)
            BY <2>2, <3>1, HeldEffect
        <3>3. x = s
            BY <1>0, <2>2, <3>1, <3>2
        <3>4. \/ Owns(t, b) /\ pc[t] \in Entering /\ s = ref[t]
              \/ b \notin allocated
              \/ \E y \in Pointers(b) \ Private : Unused(y, t)
            BY <1>0, <2>2, <3>1, <3>2, <3>3
        <3>5. Owns(t, b) /\ pc[t] \in Entering => Pointers(b) \subseteq {ref[t]}
            BY DEF AllOf, LocalInv, Local, Owns
        <3> QED BY <2>1, <2>2, <3>4, <3>5
    <2>3. Pointers(b)' = {r}
        BY <1>0, <2>2 DEF Pointers
    <2>4. ASSUME pc[t] = "add", b = ptr[t] PROVE FALSE
        <3>1. ref[t] \in Pointers(b) /\ ref[t] \notin Private
            BY <2>4 DEF AllOf, LocalInv, Local, Pointers, Adding
        <3> QED BY <2>1, <3>1
    <2>5. ASSUME pc[t] = "sub", b = ptr[t], held' = [held EXCEPT ![ref[t]] = NULL] PROVE FALSE
        <3>1. ref[t] \in Pointers(b) /\ ref[t] \in Ref
            BY <2>5 DEF AllOf, LocalInv, Local, Pointers, Subbing
        <3> QED BY <1>0, <2>1, <2>5, <3>1
    <2>6. info'[b].flag = info[b].flag
        BY <1>0, <2>1, <2>4, <2>5, FlagEffect
    <2> QED BY <2>1, <2>3, <2>6
<1>2. CASE held[r] # b
    <2>1. PICK x \in Ref :
                \/ held' = [held EXCEPT ![x] = NULL]
                \/ \E a \in Addr :
                     /\ held' = [held EXCEPT ![x] = a]
                     /\ \/ Owns(t, a) /\ pc[t] \in Entering /\ x = ref[t]
                        \/ a \notin allocated /\ info'[a].flag = 1
                        \/ x \notin Private
        BY <1>2, HeldEffect
    <2>2. x = r
        BY <1>0, <1>2, <2>1
    <2>3. held' = [held EXCEPT ![r] = b]
        BY <1>0, <1>2, <2>1, <2>2
    <2>4. \/ Owns(t, b) /\ pc[t] \in Entering /\ r = ref[t]
          \/ b \notin allocated /\ info'[b].flag = 1
        BY <1>0, <1>2, <2>1, <2>2
    <2>5. CASE Owns(t, b) /\ pc[t] \in Entering /\ r = ref[t]
        <3>1. Pointers(b) \subseteq {r} /\ info[b].flag = 1 /\ b \in allocated
            BY <1>0, <2>5 DEF AllOf, LocalInv, Local, HeldInv, Owns
        <3>2. info'[b].flag = 1
            BY <1>0, <2>5, <3>1, FlagEffect DEF Entering, Inserting
        <3> QED BY <1>0, <2>3, <3>1, <3>2 DEF Pointers
    <2>6. CASE b \notin allocated /\ info'[b].flag = 1
        <3>1. \A s \in Ref : held[s] # b
            BY <1>0, <2>6 DEF AllOf, HeldInv
        <3> QED BY <1>0, <2>3, <2>6, <3>1 DEF Pointers
    <2> QED BY <2>4, <2>5, <2>6
<1> QED BY <1>1, <1>2

(* Every step keeps HeldInv.                                               *)
LEMMA HeldStep ==
    ASSUME AllOf, NEW t \in Threads, Step(t)
    PROVE  HeldInv'
<1>1. held' \in [Ref -> Addr \cup {NULL}]
    BY TypeStep DEF TypeOK
<1>2. ASSUME NEW r \in Private, held'[r] # NULL
      PROVE  (Pointers(held[r]) = {r} /\ info[held[r]].flag = 1)'
    <2>1. PICK b \in Addr : held'[r] = b
        BY <1>1, <1>2, LibAssumption DEF LibAssumption
    <2>2. Pointers(b)' = {r} /\ info'[b].flag = 1
        BY <2>1, PrivatePointers
    <2> QED BY <2>1, <2>2 DEF Pointers
<1> QED BY <1>2, HeldPointed, OwnedAllocated DEF HeldInv

-----------------------------------------------------------------------------
(* The page table: what is reached stays reached.                          *)

(* A page is created where it is missing.                                  *)
LEMMA PagesEffect ==
    ASSUME AllOf, NEW t \in Threads, Step(t)
    PROVE  \/ pages' = pages
           \/ /\ pc[t] = "create" /\ Current(t) \notin pages
              /\ pages' = (pages \ Below(Current(t))) \cup {Current(t)}
<1> USE LibAssumption DEF LibAssumption, AllOf, TypeOK, tables, memory, counters, call, Goto, Return
<1>1. CASE lib_malloc_call(t)
    BY <1>1 DEF lib_malloc_call
<1>2. CASE lib_malloc_global(t)
    BY <1>2 DEF lib_malloc_global
<1>3. CASE lib_malloc_make(t)
    BY <1>3 DEF lib_malloc_make
<1>4. CASE lib_malloc_zero(t)
    BY <1>4 DEF lib_malloc_zero
<1>5. CASE lib_malloc_alloc(t)
    BY <1>5 DEF lib_malloc_alloc
<1>6. CASE lib_malloc_fails(t)
    BY <1>6 DEF lib_malloc_fails
<1>7. CASE lib_page_insert_walk(t)
    BY <1>7 DEF lib_page_insert_walk
<1>8. CASE lib_page_insert_lock(t)
    BY <1>8 DEF lib_page_insert_lock
<1>9. CASE lib_page_insert_create(t)
    BY <1>9 DEF lib_page_insert_create, calloc_page
<1>10. CASE lib_page_insert_bit(t)
    BY <1>10 DEF lib_page_insert_bit
<1>11. CASE lib_flag_add_select(t)
    BY <1>11 DEF lib_flag_add_select
<1>12. CASE lockinfo(t)
    BY <1>12 DEF lockinfo
<1>13. CASE lib_flag_add_flag(t)
    BY <1>13 DEF lib_flag_add_flag
<1>14. CASE unlockinfo(t)
    BY <1>14 DEF unlockinfo
<1>15. CASE lib_flag_sub_select(t)
    BY <1>15 DEF lib_flag_sub_select
<1>16. CASE lib_flag_sub_flag(t)
    BY <1>16 DEF lib_flag_sub_flag
<1>17. CASE lib_flag_sub_unlock(t)
    BY <1>17 DEF lib_flag_sub_unlock
<1>18. CASE __lib_free_delete(t)
    BY <1>18 DEF __lib_free_delete
<1>19. CASE __lib_free_free(t)
    BY <1>19 DEF __lib_free_free
<1>20. CASE lib_realloc_call(t)
    BY <1>20 DEF lib_realloc_call
<1>21. CASE lib_realloc_stays(t)
    BY <1>21 DEF lib_realloc_stays
<1>22. CASE lib_realloc_moves(t)
    BY <1>22 DEF lib_realloc_moves
<1>23. CASE lib_realloc_delete(t)
    BY <1>23 DEF lib_realloc_delete
<1> QED
    BY <1>1, <1>2, <1>3, <1>4, <1>5, <1>6, <1>7, <1>8, <1>9, <1>10, <1>11, <1>12, <1>13,
       <1>14, <1>15, <1>16, <1>17, <1>18, <1>19, <1>20, <1>21, <1>22, <1>23
    DEF Step, lib_malloc, lib_page_insert, lib_free, lib_realloc

(* A page that a walk has passed is not missing again.                     *)
LEMMA PrefixKept ==
    ASSUME AllOf, NEW t \in Threads, Step(t), NEW a \in Addr, NEW k \in Nat, k <= Len(Path[a]),
           \A i \in 1..k : Path[a][i] \in pages
    PROVE  \A i \in 1..k : Path[a][i] \in pages'
<1> DEFINE n == Current(t)
<1>1. ASSUME n \notin pages, NEW i \in 1..k, Path[a][i] \in Below(n) PROVE FALSE
    <2>1. PICK b \in Addr : \E x, y \in DOMAIN Path[b] :
                x < y /\ Path[b][x] = n /\ Path[b][y] = Path[a][i]
        BY <1>1 DEF Below
    <2>2. PICK x \in DOMAIN Path[b], y \in DOMAIN Path[b] :
                x < y /\ Path[b][x] = n /\ Path[b][y] = Path[a][i]
        BY <2>1
    <2>3. i \in DOMAIN Path[a] /\ x \in Nat /\ y \in Nat /\ x >= 1 /\ i \in Nat
        BY <2>2, PathFacts
    <2>4. y = i /\ \A j \in 1..y : Path[b][j] = Path[a][j]
        BY <2>2, <2>3, LibAssumption DEF LibAssumption
    <2>5. x \in 1..k /\ Path[a][x] = n
        BY <2>2, <2>3, <2>4
    <2> QED BY <1>1, <2>5
<1> QED BY <1>1, PagesEffect

(* A bit is set when the whole path is passed, and cleared by a call that  *)
(* deletes it: no page above a bit is created again.                       *)
LEMMA BitsEffect ==
    ASSUME AllOf, NEW t \in Threads, Step(t), NEW a \in Addr
    PROVE  /\ a \in bits' /\ a \notin bits =>
                /\ pc[t] = "walk" /\ pc'[t] = "idle" /\ a = ptr[t] /\ level[t] > Len(Path[a])
                /\ allocated' = allocated /\ pages' = pages /\ info' = info /\ hit' = hit
                /\ held' = [held EXCEPT ![ref[t]] = a]
           /\ a \in bits /\ a \notin bits' =>
                /\ \/ pc[t] = "delete" /\ a = ptr[t] /\ pc'[t] = "free"
                   \/ /\ pc[t] = "delete_old" /\ a = old[t] /\ pc'[t] = "walk"
                      /\ a \in allocated /\ ~Registering(a) => a \in hit'
                /\ allocated' = allocated /\ held' = held /\ info' = info
<1> USE LibAssumption DEF LibAssumption, AllOf, TypeOK, tables, memory, counters, call, Goto, Return
<1>0. a \in bits /\ a \in Under(Current(t)) => Current(t) \in pages
    BY DEF TableInv, Reached, Under
<1>1. CASE lib_malloc_call(t)
    BY <1>1 DEF lib_malloc_call
<1>2. CASE lib_malloc_global(t)
    BY <1>2 DEF lib_malloc_global
<1>3. CASE lib_malloc_make(t)
    BY <1>3 DEF lib_malloc_make
<1>4. CASE lib_malloc_zero(t)
    BY <1>4 DEF lib_malloc_zero
<1>5. CASE lib_malloc_alloc(t)
    BY <1>5 DEF lib_malloc_alloc
<1>6. CASE lib_malloc_fails(t)
    BY <1>6 DEF lib_malloc_fails
<1>7. CASE lib_page_insert_walk(t)
    BY <1>7 DEF lib_page_insert_walk
<1>8. CASE lib_page_insert_lock(t)
    BY <1>8 DEF lib_page_insert_lock
<1>9. CASE lib_page_insert_create(t)
    BY <1>9, <1>0 DEF lib_page_insert_create, calloc_page
<1>10. CASE lib_page_insert_bit(t)
    BY <1>10 DEF lib_page_insert_bit
<1>11. CASE lib_flag_add_select(t)
    BY <1>11 DEF lib_flag_add_select
<1>12. CASE lockinfo(t)
    BY <1>12 DEF lockinfo
<1>13. CASE lib_flag_add_flag(t)
    BY <1>13 DEF lib_flag_add_flag
<1>14. CASE unlockinfo(t)
    BY <1>14 DEF unlockinfo
<1>15. CASE lib_flag_sub_select(t)
    BY <1>15 DEF lib_flag_sub_select
<1>16. CASE lib_flag_sub_flag(t)
    BY <1>16 DEF lib_flag_sub_flag
<1>17. CASE lib_flag_sub_unlock(t)
    BY <1>17 DEF lib_flag_sub_unlock
<1>18. CASE __lib_free_delete(t)
    BY <1>18 DEF __lib_free_delete, lib_page_delete
<1>19. CASE __lib_free_free(t)
    BY <1>19 DEF __lib_free_free
<1>20. CASE lib_realloc_call(t)
    BY <1>20 DEF lib_realloc_call
<1>21. CASE lib_realloc_stays(t)
    BY <1>21 DEF lib_realloc_stays
<1>22. CASE lib_realloc_moves(t)
    BY <1>22 DEF lib_realloc_moves
<1>23. CASE lib_realloc_delete(t)
    BY <1>23 DEF lib_realloc_delete, lib_page_delete
<1> QED
    BY <1>1, <1>2, <1>3, <1>4, <1>5, <1>6, <1>7, <1>8, <1>9, <1>10, <1>11, <1>12, <1>13,
       <1>14, <1>15, <1>16, <1>17, <1>18, <1>19, <1>20, <1>21, <1>22, <1>23
    DEF Step, lib_malloc, lib_page_insert, lib_free, lib_realloc

(* Where a walk is after a step, and with which block.                     *)
LEMMA WalkEffect ==
    ASSUME AllOf, NEW t \in Threads, Step(t), pc'[t] \in Inserting
    PROVE  \/ level'[t] = 1
           \/ pc[t] \in Inserting /\ ptr'[t] = ptr[t] /\ level'[t] = level[t]
           \/ /\ pc[t] \in Inserting /\ ptr'[t] = ptr[t] /\ level'[t] = level[t] + 1
              /\ pages' = pages /\ Path[ptr[t]][level[t]] \in pages
<1> USE LibAssumption DEF LibAssumption, AllOf, TypeOK, tables, memory, counters, call, Goto, Return
<1>0. Local(t)
    BY DEF LocalInv
<1>1. CASE lib_malloc_call(t)
    BY <1>1, <1>0 DEF lib_malloc_call, Inserting, Local, Asking, Entering
<1>2. CASE lib_malloc_global(t)
    BY <1>2, <1>0 DEF lib_malloc_global, Inserting, Local, Asking, Entering
<1>3. CASE lib_malloc_make(t)
    BY <1>3, <1>0 DEF lib_malloc_make, Inserting, Local, Asking, Entering
<1>4. CASE lib_malloc_zero(t)
    BY <1>4, <1>0 DEF lib_malloc_zero, Inserting, Local, Asking, Entering
<1>5. CASE lib_malloc_alloc(t)
    BY <1>5, <1>0 DEF lib_malloc_alloc, Inserting, Local, Asking, Entering
<1>6. CASE lib_malloc_fails(t)
    BY <1>6, <1>0 DEF lib_malloc_fails, Inserting, Local, Asking, Entering
<1>7. CASE lib_page_insert_walk(t)
    BY <1>7 DEF lib_page_insert_walk, Inserting, Current
<1>8. CASE lib_page_insert_lock(t)
    BY <1>8, <1>0 DEF lib_page_insert_lock, Inserting, Local, Asking, Entering
<1>9. CASE lib_page_insert_create(t)
    BY <1>9, <1>0 DEF lib_page_insert_create, Inserting, Local, Asking, Entering
<1>10. CASE lib_page_insert_bit(t)
    BY <1>10, <1>0 DEF lib_page_insert_bit, Inserting, Local, Asking, Entering
<1>11. CASE lib_flag_add_select(t)
    BY <1>11, <1>0 DEF lib_flag_add_select, Inserting, Local, Asking, Entering
<1>12. CASE lockinfo(t)
    BY <1>12, <1>0 DEF lockinfo, Inserting, Local, Asking, Entering
<1>13. CASE lib_flag_add_flag(t)
    BY <1>13, <1>0 DEF lib_flag_add_flag, Inserting, Local, Asking, Entering
<1>14. CASE unlockinfo(t)
    BY <1>14, <1>0 DEF unlockinfo, Inserting, Local, Asking, Entering
<1>15. CASE lib_flag_sub_select(t)
    BY <1>15, <1>0 DEF lib_flag_sub_select, Inserting, Local, Asking, Entering
<1>16. CASE lib_flag_sub_flag(t)
    BY <1>16, <1>0 DEF lib_flag_sub_flag, Inserting, Local, Asking, Entering
<1>17. CASE lib_flag_sub_unlock(t)
    BY <1>17, <1>0 DEF lib_flag_sub_unlock, Inserting, Local, Asking, Entering
<1>18. CASE __lib_free_delete(t)
    BY <1>18, <1>0 DEF __lib_free_delete, Inserting, Local, Asking, Entering
<1>19. CASE __lib_free_free(t)
    BY <1>19, <1>0 DEF __lib_free_free, Inserting, Local, Asking, Entering
<1>20. CASE lib_realloc_call(t)
    BY <1>20, <1>0 DEF lib_realloc_call, Inserting, Local, Asking, Entering
<1>21. CASE lib_realloc_stays(t)
    BY <1>21, <1>0 DEF lib_realloc_stays, Inserting, Local, Asking, Entering
<1>22. CASE lib_realloc_moves(t)
    BY <1>22, <1>0 DEF lib_realloc_moves, Inserting, Local, Asking, Entering
<1>23. CASE lib_realloc_delete(t)
    BY <1>23, <1>0 DEF lib_realloc_delete, Inserting, Local, Asking, Entering
<1> QED
    BY <1>1, <1>2, <1>3, <1>4, <1>5, <1>6, <1>7, <1>8, <1>9, <1>10, <1>11, <1>12, <1>13,
       <1>14, <1>15, <1>16, <1>17, <1>18, <1>19, <1>20, <1>21, <1>22, <1>23
    DEF Step, lib_malloc, lib_page_insert, lib_free, lib_realloc

(* What a walk has passed is there.                                        *)
LEMMA WalkStep ==
    ASSUME AllOf, NEW t \in Threads, Step(t), NEW u \in Threads, pc'[u] \in Inserting
    PROVE  \A i \in 1..(level'[u] - 1) : Path[ptr'[u]][i] \in pages'
<1>1. LocalInv' /\ TypeOK'
    BY LocalStep, TypeStep
<1>2. ptr'[u] \in Addr /\ level'[u] \in Nat /\ level'[u] >= 1
    BY <1>1 DEF LocalInv, Local, TypeOK, Entering
<1>3. ASSUME pc[u] \in Inserting, ptr'[u] = ptr[u], level'[u] = level[u]
      PROVE  \A i \in 1..(level[u] - 1) : Path[ptr[u]][i] \in pages'
    <2>1. /\ ptr[u] \in Addr /\ level[u] \in Nat /\ level[u] >= 1
          /\ level[u] <= Len(Path[ptr[u]]) + 1
          /\ \A i \in 1..(level[u] - 1) : Path[ptr[u]][i] \in pages
        BY <1>3, PathFacts DEF AllOf, TypeOK, LocalInv, Local, TableInv, Entering
    <2>2. level[u] - 1 \in Nat /\ level[u] - 1 <= Len(Path[ptr[u]])
        BY <2>1, PathFacts
    <2> QED BY <2>1, <2>2, PrefixKept
<1>4. CASE u # t
    <2>1. pc[u] \in Inserting /\ ptr'[u] = ptr[u] /\ level'[u] = level[u]
        BY <1>4, OthersStay DEF AllOf
    <2> QED BY <1>3, <2>1
<1>5. CASE u = t
    <2>1. CASE level'[t] = 1
        BY <1>5, <2>1
    <2>2. CASE pc[t] \in Inserting /\ ptr'[t] = ptr[t] /\ level'[t] = level[t]
        BY <1>5, <1>3, <2>2
    <2>3. CASE /\ pc[t] \in Inserting /\ ptr'[t] = ptr[t] /\ level'[t] = level[t] + 1
               /\ pages' = pages /\ Path[ptr[t]][level[t]] \in pages
        <3>1. \A i \in 1..(level[t] - 1) : Path[ptr[t]][i] \in pages
            BY <2>3 DEF AllOf, TableInv
        <3>2. level[t] \in Nat /\ level[t] >= 1
            BY DEF AllOf, TypeOK
        <3> QED BY <1>5, <2>3, <3>1, <3>2
    <2> QED BY <1>5, <2>1, <2>2, <2>3, WalkEffect
<1> QED BY <1>4, <1>5

(* The path of a bit is there.                                             *)
LEMMA ReachedStep ==
    ASSUME AllOf, NEW t \in Threads, Step(t), NEW a \in bits'
    PROVE  Reached(a)'
<1>0. a \in Addr
    BY TypeStep DEF TypeOK
<1>1. CASE a \in bits
    <2>1. \A i \in 1..Len(Path[a]) : Path[a][i] \in pages
        BY <1>0, <1>1, PathFacts DEF AllOf, TableInv, Reached
    <2>2. \A i \in 1..Len(Path[a]) : Path[a][i] \in pages'
        BY <1>0, <2>1, PathFacts, PrefixKept
    <2> QED BY <1>0, <2>2, PathFacts DEF Reached
<1>2. CASE a \notin bits
    <2>1. pc[t] = "walk" /\ a = ptr[t] /\ level[t] > Len(Path[a]) /\ pages' = pages
        BY <1>0, <1>2, BitsEffect
    <2>2. level[t] \in Nat /\ \A i \in 1..(level[t] - 1) : Path[a][i] \in pages
        BY <2>1 DEF AllOf, TableInv, TypeOK, Inserting
    <2>3. \A i \in 1..Len(Path[a]) : Path[a][i] \in pages
        BY <1>0, <2>1, <2>2, PathFacts
    <2> QED BY <1>0, <2>1, <2>3, PathFacts DEF Reached
<1> QED BY <1>1, <1>2

(* A bit of free memory is one that a realloc is about to clear.           *)
LEMMA StrayBits ==
    ASSUME AllOf, NEW t \in Threads, Step(t), NEW a \in bits', a \notin allocated'
    PROVE  \E u \in Threads : pc'[u] = "delete_old" /\ old'[u] = a
<1>0. a \in Addr
    BY TypeStep DEF TypeOK
<1>1. CASE a \notin bits
    <2>1. a = ptr[t] /\ pc[t] = "walk" /\ allocated' = allocated
        BY <1>0, <1>1, BitsEffect
    <2>2. a \in allocated
        BY <1>0, <2>1 DEF AllOf, HeldInv, Owns, Entering, Inserting
    <2> QED BY <2>1, <2>2
<1>2. CASE a \in bits /\ a \in allocated
    <2>1. CASE pc[t] = "free" /\ a = ptr[t]
        BY <1>2, <2>1 DEF AllOf, TableInv
    <2> QED BY <1>2, <2>1, AllocatedEffect
<1>3. CASE a \in bits /\ a \notin allocated
    <2>1. PICK u \in Threads : pc[u] = "delete_old" /\ old[u] = a
        BY <1>3 DEF AllOf, TableInv
    <2>2. CASE u # t
        BY <2>1, <2>2, OthersStay DEF AllOf
    <2>3. CASE u = t
        <3>1. lib_realloc_delete(t)
            BY <2>1, <2>3 DEF Step, lib_malloc, lib_page_insert, lib_free, lib_realloc,
                lib_malloc_call, lib_malloc_global, lib_malloc_make,
                lib_malloc_zero, lib_malloc_alloc, lib_malloc_fails,
                lib_page_insert_walk, lib_page_insert_lock,
                lib_page_insert_create, lib_page_insert_bit,
                lib_flag_add_select, lockinfo, lib_flag_add_flag, unlockinfo,
                lib_flag_sub_select, lib_flag_sub_flag, lib_flag_sub_unlock,
                __lib_free_delete, __lib_free_free, lib_realloc_call,
                lib_realloc_stays, lib_realloc_moves, lib_realloc_delete,
                Goto, Return
        <3>2. Reached(a)
            BY <1>3 DEF AllOf, TableInv
        <3> QED BY <2>1, <2>3, <3>1, <3>2 DEF lib_realloc_delete, lib_page_delete
    <2> QED BY <2>2, <2>3
<1> QED BY <1>1, <1>2, <1>3

(* Where a thread releases memory the bit of its block has been cleared.   *)
LEMMA FreeEffect ==
    ASSUME AllOf, NEW t \in Threads, Step(t), pc'[t] = "free"
    PROVE  pc[t] = "delete" /\ ptr'[t] = ptr[t] /\ ptr[t] \notin bits' /\ bits' \subseteq bits
<1> USE LibAssumption DEF LibAssumption, AllOf, TypeOK, tables, memory, counters, call, Goto, Return
<1>1. CASE lib_malloc_call(t)
    BY <1>1 DEF lib_malloc_call
<1>2. CASE lib_malloc_global(t)
    BY <1>2 DEF lib_malloc_global
<1>3. CASE lib_malloc_make(t)
    BY <1>3 DEF lib_malloc_make
<1>4. CASE lib_malloc_zero(t)
    BY <1>4 DEF lib_malloc_zero
<1>5. CASE lib_malloc_alloc(t)
    BY <1>5 DEF lib_malloc_alloc
<1>6. CASE lib_malloc_fails(t)
    BY <1>6 DEF lib_malloc_fails
<1>7. CASE lib_page_insert_walk(t)
    BY <1>7 DEF lib_page_insert_walk
<1>8. CASE lib_page_insert_lock(t)
    BY <1>8 DEF lib_page_insert_lock
<1>9. CASE lib_page_insert_create(t)
    BY <1>9 DEF lib_page_insert_create
<1>10. CASE lib_page_insert_bit(t)
    BY <1>10 DEF lib_page_insert_bit
<1>11. CASE lib_flag_add_select(t)
    BY <1>11 DEF lib_flag_add_select
<1>12. CASE lockinfo(t)
    BY <1>12 DEF lockinfo
<1>13. CASE lib_flag_add_flag(t)
    BY <1>13 DEF lib_flag_add_flag
<1>14. CASE unlockinfo(t)
    BY <1>14 DEF unlockinfo
<1>15. CASE lib_flag_sub_select(t)
    BY <1>15 DEF lib_flag_sub_select
<1>16. CASE lib_flag_sub_flag(t)
    BY <1>16 DEF lib_flag_sub_flag
<1>17. CASE lib_flag_sub_unlock(t)
    BY <1>17 DEF lib_flag_sub_unlock
<1>18. CASE __lib_free_delete(t)
    BY <1>18 DEF __lib_free_delete, lib_page_delete, TableInv
<1>19. CASE __lib_free_free(t)
    BY <1>19 DEF __lib_free_free
<1>20. CASE lib_realloc_call(t)
    BY <1>20 DEF lib_realloc_call
<1>21. CASE lib_realloc_stays(t)
    BY <1>21 DEF lib_realloc_stays
<1>22. CASE lib_realloc_moves(t)
    BY <1>22 DEF lib_realloc_moves
<1>23. CASE lib_realloc_delete(t)
    BY <1>23 DEF lib_realloc_delete
<1> QED
    BY <1>1, <1>2, <1>3, <1>4, <1>5, <1>6, <1>7, <1>8, <1>9, <1>10, <1>11, <1>12, <1>13,
       <1>14, <1>15, <1>16, <1>17, <1>18, <1>19, <1>20, <1>21, <1>22, <1>23
    DEF Step, lib_malloc, lib_page_insert, lib_free, lib_realloc

(* Every step keeps TableInv.                                              *)
LEMMA TableStep ==
    ASSUME AllOf, NEW t \in Threads, Step(t)
    PROVE  TableInv'
<1>1. ASSUME NEW u \in Threads, pc'[u] = "free" PROVE ptr'[u] \notin bits'
    <2>1. CASE u = t
        BY <1>1, <2>1, FreeEffect
    <2>2. CASE u # t
        <3>1. pc[u] = "free" /\ ptr'[u] = ptr[u] /\ ptr[u] \notin bits /\ ptr[u] \in Addr
            BY <1>1, <2>2, OthersStay DEF AllOf, TableInv, LocalInv, Local, Dying
        <3>2. ~(pc[t] = "walk" /\ ptr[u] = ptr[t])
            BY <2>2, <3>1 DEF AllOf, AloneInv, Owns, Dying, Entering, Inserting
        <3> QED BY <3>1, <3>2, BitsEffect
    <2> QED BY <2>1, <2>2
<1> QED BY <1>1, WalkStep, ReachedStep, StrayBits DEF TableInv

-----------------------------------------------------------------------------
(* A block that is pointed to has its bit, is being entered or was hit.    *)

(* A block is hit by the end of a realloc, and no longer when it is moved. *)
LEMMA HitEffect ==
    ASSUME AllOf, NEW t \in Threads, Step(t), NEW a \in Addr
    PROVE  /\ a \in hit /\ a \notin hit' =>
                pc[t] = "realloc" /\ a = old[t] /\ held'[ref[t]] # a /\ a \notin allocated'
           /\ a \in hit' /\ a \notin hit =>
                /\ pc[t] = "delete_old" /\ a = old[t] /\ a \in allocated
                /\ held' = held /\ info' = info /\ allocated' = allocated /\ bits' \subseteq bits
<1> USE LibAssumption DEF LibAssumption, AllOf, TypeOK, tables, memory, counters, call, Goto, Return
<1>1. CASE lib_malloc_call(t)
    BY <1>1 DEF lib_malloc_call
<1>2. CASE lib_malloc_global(t)
    BY <1>2 DEF lib_malloc_global
<1>3. CASE lib_malloc_make(t)
    BY <1>3 DEF lib_malloc_make
<1>4. CASE lib_malloc_zero(t)
    BY <1>4 DEF lib_malloc_zero
<1>5. CASE lib_malloc_alloc(t)
    BY <1>5 DEF lib_malloc_alloc
<1>6. CASE lib_malloc_fails(t)
    BY <1>6 DEF lib_malloc_fails
<1>7. CASE lib_page_insert_walk(t)
    BY <1>7 DEF lib_page_insert_walk
<1>8. CASE lib_page_insert_lock(t)
    BY <1>8 DEF lib_page_insert_lock
<1>9. CASE lib_page_insert_create(t)
    BY <1>9 DEF lib_page_insert_create
<1>10. CASE lib_page_insert_bit(t)
    BY <1>10 DEF lib_page_insert_bit
<1>11. CASE lib_flag_add_select(t)
    BY <1>11 DEF lib_flag_add_select
<1>12. CASE lockinfo(t)
    BY <1>12 DEF lockinfo
<1>13. CASE lib_flag_add_flag(t)
    BY <1>13 DEF lib_flag_add_flag
<1>14. CASE unlockinfo(t)
    BY <1>14 DEF unlockinfo
<1>15. CASE lib_flag_sub_select(t)
    BY <1>15 DEF lib_flag_sub_select
<1>16. CASE lib_flag_sub_flag(t)
    BY <1>16 DEF lib_flag_sub_flag
<1>17. CASE lib_flag_sub_unlock(t)
    BY <1>17 DEF lib_flag_sub_unlock
<1>18. CASE __lib_free_delete(t)
    BY <1>18 DEF __lib_free_delete
<1>19. CASE __lib_free_free(t)
    BY <1>19 DEF __lib_free_free
<1>20. CASE lib_realloc_call(t)
    BY <1>20 DEF lib_realloc_call
<1>21. CASE lib_realloc_stays(t)
    BY <1>21 DEF lib_realloc_stays
<1>22. CASE lib_realloc_moves(t)
    BY <1>22, MovedBlock DEF lib_realloc_moves
<1>23. CASE lib_realloc_delete(t)
    BY <1>23 DEF lib_realloc_delete, lib_page_delete
<1> QED
    BY <1>1, <1>2, <1>3, <1>4, <1>5, <1>6, <1>7, <1>8, <1>9, <1>10, <1>11, <1>12, <1>13,
       <1>14, <1>15, <1>16, <1>17, <1>18, <1>19, <1>20, <1>21, <1>22, <1>23
    DEF Step, lib_malloc, lib_page_insert, lib_free, lib_realloc

(* Who enters a block goes on until its bit is set.                        *)
LEMMA EnterEffect ==
    ASSUME AllOf, NEW t \in Threads, Step(t), pc[t] \in Entering
    PROVE  \/ pc'[t] \in Entering /\ ptr'[t] = ptr[t] /\ ref'[t] = ref[t]
           \/ ptr[t] \in bits'
<1> USE LibAssumption DEF LibAssumption, AllOf, TypeOK, tables, memory, counters, call, Goto, Return,
                          Entering, Inserting
<1>1. CASE lib_malloc_call(t)
    BY <1>1 DEF lib_malloc_call
<1>2. CASE lib_malloc_global(t)
    BY <1>2 DEF lib_malloc_global
<1>3. CASE lib_malloc_make(t)
    BY <1>3 DEF lib_malloc_make
<1>4. CASE lib_malloc_zero(t)
    BY <1>4 DEF lib_malloc_zero
<1>5. CASE lib_malloc_alloc(t)
    BY <1>5 DEF lib_malloc_alloc
<1>6. CASE lib_malloc_fails(t)
    BY <1>6 DEF lib_malloc_fails
<1>7. CASE lib_page_insert_walk(t)
    BY <1>7 DEF lib_page_insert_walk
<1>8. CASE lib_page_insert_lock(t)
    BY <1>8 DEF lib_page_insert_lock
<1>9. CASE lib_page_insert_create(t)
    BY <1>9 DEF lib_page_insert_create
<1>10. CASE lib_page_insert_bit(t)
    BY <1>10 DEF lib_page_insert_bit
<1>11. CASE lib_flag_add_select(t)
    BY <1>11 DEF lib_flag_add_select
<1>12. CASE lockinfo(t)
    BY <1>12 DEF lockinfo
<1>13. CASE lib_flag_add_flag(t)
    BY <1>13 DEF lib_flag_add_flag
<1>14. CASE unlockinfo(t)
    BY <1>14 DEF unlockinfo
<1>15. CASE lib_flag_sub_select(t)
    BY <1>15 DEF lib_flag_sub_select
<1>16. CASE lib_flag_sub_flag(t)
    BY <1>16 DEF lib_flag_sub_flag
<1>17. CASE lib_flag_sub_unlock(t)
    BY <1>17 DEF lib_flag_sub_unlock
<1>18. CASE __lib_free_delete(t)
    BY <1>18 DEF __lib_free_delete
<1>19. CASE __lib_free_free(t)
    BY <1>19 DEF __lib_free_free
<1>20. CASE lib_realloc_call(t)
    BY <1>20 DEF lib_realloc_call
<1>21. CASE lib_realloc_stays(t)
    BY <1>21 DEF lib_realloc_stays
<1>22. CASE lib_realloc_moves(t)
    BY <1>22 DEF lib_realloc_moves
<1>23. CASE lib_realloc_delete(t)
    BY <1>23 DEF lib_realloc_delete
<1> QED
    BY <1>1, <1>2, <1>3, <1>4, <1>5, <1>6, <1>7, <1>8, <1>9, <1>10, <1>11, <1>12, <1>13,
       <1>14, <1>15, <1>16, <1>17, <1>18, <1>19, <1>20, <1>21, <1>22, <1>23
    DEF Step, lib_malloc, lib_page_insert, lib_free, lib_realloc

(* Every step keeps BitInv.                                                *)
LEMMA BitStep ==
    ASSUME AllOf, NEW t \in Threads, Step(t)
    PROVE  BitInv'
<1> SUFFICES ASSUME NEW r \in Ref, NEW a \in Addr, held'[r] = a
             PROVE  \/ a \in hit' \/ a \in bits'
                    \/ \E u \in Threads : pc'[u] \in Entering /\ ptr'[u] = a /\ ref'[u] = r
    BY TypeStep DEF BitInv, TypeOK
<1>0. a # NULL /\ held \in [Ref -> Addr \cup {NULL}]
    BY LibAssumption DEF LibAssumption, AllOf, TypeOK
<1>1. ASSUME NEW u \in Threads, pc[u] \in Entering, ptr[u] = a, ref[u] = r
      PROVE  \/ a \in bits'
             \/ \E v \in Threads : pc'[v] \in Entering /\ ptr'[v] = a /\ ref'[v] = r
    <2>1. CASE u = t
        BY <1>1, <2>1, EnterEffect
    <2>2. CASE u # t
        BY <1>1, <2>2, OthersStay DEF AllOf
    <2> QED BY <2>1, <2>2
<1>2. CASE held[r] = a
    <2>0. r \in Pointers(a) /\ a \in allocated
        BY <1>0, <1>2 DEF Pointers, AllOf, HeldInv
    <2>1. CASE a \in hit
        <3>1. ASSUME pc[t] = "realloc", a = old[t], held'[ref[t]] # a PROVE FALSE
            BY <2>0, <3>1, MovedBlock
        <3> QED BY <2>1, <3>1, HitEffect
    <2>2. CASE a \in bits
        <3>1. ASSUME pc[t] = "delete", a = ptr[t] PROVE FALSE
            BY <2>0, <3>1 DEF AllOf, LocalInv, Local, Dying
        <3>2. ASSUME Registering(a)
              PROVE  \/ a \in bits'
                     \/ \E v \in Threads : pc'[v] \in Entering /\ ptr'[v] = a /\ ref'[v] = r
            <4>1. PICK u \in Threads : ptr[u] = a /\ pc[u] \in Entering
                BY <3>2 DEF Registering, Entering
            <4>2. ref[u] = r
                BY <2>0, <4>1 DEF AllOf, LocalInv, Local
            <4> QED BY <1>1, <4>1, <4>2
        <3> QED BY <2>0, <2>2, <3>1, <3>2, BitsEffect
    <2> QED BY <1>0, <1>1, <1>2, <2>1, <2>2 DEF AllOf, BitInv
<1>3. CASE held[r] # a
    <2>1. PICK x \in Ref :
            \/ held' = [held EXCEPT ![x] = NULL]
            \/ \E b \in Addr :
                /\ held' = [held EXCEPT ![x] = b]
                /\ \/ Owns(t, b) /\ pc[t] \in Entering /\ x = ref[t]
                   \/ pc'[t] = "delete_old" /\ ptr'[t] = b /\ ref'[t] = x
                   \/ \E s \in Pointers(b) \ Private : Unused(s, t)
        BY <1>3, HeldEffect
    <2>2. x = r
        BY <1>0, <1>3, <2>1
    <2>3. \/ Owns(t, a) /\ pc[t] \in Entering /\ r = ref[t]
          \/ pc'[t] = "delete_old" /\ ptr'[t] = a /\ ref'[t] = r
          \/ \E s \in Pointers(a) \ Private : Unused(s, t)
        BY <1>0, <1>3, <2>1, <2>2
    <2>4. CASE Owns(t, a) /\ pc[t] \in Entering /\ r = ref[t]
        BY <1>1, <2>4 DEF Owns
    <2>5. CASE pc'[t] = "delete_old" /\ ptr'[t] = a /\ ref'[t] = r
        BY <2>5 DEF Entering
    <2>6. ASSUME NEW s \in Pointers(a) \ Private PROVE a \in hit' \/ a \in bits'
        <3>1. s \in Ref /\ held[s] = a /\ a \in allocated
            BY <1>0, <2>6 DEF Pointers, AllOf, HeldInv
        <3>2. ASSUME NEW u \in Threads, pc[u] \in Entering, ptr[u] = a, ref[u] = s PROVE FALSE
            BY <1>0, <2>6, <3>1, <3>2 DEF AllOf, LocalInv, Local
        <3>3. a \in hit \/ a \in bits
            BY <1>0, <3>1, <3>2 DEF AllOf, BitInv
        <3>4. ASSUME pc[t] = "realloc", a = old[t] PROVE FALSE
            BY <2>6, <3>4, MovedBlock
        <3> QED BY <1>3, <3>3, <3>4, HitEffect, BitsEffect
    <2> QED BY <2>3, <2>4, <2>5, <2>6
<1> QED BY <1>2, <1>3

-----------------------------------------------------------------------------
(* The count of a block.                                                   *)

(* An exact count is enough for the pointers that are given back.          *)
LEMMA CountSuffices ==
    ASSUME NEW P \in SUBSET Ref, NEW L \in SUBSET P
    PROVE  Cardinality(P) >= Cardinality(L) + (IF P \subseteq L THEN 0 ELSE 1)
<1>1. Cardinality(P) \in Nat /\ Cardinality(L) \in Nat /\ Cardinality(L) <= Cardinality(P)
      /\ (Cardinality(P) = Cardinality(L) => P = L)
    BY RefSubsets, FS_Subset
<1> QED BY <1>1

(* What a step of t does to the pointers that come and go.                 *)
LEMMA ThreadSets ==
    ASSUME AllOf, NEW t \in Threads, Step(t), NEW a \in Addr
    PROVE  /\ Joining(a)' = {r \in Ref :
                \/ ref2'[t] = r /\ pc'[t] \in Adding /\ ptr'[t] = a
                \/ \E u \in Threads \ {t} : ref2[u] = r /\ pc[u] \in Adding /\ ptr[u] = a}
           /\ Leaving(a)' = {r \in Pointers(a)' :
                \/ ref'[t] = r /\ pc'[t] \in Subbing
                \/ \E u \in Threads \ {t} : ref[u] = r /\ pc[u] \in Subbing}
           /\ Joining(a) = {r \in Ref :
                \/ ref2[t] = r /\ pc[t] \in Adding /\ ptr[t] = a
                \/ \E u \in Threads \ {t} : ref2[u] = r /\ pc[u] \in Adding /\ ptr[u] = a}
           /\ Leaving(a) = {r \in Pointers(a) :
                \/ ref[t] = r /\ pc[t] \in Subbing
                \/ \E u \in Threads \ {t} : ref[u] = r /\ pc[u] \in Subbing}
<1>1. \A u \in Threads \ {t} : pc'[u] = pc[u] /\ ptr'[u] = ptr[u] /\ ref'[u] = ref[u] /\ ref2'[u] = ref2[u]
    BY OthersStay DEF AllOf
<1>2. Joining(a)' = {r \in Ref :
                \/ ref2'[t] = r /\ pc'[t] \in Adding /\ ptr'[t] = a
                \/ \E u \in Threads \ {t} : ref2[u] = r /\ pc[u] \in Adding /\ ptr[u] = a}
    BY <1>1 DEF Joining
<1>3. Leaving(a)' = {r \in Pointers(a)' :
                \/ ref'[t] = r /\ pc'[t] \in Subbing
                \/ \E u \in Threads \ {t} : ref[u] = r /\ pc[u] \in Subbing}
    BY <1>1 DEF Leaving
<1> QED BY <1>2, <1>3 DEF Joining, Leaving

Quiet(t) ==
    /\ held' = held /\ bits' \subseteq bits
    /\ pc'[t] \in Subbing <=> pc[t] \in Subbing
    /\ pc'[t] \in Adding <=> pc[t] \in Adding
    /\ pc[t] \in Adding \cup Subbing => ref'[t] = ref[t] /\ ref2'[t] = ref2[t] /\ ptr'[t] = ptr[t]
    /\ \A a \in allocated : info'[a].flag = info[a].flag

(* Six steps change pointers or counts.                                    *)
LEMMA QuietOrNot ==
    ASSUME AllOf, NEW t \in Threads, Step(t)
    PROVE  \/ Quiet(t) \/ lib_page_insert_bit(t) \/ lib_flag_add_select(t) \/ lib_flag_add_flag(t)
           \/ lib_flag_sub_select(t) \/ lib_flag_sub_flag(t) \/ lib_realloc_moves(t)
<1> USE LibAssumption DEF LibAssumption, AllOf, TypeOK, tables, memory, counters, call, Goto, Return
<1>1. CASE lib_malloc_call(t)
    BY <1>1 DEF lib_malloc_call, Quiet, Adding, Subbing
<1>2. CASE lib_malloc_global(t)
    BY <1>2 DEF lib_malloc_global, Quiet, Adding, Subbing
<1>3. CASE lib_malloc_make(t)
    BY <1>3 DEF lib_malloc_make, Quiet, Adding, Subbing
<1>4. CASE lib_malloc_zero(t)
    BY <1>4 DEF lib_malloc_zero, Quiet, Adding, Subbing
<1>5. CASE lib_malloc_alloc(t)
    BY <1>5 DEF lib_malloc_alloc, Quiet, Adding, Subbing
<1>6. CASE lib_malloc_fails(t)
    BY <1>6 DEF lib_malloc_fails, Quiet, Adding, Subbing
<1>7. CASE lib_page_insert_walk(t)
    BY <1>7 DEF lib_page_insert_walk, Quiet, Adding, Subbing
<1>8. CASE lib_page_insert_lock(t)
    BY <1>8 DEF lib_page_insert_lock, Quiet, Adding, Subbing
<1>9. CASE lib_page_insert_create(t)
    BY <1>9 DEF lib_page_insert_create, Quiet, Adding, Subbing, calloc_page
<1>10. CASE lib_page_insert_bit(t)
    BY <1>10
<1>11. CASE lib_flag_add_select(t)
    BY <1>11
<1>12. CASE lockinfo(t)
    <2>1. ptr[t] \in Addr
        BY <1>12 DEF lockinfo, LocalInv, Local, Dying, Adding, Subbing
    <2> QED BY <1>12, <2>1 DEF lockinfo, Quiet, Adding, Subbing
<1>13. CASE lib_flag_add_flag(t)
    BY <1>13
<1>14. CASE unlockinfo(t)
    <2>1. ptr[t] \in Addr
        BY <1>14 DEF unlockinfo, LocalInv, Local, Dying, Adding, Subbing
    <2> QED BY <1>14, <2>1 DEF unlockinfo, Quiet, Adding, Subbing
<1>15. CASE lib_flag_sub_select(t)
    BY <1>15
<1>16. CASE lib_flag_sub_flag(t)
    BY <1>16
<1>17. CASE lib_flag_sub_unlock(t)
    <2>1. ptr[t] \in Addr
        BY <1>17 DEF lib_flag_sub_unlock, LocalInv, Local, Dying, Adding, Subbing
    <2> QED BY <1>17, <2>1 DEF lib_flag_sub_unlock, Quiet, Adding, Subbing
<1>18. CASE __lib_free_delete(t)
    BY <1>18 DEF __lib_free_delete, Quiet, Adding, Subbing, lib_page_delete
<1>19. CASE __lib_free_free(t)
    BY <1>19 DEF __lib_free_free, Quiet, Adding, Subbing
<1>20. CASE lib_realloc_call(t)
    BY <1>20 DEF lib_realloc_call, Quiet, Adding, Subbing
<1>21. CASE lib_realloc_stays(t)
    BY <1>21 DEF lib_realloc_stays, Quiet, Adding, Subbing
<1>22. CASE lib_realloc_moves(t)
    BY <1>22
<1>23. CASE lib_realloc_delete(t)
    BY <1>23 DEF lib_realloc_delete, Quiet, Adding, Subbing, lib_page_delete
<1> QED
    BY <1>1, <1>2, <1>3, <1>4, <1>5, <1>6, <1>7, <1>8, <1>9, <1>10, <1>11, <1>12, <1>13,
       <1>14, <1>15, <1>16, <1>17, <1>18, <1>19, <1>20, <1>21, <1>22, <1>23
    DEF Step, lib_malloc, lib_page_insert, lib_free, lib_realloc

(* A count fits as long as nothing about its block changes.                *)
LEMMA SameFlags ==
    ASSUME AllOf, NEW t \in Threads, Step(t), NEW a \in Addr, Pointers(a)' # {},
           Pointers(a)' = Pointers(a), info'[a].flag = info[a].flag, a \in bits' => a \in bits,
           \A r \in Ref : /\ ref2'[t] = r /\ pc'[t] \in Adding /\ ptr'[t] = a
                          <=> ref2[t] = r /\ pc[t] \in Adding /\ ptr[t] = a,
           \A r \in Pointers(a) : ref'[t] = r /\ pc'[t] \in Subbing
                                  <=> ref[t] = r /\ pc[t] \in Subbing
    PROVE  FlagAt(a)'
<1>1. Joining(a)' = Joining(a)
    <2>1. \A r \in Ref : r \in Joining(a)' <=> r \in Joining(a)
        BY ThreadSets
    <2> QED BY <2>1 DEF Joining
<1>2. Leaving(a)' = Leaving(a)
    <2>1. \A r \in Pointers(a) : r \in Leaving(a)' <=> r \in Leaving(a)
        BY ThreadSets
    <2>2. Leaving(a)' \subseteq Pointers(a) /\ Leaving(a) \subseteq Pointers(a)
        BY ThreadSets
    <2> QED BY <2>1, <2>2
<1>3. FlagAt(a)
    BY DEF AllOf, FlagInv
<1> QED BY <1>1, <1>2, <1>3 DEF FlagAt

(* A quiet step keeps every count right.                                   *)
LEMMA QuietFlags ==
    ASSUME AllOf, NEW t \in Threads, Step(t), Quiet(t), NEW a \in Addr, Pointers(a)' # {}
    PROVE  FlagAt(a)'
<1>1. Pointers(a)' = Pointers(a)
    BY DEF Quiet, Pointers
<1>2. a \in allocated
    BY <1>1, LibAssumption DEF LibAssumption, Pointers, AllOf, HeldInv
<1>3. info'[a].flag = info[a].flag /\ bits' \subseteq bits
    BY <1>2 DEF Quiet
<1>4. \A r \in Ref : /\ ref2'[t] = r /\ pc'[t] \in Adding /\ ptr'[t] = a
                     <=> ref2[t] = r /\ pc[t] \in Adding /\ ptr[t] = a
    BY DEF Quiet
<1>5. \A r \in Pointers(a) : ref'[t] = r /\ pc'[t] \in Subbing <=> ref[t] = r /\ pc[t] \in Subbing
    BY DEF Quiet
<1> QED BY <1>1, <1>3, <1>4, <1>5, SameFlags

(* A block with one pointer, that no call is about but that of its owner.  *)
LEMMA NewFlags ==
    ASSUME AllOf, NEW t \in Threads, Step(t), NEW a \in Addr, NEW x \in Ref,
           Pointers(a)' = {x}, info'[a].flag = 1, pc'[t] \notin Adding \cup Subbing,
           \A u \in Threads \ {t} : x \notin Vars(u) /\ (pc[u] \in Adding => ptr[u] # a)
    PROVE  FlagAt(a)'
<1>1. Joining(a)' = {}
    BY ThreadSets
<1>2. Leaving(a)' = {}
    BY ThreadSets, LibAssumption DEF LibAssumption, Vars
<1>3. Cardinality(Pointers(a)') = 1 /\ Cardinality(Joining(a)') = 0 /\ Cardinality(Leaving(a)') = 0
    BY <1>1, <1>2, FS_EmptySet, FS_Singleton
<1>4. Cardinality(Ref) \in Nat /\ Cardinality(Ref) >= 1
    <2>1. Cardinality({x}) <= Cardinality(Ref) /\ Cardinality({x}) = 1
        BY RefSubsets, FS_Singleton
    <2> QED BY <2>1, PointersFinite
<1> QED BY <1>1, <1>2, <1>3, <1>4 DEF FlagAt

(* So does the end of a lib_malloc or a lib_realloc.                       *)
LEMMA BitFlags ==
    ASSUME AllOf, NEW t \in Threads, Step(t), lib_page_insert_bit(t), NEW a \in Addr, Pointers(a)' # {}
    PROVE  FlagAt(a)'
<1> DEFINE b == ptr[t]
           x == ref[t]
<1>0. held \in [Ref -> Addr \cup {NULL}] /\ NULL \notin Addr
    BY LibAssumption DEF LibAssumption, AllOf, TypeOK
<1>1. /\ pc[t] = "walk" /\ pc'[t] = "idle" /\ info' = info /\ bits' = bits \cup {b}
      /\ held' = [held EXCEPT ![x] = b]
    BY DEF lib_page_insert_bit, Return, Goto, AllOf, TypeOK, memory
<1>2. /\ x \in Ref /\ b \in Addr /\ info[b].flag = 1 /\ Pointers(b) \subseteq {x}
      /\ held[x] = NULL \/ held[x] = b
    BY <1>1 DEF AllOf, LocalInv, Local, Entering, Inserting
<1>3. CASE a = b
    <2>1. Pointers(a)' = {x}
        BY <1>0, <1>1, <1>2, <1>3 DEF Pointers
    <2>2. ASSUME NEW u \in Threads \ {t} PROVE x \notin Vars(u) /\ (pc[u] \in Adding => ptr[u] # a)
        <3>1. x \in Vars(t)
            BY <1>2, LibAssumption DEF Vars, LibAssumption
        <3>2. x \notin Vars(u)
            BY <3>1 DEF AllOf, AloneInv
        <3>3. ASSUME pc[u] \in Adding, ptr[u] = a PROVE FALSE
            <4>1. ref[u] \in Pointers(b) /\ ref[u] \in Vars(u)
                BY <1>3, <3>3, LibAssumption DEF LibAssumption, AllOf,
                   LocalInv, Local, Adding, Pointers, Vars
            <4> QED BY <1>2, <3>2, <4>1
        <3> QED BY <3>2, <3>3
    <2>3. info'[a].flag = 1 /\ pc'[t] \notin Adding \cup Subbing
        BY <1>1, <1>2, <1>3 DEF Adding, Subbing
    <2> QED BY <1>2, <2>1, <2>2, <2>3, NewFlags
<1>4. CASE a # b
    <2>1. Pointers(a)' = Pointers(a)
        BY <1>0, <1>1, <1>2, <1>4 DEF Pointers
    <2>2. info'[a].flag = info[a].flag /\ (a \in bits' => a \in bits)
        BY <1>1, <1>4
    <2>3. pc[t] \notin Adding \cup Subbing /\ pc'[t] \notin Adding \cup Subbing
        BY <1>1 DEF Adding, Subbing
    <2> QED BY <2>1, <2>2, <2>3, SameFlags
<1> QED BY <1>3, <1>4

(* So does a realloc that moves.                                           *)
LEMMA MoveFlags ==
    ASSUME AllOf, NEW t \in Threads, Step(t), lib_realloc_moves(t), NEW a \in Addr, Pointers(a)' # {}
    PROVE  FlagAt(a)'
<1> DEFINE o == old[t]
           x == ref[t]
<1>0. held \in [Ref -> Addr \cup {NULL}] /\ NULL \notin Addr /\ info \in [Addr -> Info]
    BY LibAssumption DEF LibAssumption, AllOf, TypeOK, Info
<1>1. pc[t] = "realloc" /\ pc'[t] = "delete_old" /\ bits' = bits
    BY DEF lib_realloc_moves, Goto, AllOf, TypeOK, tables
<1>2. PICK n \in Addr \ allocated :
            /\ allocated' = (allocated \ {old[t]}) \cup {n}
            /\ info' = [info EXCEPT ![n] = info[old[t]]]
            /\ ptr' = [ptr EXCEPT ![t] = n]
            /\ held' = [held EXCEPT ![ref[t]] = n]
    BY DEF lib_realloc_moves
<1>3. x \in Ref /\ o \in Addr /\ held[x] = o /\ o \in allocated /\ Pointers(o) = {x} /\ info[o].flag = 1
    BY <1>1, MovedBlock
<1>4. \A r \in Ref : held[r] # n
    BY <1>0, <1>2 DEF AllOf, HeldInv
<1>5. pc[t] \notin Adding \cup Subbing /\ pc'[t] \notin Adding \cup Subbing
    BY <1>1 DEF Adding, Subbing
<1>6. CASE a = n
    <2>1. Pointers(a)' = {x}
        BY <1>0, <1>2, <1>3, <1>4, <1>6 DEF Pointers
    <2>2. ASSUME NEW u \in Threads \ {t} PROVE x \notin Vars(u) /\ (pc[u] \in Adding => ptr[u] # a)
        <3>1. x \in Vars(t)
            BY <1>3, LibAssumption DEF Vars, LibAssumption
        <3>2. x \notin Vars(u)
            BY <3>1 DEF AllOf, AloneInv
        <3>3. ASSUME pc[u] \in Adding, ptr[u] = a PROVE FALSE
            <4>1. ref[u] \in Ref /\ held[ref[u]] = n
                BY <1>6, <3>3 DEF AllOf, LocalInv, Local, Adding
            <4> QED BY <1>4, <4>1
        <3> QED BY <3>2, <3>3
    <2>3. info'[a].flag = 1
        BY <1>0, <1>2, <1>3, <1>6
    <2> QED BY <1>3, <1>5, <2>1, <2>2, <2>3, NewFlags
<1>7. CASE a = o
    BY <1>0, <1>2, <1>3, <1>7 DEF Pointers
<1>8. CASE a # n /\ a # o
    <2>1. Pointers(a)' = Pointers(a)
        BY <1>0, <1>2, <1>3, <1>8 DEF Pointers
    <2>2. info'[a].flag = info[a].flag /\ (a \in bits' => a \in bits)
        BY <1>0, <1>1, <1>2, <1>8
    <2> QED BY <1>5, <2>1, <2>2, SameFlags
<1> QED BY <1>6, <1>7, <1>8

(* The pointers that join a block point nowhere yet.                       *)
LEMMA JoiningNull ==
    ASSUME AllOf, NEW a \in Addr, NEW r \in Joining(a)
    PROVE  held[r] = NULL /\ r \in Ref
BY DEF AllOf, LocalInv, Local, Joining

(* A pointer no call is about is neither given back nor joins a block.     *)
LEMMA IdlePointer ==
    ASSUME NEW r \in Ref, ~Busy(r), NEW a \in Addr
    PROVE  r \notin Leaving(a) /\ r \notin Joining(a)
BY DEF Busy, Leaving, Joining

(* So does the start of a lib_flag_add.                                    *)
LEMMA AddSelectFlags ==
    ASSUME AllOf, NEW t \in Threads, Step(t), lib_flag_add_select(t), NEW a \in Addr, Pointers(a)' # {}
    PROVE  FlagAt(a)'
<1>0. held \in [Ref -> Addr \cup {NULL}] /\ NULL \notin Addr
    BY LibAssumption DEF LibAssumption, AllOf, TypeOK
<1>1. pc[t] = "idle" /\ bits' = bits /\ info' = info
    BY DEF lib_flag_add_select, tables, memory
<1>2. PICK r \in Ref \ Private, r2 \in Ref \ Private :
            /\ r # r2 /\ held[r] # NULL /\ held[r2] = NULL /\ ~Busy(r) /\ ~Busy(r2)
            /\ IF lib_page_select(held[r])
               THEN /\ Goto(t, "idle", "lockinfo_add")
                    /\ ptr' = [ptr EXCEPT ![t] = held[r]]
                    /\ ref' = [ref EXCEPT ![t] = r] /\ ref2' = [ref2 EXCEPT ![t] = r2]
                    /\ UNCHANGED held
               ELSE /\ held' = [held EXCEPT ![r2] = held[r]]
                    /\ UNCHANGED <<pc, ptr, ref, ref2>>
    BY DEF lib_flag_add_select
<1> DEFINE b == held[r]
<1>3. b \in Addr /\ r \in Pointers(b) /\ r2 \notin Pointers(b) /\ r2 \notin Pointers(a)
    BY <1>0, <1>2 DEF Pointers
<1>4. r \notin Leaving(b) /\ r2 \notin Joining(b) /\ r2 \notin Leaving(b)
    BY <1>2, <1>3, IdlePointer
<1>5. pc[t] \notin Adding \cup Subbing
    BY <1>1 DEF Adding, Subbing
<1>6. CASE lib_page_select(b)
    <2>1. /\ pc'[t] = "lockinfo_add" /\ ptr'[t] = b /\ ref'[t] = r /\ ref2'[t] = r2 /\ held' = held
        BY <1>2, <1>6 DEF Goto, AllOf, TypeOK
    <2>2. pc'[t] \in Adding /\ pc'[t] \notin Subbing /\ Pointers(a)' = Pointers(a)
        BY <2>1 DEF Adding, Subbing, Pointers
    <2>3. CASE a # b
        BY <1>1, <1>5, <2>1, <2>2, <2>3, SameFlags
    <2>4. CASE a = b
        <3>1. a \in bits /\ FlagAt(a)
            BY <1>3, <1>6, <2>4 DEF lib_page_select, AllOf, FlagInv
        <3>2. Leaving(a)' = Leaving(a)
            <4>1. \A s \in Pointers(a) : s \in Leaving(a)' <=> s \in Leaving(a)
                BY <1>5, <2>2, ThreadSets
            <4>2. Leaving(a)' \subseteq Pointers(a) /\ Leaving(a) \subseteq Pointers(a)
                BY <2>2, ThreadSets
            <4> QED BY <4>1, <4>2
        <3>3. Joining(a)' \subseteq Joining(a) \cup {r2}
            BY <1>5, <2>1, ThreadSets
        <3>4. Pointers(a) \cap Joining(a)' = {}
            <4>1. \A s \in Pointers(a) : held[s] # NULL
                BY <1>0 DEF Pointers
            <4> QED BY <1>2, <3>3, <4>1, JoiningNull
        <3>5. Cardinality(Pointers(a)) + Cardinality(Joining(a)') <= Cardinality(Ref)
            <4>1. Pointers(a) \subseteq Ref /\ Joining(a)' \subseteq Ref
                BY <1>2, <3>3, JoiningNull DEF Pointers
            <4>2. /\ IsFiniteSet(Pointers(a)) /\ Cardinality(Pointers(a)) \in Nat
                  /\ IsFiniteSet(Joining(a)') /\ Cardinality(Joining(a)') \in Nat
                BY <4>1, RefSubsets
            <4>3. Cardinality(Pointers(a) \cup Joining(a)')
                    = Cardinality(Pointers(a)) + Cardinality(Joining(a)')
                BY <3>4, <4>2, FS_Union, FS_EmptySet
            <4>4. Cardinality(Pointers(a) \cup Joining(a)') <= Cardinality(Ref)
                BY <4>1, RefSubsets
            <4> QED BY <4>3, <4>4
        <3> QED BY <1>1, <2>2, <3>1, <3>2, <3>5 DEF FlagAt
    <2> QED BY <2>3, <2>4
<1>7. CASE ~lib_page_select(b)
    <2>1. held' = [held EXCEPT ![r2] = b] /\ pc' = pc /\ ptr' = ptr /\ ref' = ref /\ ref2' = ref2
        BY <1>2, <1>7
    <2>2. CASE a # b
        <3>1. Pointers(a)' = Pointers(a)
            BY <1>0, <1>2, <1>3, <2>1, <2>2 DEF Pointers
        <3> QED BY <1>1, <2>1, <3>1, SameFlags
    <2>3. CASE a = b
        <3>1. a \notin bits /\ FlagAt(a)
            BY <1>3, <1>7, <2>3 DEF lib_page_select, AllOf, FlagInv, TableInv
        <3>2. Joining(a)' = Joining(a)
            BY <2>1 DEF Joining
        <3>3. Pointers(a)' = Pointers(a) \cup {r2}
            BY <1>0, <1>2, <1>3, <2>1, <2>3 DEF Pointers
        <3>4. Leaving(a)' = Leaving(a)
            <4>1. \A s \in Ref : s # r2 => (s \in Leaving(a)' <=> s \in Leaving(a))
                BY <2>1, <3>3 DEF Leaving
            <4>2. r2 \notin Leaving(a)'
                BY <1>2, <2>1, LibAssumption DEF Leaving, Busy, LibAssumption
            <4> QED BY <1>4, <2>3, <4>1, <4>2 DEF Leaving, Pointers
        <3>5. info[a].flag >= Cardinality(Leaving(a)) + 1
            BY <1>3, <1>4, <2>3, <3>1 DEF FlagAt
        <3>6. info[a].flag \in Int /\ Cardinality(Leaving(a)) \in Nat
            BY PointersFinite DEF AllOf, TypeOK
        <3> QED BY <1>1, <3>1, <3>2, <3>4, <3>5, <3>6 DEF FlagAt
    <2> QED BY <2>2, <2>3
<1> QED BY <1>6, <1>7

(* So does the start of a lib_free.                                        *)
LEMMA SubSelectFlags ==
    ASSUME AllOf, NEW t \in Threads, Step(t), lib_flag_sub_select(t), NEW a \in Addr, Pointers(a)' # {}
    PROVE  FlagAt(a)'
<1>0. held \in [Ref -> Addr \cup {NULL}] /\ NULL \notin Addr
    BY LibAssumption DEF LibAssumption, AllOf, TypeOK
<1>1. pc[t] = "idle" /\ bits' = bits /\ info' = info /\ ref2' = ref2
    BY DEF lib_flag_sub_select, tables, memory
<1>2. PICK r \in Ref :
            /\ held[r] # NULL /\ ~Busy(r)
            /\ IF lib_page_select(held[r])
               THEN /\ Goto(t, "idle", "lockinfo_sub")
                    /\ ptr' = [ptr EXCEPT ![t] = held[r]] /\ ref' = [ref EXCEPT ![t] = r]
                    /\ UNCHANGED held
               ELSE /\ held' = [held EXCEPT ![r] = NULL]
                    /\ UNCHANGED <<pc, ptr, ref>>
    BY DEF lib_flag_sub_select
<1> DEFINE b == held[r]
<1>3. b \in Addr /\ r \in Pointers(b) /\ (a # b => r \notin Pointers(a))
    BY <1>0, <1>2 DEF Pointers
<1>4. r \notin Leaving(b)
    BY <1>2, <1>3, IdlePointer
<1>5. pc[t] \notin Adding \cup Subbing
    BY <1>1 DEF Adding, Subbing
<1>6. CASE lib_page_select(b)
    <2>1. pc'[t] = "lockinfo_sub" /\ ref'[t] = r /\ held' = held
        BY <1>2, <1>6 DEF Goto, AllOf, TypeOK
    <2>2. pc'[t] \notin Adding /\ Pointers(a)' = Pointers(a)
        BY <2>1 DEF Adding, Pointers
    <2>3. CASE a # b
        BY <1>1, <1>3, <1>5, <2>1, <2>2, <2>3, SameFlags
    <2>4. CASE a = b
        <3>1. a \in bits /\ FlagAt(a)
            BY <1>3, <1>6, <2>4 DEF lib_page_select, AllOf, FlagInv
        <3>2. Joining(a)' = Joining(a)
            <4>1. \A s \in Ref : s \in Joining(a)' <=> s \in Joining(a)
                BY <1>5, <2>2, ThreadSets
            <4> QED BY <4>1 DEF Joining
        <3>3. Leaving(a)' \subseteq Pointers(a)
            BY <2>2, ThreadSets
        <3>4. Cardinality(Pointers(a)) >= Cardinality(Leaving(a)')
                                + (IF Pointers(a) \subseteq Leaving(a)' THEN 0 ELSE 1)
            BY <3>3, CountSuffices DEF Pointers
        <3> QED BY <1>1, <2>2, <3>1, <3>2, <3>4 DEF FlagAt
    <2> QED BY <2>3, <2>4
<1>7. CASE ~lib_page_select(b)
    <2>1. held' = [held EXCEPT ![r] = NULL] /\ pc' = pc /\ ptr' = ptr /\ ref' = ref /\ ref2' = ref2
        BY <1>1, <1>2, <1>7
    <2>2. CASE a # b
        <3>1. Pointers(a)' = Pointers(a)
            BY <1>0, <1>2, <1>3, <2>1, <2>2 DEF Pointers
        <3> QED BY <1>1, <2>1, <3>1, SameFlags
    <2>3. CASE a = b
        <3>1. a \notin bits /\ FlagAt(a)
            BY <1>3, <1>7, <2>3 DEF lib_page_select, AllOf, FlagInv, TableInv
        <3>2. Joining(a)' = Joining(a)
            BY <2>1 DEF Joining
        <3>3. Pointers(a)' = Pointers(a) \ {r}
            BY <1>0, <1>2, <1>3, <2>1, <2>3 DEF Pointers
        <3>4. Leaving(a)' = Leaving(a)
            <4>1. \A s \in Ref : s # r => (s \in Leaving(a)' <=> s \in Leaving(a))
                BY <2>1, <3>3 DEF Leaving
            <4>2. r \notin Leaving(a)'
                BY <3>3 DEF Leaving
            <4> QED BY <1>4, <2>3, <4>1, <4>2 DEF Leaving, Pointers
        <3>5. info[a].flag >= Cardinality(Leaving(a)) + 1
            BY <1>3, <1>4, <2>3, <3>1 DEF FlagAt
        <3>6. info[a].flag \in Int /\ Cardinality(Leaving(a)) \in Nat
            BY PointersFinite DEF AllOf, TypeOK
        <3> QED BY <1>1, <3>1, <3>2, <3>4, <3>5, <3>6 DEF FlagAt
    <2> QED BY <2>2, <2>3
<1> QED BY <1>6, <1>7

(* So does a reference more, which a char can count.                       *)
LEMMA AddFlags ==
    ASSUME AllOf, Cardinality(Ref) <= CharMax,
           NEW t \in Threads, Step(t), lib_flag_add_flag(t), NEW a \in Addr, Pointers(a)' # {}
    PROVE  FlagAt(a)'
<1> DEFINE b == ptr[t]
           x == ref[t]
           y == ref2[t]
<1>0. held \in [Ref -> Addr \cup {NULL}] /\ NULL \notin Addr /\ info \in [Addr -> Info]
    BY LibAssumption DEF LibAssumption, AllOf, TypeOK, Info
<1>1. /\ pc[t] = "add" /\ pc'[t] = "unlock" /\ bits' = bits
      /\ held' = [held EXCEPT ![y] = b]
      /\ info' = [info EXCEPT ![b].flag = Char(@ + 1)]
    BY DEF lib_flag_add_flag, Goto, AllOf, TypeOK, tables
<1>2. /\ x \in Ref /\ b \in Addr /\ held[x] = b /\ y \in Ref /\ y # x /\ held[y] = NULL
    BY <1>1 DEF AllOf, LocalInv, Local, Adding
<1>3. pc[t] \in Adding /\ pc[t] \notin Subbing /\ pc'[t] \notin Adding \cup Subbing
    BY <1>1 DEF Adding, Subbing
<1>4. CASE a # b
    <2>1. Pointers(a)' = Pointers(a)
        BY <1>0, <1>1, <1>2, <1>4 DEF Pointers
    <2>2. info'[a].flag = info[a].flag
        BY <1>0, <1>1, <1>2, <1>4
    <2> QED BY <1>1, <1>3, <1>4, <2>1, <2>2, SameFlags
<1>5. CASE a = b
    <2>1. x \in Pointers(a) /\ y \notin Pointers(a)
        BY <1>0, <1>2, <1>5 DEF Pointers
    <2>2. FlagAt(a) /\ info[a].flag \in Int
        BY <1>0, <2>1 DEF AllOf, FlagInv, Info
    <2>3. Pointers(a)' = Pointers(a) \cup {y}
        BY <1>0, <1>1, <1>2, <1>5 DEF Pointers
    <2>4. \A u \in Threads \ {t} : y \notin Vars(u)
        BY <1>2, LibAssumption DEF LibAssumption, Vars, AllOf, AloneInv
    <2>5. Joining(a)' = Joining(a) \ {y} /\ y \in Joining(a)
        <3>1. y \in Joining(a) /\ y \notin Joining(a)'
            BY <1>2, <1>3, <1>5, <2>4, ThreadSets, LibAssumption DEF Vars, LibAssumption
        <3>2. \A s \in Ref : s # y => (s \in Joining(a)' <=> s \in Joining(a))
            BY <1>3, ThreadSets
        <3> QED BY <3>1, <3>2 DEF Joining
    <2>6. Leaving(a)' = Leaving(a)
        <3>1. y \notin Leaving(a)'
            <4>1. ASSUME NEW u \in Threads \ {t} PROVE ref[u] # y
                BY <1>2, <2>4, LibAssumption DEF Vars, LibAssumption
            <4> QED BY <1>3, <4>1, ThreadSets
        <3>2. \A s \in Pointers(a) : s \in Leaving(a)' <=> s \in Leaving(a)
            BY <1>3, <2>3, ThreadSets
        <3> QED BY <2>3, <3>1, <3>2 DEF Leaving
    <2>7. /\ Cardinality(Joining(a)) \in Nat /\ Cardinality(Joining(a)') \in Nat
          /\ Cardinality(Joining(a)') = Cardinality(Joining(a)) - 1
          /\ Cardinality(Pointers(a)') = Cardinality(Pointers(a)) + 1
          /\ Cardinality(Pointers(a)) \in Nat /\ Cardinality(Leaving(a)) \in Nat
        <3>1. Cardinality(Joining(a)') = Cardinality(Joining(a)) - 1
            BY <2>5, PointersFinite, FS_RemoveElement, ZenonT(60)
        <3>2. Cardinality(Pointers(a)') = Cardinality(Pointers(a)) + 1
            <4>1. IsFiniteSet(Pointers(a))
                BY PointersFinite
            <4>2. Cardinality(Pointers(a) \cup {y}) = Cardinality(Pointers(a)) + 1
                BY <2>1, <4>1, FS_AddElement
            <4> QED BY <2>3, <4>2
        <3>3. Cardinality(Joining(a)') \in Nat
            BY <2>5, RefSubsets DEF Joining
        <3> QED BY <3>1, <3>2, <3>3, PointersFinite
    <2>8. Char(info[a].flag + 1) = info[a].flag + 1
        <3>1. info[a].flag + Cardinality(Joining(a)) <= Cardinality(Ref) /\ Cardinality(Joining(a)) >= 1
            BY <2>2, <2>7 DEF FlagAt
        <3>2. Cardinality(Ref) \in Nat /\ CharMax \in Nat
            BY PointersFinite, LibAssumption DEF LibAssumption
        <3> QED BY <2>2, <2>7, <3>1, <3>2 DEF Char
    <2>9. info'[a].flag = info[a].flag + 1
        BY <1>0, <1>1, <1>2, <1>5, <2>8
    <2>10. Cardinality(Ref) \in Nat
        BY PointersFinite
    <2> HIDE DEF b, x, y
    <2> QED BY <1>1, <2>2, <2>5, <2>6, <2>7, <2>9, <2>10 DEF FlagAt
<1> QED BY <1>4, <1>5

(* So does a reference less.                                               *)
LEMMA SubFlags ==
    ASSUME AllOf, NEW t \in Threads, Step(t), lib_flag_sub_flag(t), NEW a \in Addr, Pointers(a)' # {}
    PROVE  FlagAt(a)'
<1> DEFINE b == ptr[t]
           x == ref[t]
<1>0. held \in [Ref -> Addr \cup {NULL}] /\ NULL \notin Addr /\ info \in [Addr -> Info]
    BY LibAssumption DEF LibAssumption, AllOf, TypeOK, Info
<1>1. /\ pc[t] = "sub" /\ pc'[t] \in {"unlock", "unlock_free"} /\ bits' = bits
      /\ held' = [held EXCEPT ![x] = NULL]
      /\ info' = [info EXCEPT ![b].flag = @ - 1]
    BY DEF lib_flag_sub_flag, Goto, AllOf, TypeOK, tables
<1>2. x \in Ref /\ b \in Addr /\ held[x] = b
    BY <1>1 DEF AllOf, LocalInv, Local, Subbing
<1>3. pc[t] \in Subbing /\ pc[t] \notin Adding /\ pc'[t] \notin Adding \cup Subbing
    BY <1>1 DEF Adding, Subbing
<1>4. CASE a # b
    <2>1. Pointers(a)' = Pointers(a) /\ x \notin Pointers(a)
        BY <1>0, <1>1, <1>2, <1>4 DEF Pointers
    <2>2. info'[a].flag = info[a].flag
        BY <1>0, <1>1, <1>2, <1>4
    <2> QED BY <1>1, <1>3, <1>4, <2>1, <2>2, SameFlags
<1>5. CASE a = b
    <2>1. x \in Pointers(a)
        BY <1>0, <1>2, <1>5 DEF Pointers
    <2>2. FlagAt(a) /\ info[a].flag \in Int
        BY <1>0, <2>1 DEF AllOf, FlagInv, Info
    <2>3. Pointers(a)' = Pointers(a) \ {x}
        BY <1>0, <1>1, <1>2, <1>5 DEF Pointers
    <2>5. Joining(a)' = Joining(a)
        <3>1. \A s \in Ref : s \in Joining(a)' <=> s \in Joining(a)
            BY <1>3, ThreadSets
        <3> QED BY <3>1 DEF Joining
    <2>6. Leaving(a)' = Leaving(a) \ {x} /\ x \in Leaving(a)
        <3>1. x \in Leaving(a)
            BY <1>3, <2>1, ThreadSets
        <3>2. \A s \in Pointers(a) \ {x} : s \in Leaving(a)' <=> s \in Leaving(a)
            BY <1>3, <2>3, ThreadSets
        <3> QED BY <2>3, <3>1, <3>2 DEF Leaving
    <2>7. /\ Cardinality(Pointers(a)') = Cardinality(Pointers(a)) - 1
          /\ Cardinality(Leaving(a)') = Cardinality(Leaving(a)) - 1
          /\ Cardinality(Joining(a)) \in Nat /\ Cardinality(Pointers(a)) \in Nat
          /\ Cardinality(Leaving(a)) \in Nat /\ Cardinality(Ref) \in Nat
        <3>1. IsFiniteSet(Pointers(a)) /\ IsFiniteSet(Leaving(a))
            BY PointersFinite
        <3>2. /\ Cardinality(Pointers(a) \ {x}) = Cardinality(Pointers(a)) - 1
              /\ Cardinality(Leaving(a) \ {x}) = Cardinality(Leaving(a)) - 1
            BY <2>1, <2>6, <3>1, FS_RemoveElement
        <3> QED BY <2>3, <2>6, <3>2, PointersFinite
    <2>8. info'[a].flag = info[a].flag - 1
        BY <1>0, <1>1, <1>2, <1>5
    <2>9. Pointers(a)' \subseteq Leaving(a)' <=> Pointers(a) \subseteq Leaving(a)
        BY <2>1, <2>3, <2>6
    <2> HIDE DEF b, x
    <2> QED BY <1>1, <2>2, <2>5, <2>7, <2>8, <2>9 DEF FlagAt
<1> QED BY <1>4, <1>5

(* Every step keeps FlagInv.                                               *)
LEMMA FlagStep ==
    ASSUME AllOf, Cardinality(Ref) <= CharMax, NEW t \in Threads, Step(t)
    PROVE  FlagInv'
<1> SUFFICES ASSUME NEW a \in Addr, Pointers(a)' # {} PROVE FlagAt(a)'
    BY DEF FlagInv
<1> QED BY QuietOrNot, QuietFlags, BitFlags, MoveFlags, AddSelectFlags, SubSelectFlags,
   AddFlags, SubFlags

-----------------------------------------------------------------------------
(* What nobody points to has an owner.                                     *)

(* New memory has an owner.                                                *)
LEMMA NewOwned ==
    ASSUME AllOf, NEW t \in Threads, Step(t), NEW a \in Addr, a \in allocated', a \notin allocated
    PROVE  Owns(t, a)'
<1> USE LibAssumption DEF LibAssumption, AllOf, TypeOK, tables, memory, counters, call, Goto, Return,
                          Owns, Entering, Inserting
<1>1. CASE lib_malloc_call(t)
    BY <1>1 DEF lib_malloc_call
<1>2. CASE lib_malloc_global(t)
    BY <1>2 DEF lib_malloc_global
<1>3. CASE lib_malloc_make(t)
    BY <1>3 DEF lib_malloc_make
<1>4. CASE lib_malloc_zero(t)
    BY <1>4 DEF lib_malloc_zero
<1>5. CASE lib_malloc_alloc(t)
    BY <1>5 DEF lib_malloc_alloc
<1>6. CASE lib_malloc_fails(t)
    BY <1>6 DEF lib_malloc_fails
<1>7. CASE lib_page_insert_walk(t)
    BY <1>7 DEF lib_page_insert_walk
<1>8. CASE lib_page_insert_lock(t)
    BY <1>8 DEF lib_page_insert_lock
<1>9. CASE lib_page_insert_create(t)
    BY <1>9 DEF lib_page_insert_create
<1>10. CASE lib_page_insert_bit(t)
    BY <1>10 DEF lib_page_insert_bit
<1>11. CASE lib_flag_add_select(t)
    BY <1>11 DEF lib_flag_add_select
<1>12. CASE lockinfo(t)
    BY <1>12 DEF lockinfo
<1>13. CASE lib_flag_add_flag(t)
    BY <1>13 DEF lib_flag_add_flag
<1>14. CASE unlockinfo(t)
    BY <1>14 DEF unlockinfo
<1>15. CASE lib_flag_sub_select(t)
    BY <1>15 DEF lib_flag_sub_select
<1>16. CASE lib_flag_sub_flag(t)
    BY <1>16 DEF lib_flag_sub_flag
<1>17. CASE lib_flag_sub_unlock(t)
    BY <1>17 DEF lib_flag_sub_unlock
<1>18. CASE __lib_free_delete(t)
    BY <1>18 DEF __lib_free_delete
<1>19. CASE __lib_free_free(t)
    BY <1>19 DEF __lib_free_free
<1>20. CASE lib_realloc_call(t)
    BY <1>20 DEF lib_realloc_call
<1>21. CASE lib_realloc_stays(t)
    BY <1>21 DEF lib_realloc_stays
<1>22. CASE lib_realloc_moves(t)
    BY <1>22 DEF lib_realloc_moves
<1>23. CASE lib_realloc_delete(t)
    BY <1>23 DEF lib_realloc_delete
<1> QED
    BY <1>1, <1>2, <1>3, <1>4, <1>5, <1>6, <1>7, <1>8, <1>9, <1>10, <1>11, <1>12, <1>13,
       <1>14, <1>15, <1>16, <1>17, <1>18, <1>19, <1>20, <1>21, <1>22, <1>23
    DEF Step, lib_malloc, lib_page_insert, lib_free, lib_realloc

(* An owner leaves a pointer behind, or frees.                             *)
LEMMA OwnerLeaves ==
    ASSUME AllOf, NEW t \in Threads, Step(t), NEW a \in Addr, Owns(t, a), a \in allocated'
    PROVE  Owns(t, a)' \/ Pointers(a)' # {}
<1> USE LibAssumption DEF LibAssumption, AllOf, TypeOK, tables, memory, counters, call, Goto, Return,
                          Owns, Entering, Inserting, Dying
<1>1. CASE lib_malloc_call(t)
    BY <1>1 DEF lib_malloc_call
<1>2. CASE lib_malloc_global(t)
    BY <1>2 DEF lib_malloc_global
<1>3. CASE lib_malloc_make(t)
    BY <1>3 DEF lib_malloc_make
<1>4. CASE lib_malloc_zero(t)
    BY <1>4 DEF lib_malloc_zero
<1>5. CASE lib_malloc_alloc(t)
    BY <1>5 DEF lib_malloc_alloc
<1>6. CASE lib_malloc_fails(t)
    BY <1>6 DEF lib_malloc_fails
<1>7. CASE lib_page_insert_walk(t)
    BY <1>7 DEF lib_page_insert_walk
<1>8. CASE lib_page_insert_lock(t)
    BY <1>8 DEF lib_page_insert_lock
<1>9. CASE lib_page_insert_create(t)
    BY <1>9 DEF lib_page_insert_create
<1>10. CASE lib_page_insert_bit(t)
    <2>1. ref[t] \in Ref /\ held' = [held EXCEPT ![ref[t]] = a]
        BY <1>10 DEF lib_page_insert_bit, LocalInv, Local
    <2>2. held'[ref[t]] = a
        BY <2>1
    <2> QED BY <2>1, <2>2 DEF Pointers
<1>11. CASE lib_flag_add_select(t)
    BY <1>11 DEF lib_flag_add_select
<1>12. CASE lockinfo(t)
    BY <1>12 DEF lockinfo
<1>13. CASE lib_flag_add_flag(t)
    BY <1>13 DEF lib_flag_add_flag
<1>14. CASE unlockinfo(t)
    BY <1>14 DEF unlockinfo
<1>15. CASE lib_flag_sub_select(t)
    BY <1>15 DEF lib_flag_sub_select
<1>16. CASE lib_flag_sub_flag(t)
    BY <1>16 DEF lib_flag_sub_flag
<1>17. CASE lib_flag_sub_unlock(t)
    BY <1>17 DEF lib_flag_sub_unlock
<1>18. CASE __lib_free_delete(t)
    BY <1>18 DEF __lib_free_delete
<1>19. CASE __lib_free_free(t)
    BY <1>19 DEF __lib_free_free
<1>20. CASE lib_realloc_call(t)
    BY <1>20 DEF lib_realloc_call
<1>21. CASE lib_realloc_stays(t)
    BY <1>21 DEF lib_realloc_stays
<1>22. CASE lib_realloc_moves(t)
    BY <1>22 DEF lib_realloc_moves
<1>23. CASE lib_realloc_delete(t)
    BY <1>23 DEF lib_realloc_delete
<1> QED
    BY <1>1, <1>2, <1>3, <1>4, <1>5, <1>6, <1>7, <1>8, <1>9, <1>10, <1>11, <1>12, <1>13,
       <1>14, <1>15, <1>16, <1>17, <1>18, <1>19, <1>20, <1>21, <1>22, <1>23
    DEF Step, lib_malloc, lib_page_insert, lib_free, lib_realloc

(* A block that was not hit is counted exactly while a call gives a        *)
(* pointer to it back, or is about to.                                     *)
LEMMA BitOfPointer ==
    ASSUME AllOf, NEW r \in Ref, NEW a \in Addr, held[r] = a, a \notin hit,
           \A u \in Threads : pc[u] \in Entering => ref[u] # r
    PROVE  a \in bits /\ lib_page_select(a) /\ info[a].flag = Cardinality(Pointers(a))
<1>1. a # NULL
    BY LibAssumption DEF LibAssumption
<1>2. a \in bits
    BY <1>1 DEF AllOf, BitInv
<1>3. r \in Pointers(a)
    BY DEF Pointers
<1> QED BY <1>2, <1>3 DEF AllOf, TableInv, FlagInv, FlagAt, lib_page_select

(* The last pointer to a block is given back by a call that then owns it.  *)
LEMMA PointerKept ==
    ASSUME AllOf, NEW t \in Threads, Step(t), NEW a \in Addr, a \notin hit, a \in allocated',
           Pointers(a) # {}
    PROVE  Owns(t, a)' \/ Pointers(a)' # {}
<1>0. held \in [Ref -> Addr \cup {NULL}] /\ NULL \notin Addr
    BY LibAssumption DEF LibAssumption, AllOf, TypeOK
<1>1. PICK s \in Pointers(a) : s \in Ref /\ held[s] = a
    BY DEF Pointers
<1> SUFFICES ASSUME held'[s] # a PROVE Owns(t, a)' \/ Pointers(a)' # {}
    BY <1>1 DEF Pointers
<1>2. CASE Quiet(t)
    BY <1>1, <1>2 DEF Quiet
<1>3. CASE lib_page_insert_bit(t)
    <2>1. held' = [held EXCEPT ![ref[t]] = ptr[t]] /\ pc[t] \in Entering
        BY <1>3 DEF lib_page_insert_bit, Entering, Inserting
    <2>2. held[ref[t]] = NULL \/ held[ref[t]] = ptr[t]
        BY <2>1 DEF AllOf, LocalInv, Local
    <2> QED BY <1>0, <1>1, <2>1, <2>2
<1>4. CASE lib_flag_add_select(t)
    BY <1>0, <1>1, <1>4 DEF lib_flag_add_select
<1>5. CASE lib_flag_add_flag(t)
    <2>1. held' = [held EXCEPT ![ref2[t]] = ptr[t]] /\ held[ref2[t]] = NULL
        BY <1>5 DEF lib_flag_add_flag, Goto, AllOf, LocalInv, Local, Adding
    <2> QED BY <1>0, <1>1, <2>1
<1>6. CASE lib_flag_sub_select(t)
    <2>1. ~Busy(s) /\ ~lib_page_select(held[s])
        BY <1>0, <1>1, <1>6 DEF lib_flag_sub_select
    <2>2. \A u \in Threads : ref[u] # s
        BY <2>1 DEF Busy
    <2> QED BY <1>1, <2>1, <2>2, BitOfPointer
<1>7. CASE lib_realloc_moves(t)
    <2>1. pc[t] = "realloc"
        BY <1>7 DEF lib_realloc_moves, Goto
    <2>2. held' # held /\ s = ref[t]
        BY <1>0, <1>1, <1>7 DEF lib_realloc_moves
    <2>3. a = old[t] /\ old[t] \in allocated
        BY <1>1, <2>1, <2>2, MovedBlock
    <2>4. a \notin allocated'
        BY <1>7, <2>3 DEF lib_realloc_moves
    <2> QED BY <2>4
<1>8. CASE lib_flag_sub_flag(t)
    <2>1. /\ pc[t] = "sub" /\ held' = [held EXCEPT ![ref[t]] = NULL] /\ ptr' = ptr
          /\ pc'[t] = IF info[ptr[t]].flag - 1 <= 0 THEN "unlock_free" ELSE "unlock"
        BY <1>8 DEF lib_flag_sub_flag, Goto, AllOf, TypeOK, call
    <2>2. s = ref[t] /\ ptr[t] = a
        BY <1>0, <1>1, <2>1, SubCount
    <2>3. CASE info[a].flag - 1 <= 0
        BY <2>1, <2>2, <2>3 DEF Owns, Dying
    <2>4. CASE ~(info[a].flag - 1 <= 0)
        <3>1. \A u \in Threads : pc[u] \in Entering => ref[u] # s
            <4>1. ASSUME NEW u \in Threads, pc[u] \in Entering, ref[u] = s PROVE FALSE
                <5>1. u # t
                    BY <2>1, <4>1 DEF Entering, Inserting
                <5>2. s \in Vars(u) /\ s \in Vars(t)
                    BY <1>1, <2>2, <4>1, LibAssumption DEF Vars, LibAssumption
                <5> QED BY <5>1, <5>2 DEF AllOf, AloneInv
            <4> QED BY <4>1
        <3>2. info[a].flag = Cardinality(Pointers(a))
            BY <1>1, <3>1, BitOfPointer
        <3>3. Cardinality(Pointers(a)) # 1
            BY <2>4, <3>2
        <3>4. PICK x \in Pointers(a) : x # s
            BY <1>1, <3>3, FS_Singleton
        <3>5. held'[x] = a /\ x \in Ref
            BY <1>0, <2>1, <2>2, <3>4 DEF Pointers
        <3> QED BY <3>5 DEF Pointers
    <2> QED BY <2>3, <2>4
<1> QED BY <1>2, <1>3, <1>4, <1>5, <1>6, <1>7, <1>8, QuietOrNot

(* Every step keeps LeakInv.                                               *)
LEMMA LeakStep ==
    ASSUME AllOf, LeakInv, NEW t \in Threads, Step(t)
    PROVE  LeakInv'
<1> SUFFICES ASSUME NEW a \in Addr, a \in allocated', a \notin hit'
             PROVE  Pointers(a)' # {} \/ \E u \in Threads : Owns(u, a)'
    BY TypeStep DEF LeakInv, TypeOK
<1>1. CASE a \notin allocated
    BY <1>1, NewOwned
<1>2. CASE a \in allocated
    <2>1. a \notin hit
        BY HitEffect
    <2>2. CASE Pointers(a) # {}
        BY <2>1, <2>2, PointerKept
    <2>3. ASSUME NEW u \in Threads, Owns(u, a)
          PROVE  Pointers(a)' # {} \/ \E v \in Threads : Owns(v, a)'
        <3>1. CASE u = t
            BY <2>3, <3>1, OwnerLeaves
        <3>2. CASE u # t
            BY <2>3, <3>2, OthersStay DEF AllOf, Owns
        <3> QED BY <3>1, <3>2
    <2> QED BY <1>2, <2>1, <2>2, <2>3 DEF LeakInv
<1> QED BY <1>1, <1>2

-----------------------------------------------------------------------------
(* The count of live blocks.                                               *)

(* The blocks that are released and not free yet.                          *)
LEMMA ReleasedFacts ==
    ASSUME AllOf, NEW t \in Threads, Step(t)
    PROVE  /\ Released = {a \in Addr : \/ pc[t] = "free" /\ ptr[t] = a
                                       \/ \E u \in Threads \ {t} : pc[u] = "free" /\ ptr[u] = a}
           /\ Released' = {a \in Addr : \/ pc'[t] = "free" /\ ptr'[t] = a
                                        \/ \E u \in Threads \ {t} : pc[u] = "free" /\ ptr[u] = a}
           /\ \A a \in Released : a \in allocated /\ Pointers(a) = {}
           /\ \A a \in Addr : Owns(t, a) /\ pc[t] # "free" => a \notin Released
<1>1. \A u \in Threads \ {t} : pc'[u] = pc[u] /\ ptr'[u] = ptr[u]
    BY OthersStay DEF AllOf
<1>2. \A a \in Released : a \in allocated /\ Pointers(a) = {}
    BY DEF AllOf, HeldInv, LocalInv, Local, Released, Owns, Dying
<1>3. \A a \in Addr : Owns(t, a) /\ pc[t] # "free" => a \notin Released
    BY DEF AllOf, AloneInv, Released, Owns, Dying
<1> QED BY <1>1, <1>2, <1>3 DEF Released

(* A live block is counted when it comes, goes or moves.                   *)
LEMMA LiveEffect ==
    ASSUME AllOf, NEW t \in Threads, Step(t), pc[t] \notin {"make", "zero"}
    PROVE  \/ Live' = Live /\ memory_time' = memory_time
           \/ \E a \in Addr : a \notin Live /\ Live' = Live \cup {a} /\ memory_time' = memory_time + 1
           \/ \E a \in Live : Live' = Live \ {a} /\ memory_time' = memory_time - 1
           \/ \E n \in Addr, o \in Live : /\ n \notin Live /\ Live' = (Live \ {o}) \cup {n}
                                          /\ memory_time' = memory_time
<1>0. pc[t] # "free" /\ pc'[t] # "free" => Released' = Released
    <2>1. \A a \in Addr : pc[t] # "free" /\ pc'[t] # "free" => (a \in Released' <=> a \in Released)
        BY ReleasedFacts
    <2> QED BY <2>1 DEF Released
<1> USE LibAssumption DEF LibAssumption, AllOf, TypeOK, tables, memory, counters, call, Goto, Return
<1>1. CASE lib_malloc_call(t)
    BY <1>1, <1>0 DEF lib_malloc_call, Live
<1>2. CASE lib_malloc_global(t)
    BY <1>2, <1>0 DEF lib_malloc_global, Live
<1>3. CASE lib_malloc_make(t)
    BY <1>3 DEF lib_malloc_make
<1>4. CASE lib_malloc_zero(t)
    BY <1>4 DEF lib_malloc_zero
<1>5. CASE lib_malloc_alloc(t)
    <2>1. PICK n \in Addr \ allocated : allocated' = allocated \cup {n}
        BY <1>5 DEF lib_malloc_alloc
    <2>2. Released' = Released /\ n \notin Released /\ memory_time' = memory_time + 1
        BY <1>5, <1>0, <2>1, ReleasedFacts DEF lib_malloc_alloc
    <2>3. n \notin Live /\ Live' = Live \cup {n}
        BY <2>1, <2>2 DEF Live
    <2> QED BY <2>1, <2>2, <2>3
<1>6. CASE lib_malloc_fails(t)
    BY <1>6, <1>0 DEF lib_malloc_fails, Live
<1>7. CASE lib_page_insert_walk(t)
    BY <1>7, <1>0 DEF lib_page_insert_walk, Live
<1>8. CASE lib_page_insert_lock(t)
    BY <1>8, <1>0 DEF lib_page_insert_lock, Live
<1>9. CASE lib_page_insert_create(t)
    BY <1>9, <1>0 DEF lib_page_insert_create, Live
<1>10. CASE lib_page_insert_bit(t)
    BY <1>10, <1>0 DEF lib_page_insert_bit, Live
<1>11. CASE lib_flag_add_select(t)
    BY <1>11, <1>0 DEF lib_flag_add_select, Live
<1>12. CASE lockinfo(t)
    BY <1>12, <1>0 DEF lockinfo, Live
<1>13. CASE lib_flag_add_flag(t)
    BY <1>13, <1>0 DEF lib_flag_add_flag, Live
<1>14. CASE unlockinfo(t)
    BY <1>14, <1>0 DEF unlockinfo, Live
<1>15. CASE lib_flag_sub_select(t)
    BY <1>15, <1>0 DEF lib_flag_sub_select, Live
<1>16. CASE lib_flag_sub_flag(t)
    BY <1>16, <1>0 DEF lib_flag_sub_flag, Live
<1>17. CASE lib_flag_sub_unlock(t)
    BY <1>17, <1>0 DEF lib_flag_sub_unlock, Live
<1>18. CASE __lib_free_delete(t)
    <2>0. ptr[t] \in Addr /\ Owns(t, ptr[t]) /\ pc[t] = "delete"
        BY <1>18 DEF __lib_free_delete, Owns, LocalInv, Local, Dying
    <2>1. ptr[t] \in allocated /\ ptr[t] \notin Released
        BY <2>0, ReleasedFacts DEF HeldInv
    <2>2. allocated' = allocated /\ memory_time' = memory_time - 1 /\ pc'[t] = "free" /\ ptr' = ptr
        BY <1>18 DEF __lib_free_delete
    <2>3. Released' = Released \cup {ptr[t]}
        BY <2>0, <2>2, ReleasedFacts
    <2>4. Live' = Live \ {ptr[t]} /\ ptr[t] \in Live
        BY <2>1, <2>2, <2>3 DEF Live
    <2> QED BY <2>2, <2>4
<1>19. CASE __lib_free_free(t)
    <2>0. ptr[t] \in Addr /\ Owns(t, ptr[t]) /\ pc[t] = "free"
        BY <1>19 DEF __lib_free_free, Owns, LocalInv, Local, Dying
    <2>1. \A u \in Threads \ {t} : pc[u] = "free" => ptr[u] # ptr[t]
        BY <2>0 DEF AloneInv, Owns, Dying
    <2>2. allocated' = allocated \ {ptr[t]} /\ memory_time' = memory_time /\ pc'[t] = "idle"
        BY <1>19 DEF __lib_free_free
    <2>3. Released' = Released \ {ptr[t]} /\ ptr[t] \in Released
        BY <2>0, <2>1, <2>2, ReleasedFacts
    <2>4. Live' = Live
        BY <2>2, <2>3 DEF Live
    <2> QED BY <2>2, <2>4
<1>20. CASE lib_realloc_call(t)
    BY <1>20, <1>0 DEF lib_realloc_call, Live
<1>21. CASE lib_realloc_stays(t)
    BY <1>21, <1>0 DEF lib_realloc_stays, Live
<1>22. CASE lib_realloc_moves(t)
    <2>1. PICK n \in Addr \ allocated : allocated' = (allocated \ {old[t]}) \cup {n}
        BY <1>22 DEF lib_realloc_moves
    <2>2. Released' = Released /\ memory_time' = memory_time /\ pc[t] = "realloc"
        BY <1>22, <1>0 DEF lib_realloc_moves
    <2>3. old[t] \in allocated /\ old[t] \notin Released /\ n \notin Released
        <3>1. old[t] \in allocated /\ Pointers(old[t]) = {ref[t]}
            BY <2>2, MovedBlock
        <3> QED BY <2>1, <3>1, ReleasedFacts
    <2>4. n \notin Live /\ old[t] \in Live /\ Live' = (Live \ {old[t]}) \cup {n}
        BY <2>1, <2>2, <2>3 DEF Live
    <2> QED BY <2>1, <2>2, <2>4
<1>23. CASE lib_realloc_delete(t)
    BY <1>23, <1>0 DEF lib_realloc_delete, Live
<1> QED
    BY <1>1, <1>2, <1>3, <1>4, <1>5, <1>6, <1>7, <1>8, <1>9, <1>10, <1>11, <1>12, <1>13,
       <1>14, <1>15, <1>16, <1>17, <1>18, <1>19, <1>20, <1>21, <1>22, <1>23
    DEF Step, lib_malloc, lib_page_insert, lib_free, lib_realloc

(* The count of live blocks stays exact.                                   *)
LEMMA CountRuns ==
    ASSUME AllOf, NEW t \in Threads, Step(t), pc[t] \notin {"make", "zero"},
           memory_time = Cardinality(Live)
    PROVE  memory_time' = Cardinality(Live')
<1>1. IsFiniteSet(Live) /\ Cardinality(Live) \in Nat
    BY LibAssumption, FS_Subset, FS_CardinalityType DEF LibAssumption, AllOf, TypeOK, Live
<1>2. CASE Live' = Live /\ memory_time' = memory_time
    BY <1>2
<1>3. ASSUME NEW a \in Addr, a \notin Live, Live' = Live \cup {a}, memory_time' = memory_time + 1
      PROVE  memory_time' = Cardinality(Live')
    BY <1>1, <1>3, FS_AddElement
<1>4. ASSUME NEW a \in Live, Live' = Live \ {a}, memory_time' = memory_time - 1
      PROVE  memory_time' = Cardinality(Live')
    BY <1>1, <1>4, FS_RemoveElement
<1>5. ASSUME NEW n \in Addr, NEW o \in Live, n \notin Live, Live' = (Live \ {o}) \cup {n},
             memory_time' = memory_time
      PROVE  memory_time' = Cardinality(Live')
    <2>1. IsFiniteSet(Live \ {o}) /\ Cardinality(Live \ {o}) = Cardinality(Live) - 1
        BY <1>1, FS_RemoveElement
    <2>2. Cardinality((Live \ {o}) \cup {n}) = Cardinality(Live \ {o}) + 1
        BY <1>5, <2>1, FS_AddElement
    <2> QED BY <1>1, <1>5, <2>1, <2>2
<1> QED BY <1>2, <1>3, <1>4, <1>5, LiveEffect

(* What a step does to the beginning of the count.                         *)
LEMMA StartEffect ==
    ASSUME AllOf, NEW t \in Threads, Step(t)
    PROVE  /\ raced => raced'
           /\ pc[t] = "idle" /\ allocated = {} => UNCHANGED <<allocated, global, memory_time>>
                                                  /\ pc'[t] \in {"idle", "global"}
           /\ pc[t] = "global" =>
                /\ UNCHANGED <<allocated, global, memory_time>>
                /\ raced' = (raced \/ \E u \in Threads : pc[u] \in {"make", "zero"})
                /\ pc'[t] = IF global THEN "alloc" ELSE "make"
           /\ pc[t] = "make" => pc'[t] = "zero" /\ global' = TRUE /\ allocated' = allocated
           /\ pc[t] = "zero" => /\ pc'[t] = "alloc" /\ global' = global /\ memory_time' = 0
                                /\ allocated' = allocated
           /\ global => global'
           /\ pc'[t] \in {"make", "zero"} => pc[t] \in {"global", "make"}
<1> USE LibAssumption DEF LibAssumption, AllOf, TypeOK, tables, memory, counters, call, Goto, Return
<1>0. allocated = {} => \A r \in Ref : held[r] = NULL
    BY DEF HeldInv
<1>1. CASE lib_malloc_call(t)
    BY <1>1 DEF lib_malloc_call
<1>2. CASE lib_malloc_global(t)
    BY <1>2 DEF lib_malloc_global
<1>3. CASE lib_malloc_make(t)
    BY <1>3 DEF lib_malloc_make
<1>4. CASE lib_malloc_zero(t)
    BY <1>4 DEF lib_malloc_zero
<1>5. CASE lib_malloc_alloc(t)
    BY <1>5 DEF lib_malloc_alloc
<1>6. CASE lib_malloc_fails(t)
    BY <1>6 DEF lib_malloc_fails
<1>7. CASE lib_page_insert_walk(t)
    BY <1>7 DEF lib_page_insert_walk
<1>8. CASE lib_page_insert_lock(t)
    BY <1>8 DEF lib_page_insert_lock
<1>9. CASE lib_page_insert_create(t)
    BY <1>9 DEF lib_page_insert_create
<1>10. CASE lib_page_insert_bit(t)
    BY <1>10 DEF lib_page_insert_bit
<1>11. CASE lib_flag_add_select(t)
    BY <1>11, <1>0 DEF lib_flag_add_select
<1>12. CASE lockinfo(t)
    BY <1>12 DEF lockinfo
<1>13. CASE lib_flag_add_flag(t)
    BY <1>13 DEF lib_flag_add_flag
<1>14. CASE unlockinfo(t)
    BY <1>14 DEF unlockinfo
<1>15. CASE lib_flag_sub_select(t)
    BY <1>15, <1>0 DEF lib_flag_sub_select
<1>16. CASE lib_flag_sub_flag(t)
    BY <1>16 DEF lib_flag_sub_flag
<1>17. CASE lib_flag_sub_unlock(t)
    BY <1>17 DEF lib_flag_sub_unlock
<1>18. CASE __lib_free_delete(t)
    BY <1>18 DEF __lib_free_delete
<1>19. CASE __lib_free_free(t)
    BY <1>19 DEF __lib_free_free
<1>20. CASE lib_realloc_call(t)
    BY <1>20, <1>0 DEF lib_realloc_call
<1>21. CASE lib_realloc_stays(t)
    BY <1>21 DEF lib_realloc_stays
<1>22. CASE lib_realloc_moves(t)
    BY <1>22 DEF lib_realloc_moves
<1>23. CASE lib_realloc_delete(t)
    BY <1>23 DEF lib_realloc_delete
<1> QED
    BY <1>1, <1>2, <1>3, <1>4, <1>5, <1>6, <1>7, <1>8, <1>9, <1>10, <1>11, <1>12, <1>13,
       <1>14, <1>15, <1>16, <1>17, <1>18, <1>19, <1>20, <1>21, <1>22, <1>23
    DEF Step, lib_malloc, lib_page_insert, lib_free, lib_realloc

(* Every step keeps CountInv.                                              *)
LEMMA CountStep ==
    ASSUME AllOf, CountInv, NEW t \in Threads, Step(t)
    PROVE  CountInv'
<1> SUFFICES ASSUME ~raced, ~raced' PROVE Starting' \/ Running'
    BY StartEffect DEF CountInv
<1>1. Starting \/ Running
    BY DEF CountInv
<1>2. \A u \in Threads : u # t => pc'[u] = pc[u]
    BY OthersStay DEF AllOf
<1>3. CASE Starting
    <2>1. CASE pc[t] = "idle"
        BY <1>2, <1>3, <2>1, StartEffect DEF Starting
    <2>2. CASE pc[t] = "global"
        <3>1. \A u \in Threads : pc[u] \notin {"make", "zero"}
            BY <2>2, StartEffect
        <3>2. ~global /\ pc'[t] = "make"
            BY <1>3, <2>2, <3>1, StartEffect DEF Starting
        <3> QED BY <1>2, <1>3, <2>2, <3>1, <3>2, StartEffect DEF Starting
    <2>3. CASE pc[t] = "make"
        BY <1>2, <1>3, <2>3, StartEffect DEF Starting
    <2>4. CASE pc[t] = "zero"
        <3>1. Live' = {}
            BY <1>3, <2>4, StartEffect DEF Starting, Live
        <3>2. global' /\ memory_time' = 0 /\ pc'[t] = "alloc"
            BY <1>3, <2>4, StartEffect DEF Starting
        <3>3. \A u \in Threads : pc'[u] \notin {"make", "zero"}
            BY <1>2, <1>3, <2>4, <3>2 DEF Starting
        <3> QED BY <3>1, <3>2, <3>3, FS_EmptySet DEF Running
    <2> QED BY <1>3, <2>1, <2>2, <2>3, <2>4 DEF Starting
<1>4. CASE Running
    <2>1. memory_time' = Cardinality(Live')
        BY <1>4, CountRuns DEF Running
    <2>2. global' /\ pc'[t] \notin {"make", "zero"}
        BY <1>4, StartEffect DEF Running
    <2> QED BY <1>2, <1>4, <2>1, <2>2 DEF Running
<1> QED BY <1>1, <1>3, <1>4

-----------------------------------------------------------------------------
(* The invariant, and the properties of Lib.                               *)

(* Nothing is allocated in the beginning.                                  *)
LEMMA InitInv ==
    ASSUME Init
    PROVE  LibInv
<1> USE LibAssumption DEF LibAssumption, Init
<1>0. 0 \in -(CharMax + 1)..CharMax
    OBVIOUS
<1>1. TypeOK
    <2>1. info \in [Addr -> [lock: BOOLEAN, flag: -(CharMax + 1)..CharMax]]
        BY <1>0
    <2>2. held \in [Ref -> Addr \cup {NULL}] /\ level \in [Threads -> Nat \ {0}] /\ memory_time \in Int
        OBVIOUS
    <2>3. /\ ptr \in [Threads -> Addr \cup {NULL}] /\ old \in [Threads -> Addr \cup {NULL}]
          /\ ref \in [Threads -> Ref \cup {NULL}] /\ ref2 \in [Threads -> Ref \cup {NULL}]
        OBVIOUS
    <2>4. \A S : "idle" \in S => pc \in [Threads -> S]
        OBVIOUS
    <2> QED BY <2>1, <2>2, <2>3, <2>4 DEF TypeOK
<1>2. \A a \in Addr : Pointers(a) = {}
    BY DEF Pointers
<1>3. LocalInv
    BY DEF LocalInv, Local, Entering, Dying, Adding, Subbing, Asking, Inserting
<1>4. AloneInv /\ HeldInv
    BY DEF AloneInv, HeldInv, Vars, Owns, Entering, Dying, Inserting
<1>5. TableInv /\ BitInv /\ LeakInv
    BY DEF TableInv, BitInv, LeakInv, Inserting
<1>6. FlagInv
    BY <1>2 DEF FlagInv
<1>7. CountInv
    BY DEF CountInv, Starting
<1> QED BY <1>1, <1>3, <1>4, <1>5, <1>6, <1>7 DEF LibInv

(* The invariant is about the variables alone.                             *)
LEMMA StutterInv ==
    ASSUME LibInv, UNCHANGED vars
    PROVE  LibInv'
<1> USE DEF vars, tables, memory, counters, call
<1>0. \A a : Pointers(a)' = Pointers(a) /\ Leaving(a)' = Leaving(a) /\ Joining(a)' = Joining(a)
    BY DEF Pointers, Leaving, Joining
<1>1. TypeOK' /\ LocalInv'
    BY <1>0 DEF LibInv, TypeOK, LocalInv, Local
<1>5. AloneInv' /\ HeldInv'
    BY <1>0 DEF LibInv, AloneInv, HeldInv, Owns, Vars
<1>2. TableInv' /\ BitInv' /\ LeakInv'
    BY DEF LibInv, TableInv, BitInv, LeakInv, Owns, Pointers, Reached
<1>3. FlagInv'
    BY <1>0 DEF LibInv, FlagInv, FlagAt
<1>4. CountInv'
    BY DEF LibInv, CountInv, Starting, Running, Live, Released
<1> QED BY <1>1, <1>2, <1>3, <1>4, <1>5 DEF LibInv

(* With no more pointers than a count can count, the invariant holds in    *)
(* every state: whichever blocks the threads of lib.c allocate, share,     *)
(* resize and release beside each other.                                   *)
THEOREM LibInvariance ==
    ASSUME Cardinality(Ref) <= CharMax
    PROVE  Spec => []LibInv
<1>1. Init => LibInv
    BY InitInv
<1>2. LibInv /\ [Next]_vars => LibInv'
    <2>1. ASSUME LibInv, NEW t \in Threads, Step(t) PROVE LibInv'
        <3>1. AllOf
            BY <2>1 DEF LibInv, AllOf
        <3>2. TypeOK' /\ LocalInv' /\ AloneInv' /\ HeldInv'
            BY <2>1, <3>1, TypeStep, LocalStep, AloneStep, HeldStep
        <3>3. TableInv' /\ BitInv' /\ FlagInv'
            BY <2>1, <3>1, TableStep, BitStep, FlagStep
        <3>4. LeakInv' /\ CountInv'
            BY <2>1, <3>1, LeakStep, CountStep DEF LibInv
        <3> QED BY <3>2, <3>3, <3>4 DEF LibInv
    <2> QED BY <2>1, StutterInv DEF Next
<1> QED BY <1>1, <1>2, PTL DEF Spec

(* A pointer points to memory that is still its own, and lib_malloc_info   *)
(* recognises it: HeldUsable of Lib, for any number of threads, blocks,    *)
(* pointers and pages.                                                     *)
THEOREM LibHeldUsable ==
    ASSUME Cardinality(Ref) <= CharMax
    PROVE  Spec => []HeldUsable
<1>1. LibInv => HeldUsable
    <2> SUFFICES ASSUME LibInv, NEW r \in Ref, held[r] # NULL
                 PROVE  /\ held[r] \in allocated
                        /\ held[r] \notin hit /\ ~Busy(r) => lib_page_select(held[r])
        BY DEF HeldUsable
    <2>1. AllOf /\ held[r] \in Addr /\ held[r] \in allocated
        BY DEF LibInv, AllOf, TypeOK, HeldInv
    <2>2. ASSUME held[r] \notin hit, ~Busy(r) PROVE lib_page_select(held[r])
        BY <2>1, <2>2, BitOfPointer DEF Busy
    <2> QED BY <2>1, <2>2
<1> QED BY <1>1, LibInvariance, PTL

(* No block is lost, no bit is left behind and the count of live blocks is *)
(* right: NothingLeaks of Lib.                                             *)
THEOREM LibNothingLeaks ==
    ASSUME Cardinality(Ref) <= CharMax
    PROVE  Spec => []NothingLeaks
<1>1. LibInv => NothingLeaks
    <2> SUFFICES ASSUME LibInv PROVE NothingLeaks
        OBVIOUS
    <2>1. \A a \in allocated \ hit : Pointers(a) # {} \/ \E t \in Threads : ptr[t] = a
        BY DEF LibInv, LeakInv, Owns
    <2>2. \A a \in bits \ allocated : \E t \in Threads : old[t] = a
        BY DEF LibInv, TableInv
    <2>3. ASSUME \A t \in Threads : pc[t] = "idle", ~raced
          PROVE  memory_time = Cardinality(allocated)
        <3>1. CASE Starting
            BY <2>3, <3>1, FS_EmptySet DEF Starting
        <3>2. CASE Running
            <4>1. Live = allocated
                BY <2>3 DEF Live, Released
            <4> QED BY <3>2, <4>1 DEF Running
        <3> QED BY <2>3, <3>1, <3>2 DEF LibInv, CountInv
    <2> QED BY <2>1, <2>2, <2>3 DEF LibInv, NothingLeaks
<1> QED BY <1>1, LibInvariance, PTL
=============================================================================
