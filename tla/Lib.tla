-------------------------------- MODULE Lib ----------------------------------
(***************************************************************************)
(* The managed allocator of lib.c: threads that allocate, share, resize    *)
(* and release blocks.  A page table (libmap), built on demand, has one    *)
(* bit per block that lib_malloc returned; a block carries a lock and a    *)
(* count of references (lib_info).  A Ref is a pointer variable of the     *)
(* program, used by one call at a time: it is what a reference is counted  *)
(* for.  malloc, realloc and free of the C library are atomic and may hand *)
(* out any block that is not allocated.                                    *)
(***************************************************************************)
EXTENDS Integers, Sequences, FiniteSets

CONSTANTS Threads, Addr, Ref, NULL,
          Private,      \* pointers to blocks that are resized and not shared
          Node,         \* page tables that can exist; a number says which
          Path,         \* Path[a]: the pages from libmap to the bit of a
          CharMax       \* largest value of a char, 127

ASSUME LibAssumption ==
    /\ NULL \notin Addr /\ NULL \notin Ref /\ NULL \notin Threads
    /\ IsFiniteSet(Ref) /\ IsFiniteSet(Addr) /\ Private \subseteq Ref
    /\ Path \in [Addr -> Seq(Node) \ {<<>>}]
    /\ \A a, b \in Addr : \A i \in DOMAIN Path[a], j \in DOMAIN Path[b] :
        Path[a][i] = Path[b][j] => i = j /\ \A k \in 1..i : Path[a][k] = Path[b][k]
    /\ CharMax \in Nat \ {0}

VARIABLES pages,        \* the pages that exist
          bits,         \* blocks whose bit is set
          locked,       \* byte locks of pages that are taken; NULL is liblock
          allocated,    \* blocks the C library has handed out
          info,         \* lib_info of every block
          held,         \* the block each pointer variable points to
          global, memory_time,  \* the TEST counters and whether they exist
          pc,           \* where each thread is
          ptr, old,     \* __ptr or __nptr of its call; __ptr in lib_realloc
          ref, ref2,    \* the pointer variables its call is about
          level,        \* i of lib_page_insert
          hit,          \* history: blocks that lost their bit to a lib_realloc
                        \* of another thread after they were registered
          raced         \* history: a call came while global was being created

tables == <<pages, bits, locked>>
memory == <<allocated, info>>
counters == <<global, memory_time, raced>>
call == <<ptr, old, ref, ref2, level>>
vars == <<tables, memory, held, counters, pc, call, hit>>

(* The steps of lib_page_insert, and those that hold the lock of a block.  *)
Inserting == {"walk", "lock", "create"}
Holding == {"add", "sub", "unlock", "unlock_free"}

TypeOK ==
    /\ pages \subseteq Node /\ bits \subseteq Addr /\ allocated \subseteq Addr
    /\ locked \subseteq Node \cup {NULL}
    /\ info \in [Addr -> [lock: BOOLEAN, flag: -(CharMax + 1)..CharMax]]
    /\ held \in [Ref -> Addr \cup {NULL}]
    /\ global \in BOOLEAN /\ memory_time \in Int /\ raced \in BOOLEAN
    /\ pc \in [Threads -> Inserting \cup Holding \cup
                {"idle", "global", "make", "zero", "alloc", "lockinfo_add", "lockinfo_sub",
                 "delete", "free", "realloc", "delete_old"}]
    /\ ptr \in [Threads -> Addr \cup {NULL}] /\ old \in [Threads -> Addr \cup {NULL}]
    /\ ref \in [Threads -> Ref \cup {NULL}] /\ ref2 \in [Threads -> Ref \cup {NULL}]
    /\ level \in [Threads -> Nat \ {0}]
    /\ hit \subseteq Addr

Init ==
    /\ pages = {} /\ bits = {} /\ locked = {} /\ allocated = {}
    /\ info = [a \in Addr |-> [lock |-> FALSE, flag |-> 0]]
    /\ held = [r \in Ref |-> NULL]
    /\ global = FALSE /\ memory_time = 0
    /\ pc = [t \in Threads |-> "idle"]
    /\ ptr = [t \in Threads |-> NULL] /\ old = [t \in Threads |-> NULL]
    /\ ref = [t \in Threads |-> NULL] /\ ref2 = [t \in Threads |-> NULL]
    /\ level = [t \in Threads |-> 1]
    /\ hit = {} /\ raced = FALSE

Goto(t, from, to) == pc[t] = from /\ pc' = [pc EXCEPT ![t] = to]

(* A call ends and forgets its locals.                                     *)
Return(t, from) ==
    /\ Goto(t, from, "idle")
    /\ ptr' = [ptr EXCEPT ![t] = NULL] /\ old' = [old EXCEPT ![t] = NULL]
    /\ ref' = [ref EXCEPT ![t] = NULL] /\ ref2' = [ref2 EXCEPT ![t] = NULL]
    /\ level' = [level EXCEPT ![t] = 1]

Busy(r) == \E t \in Threads : r \in {ref[t], ref2[t]}

(* A char counts modulo 2^8, from -128 to 127.                             *)
Char(n) == IF n > CharMax THEN n - 2 * (CharMax + 1) ELSE n

-----------------------------------------------------------------------------
(* The page table.  Every page of the path of a block is tested without a  *)
(* lock, and created under the lock of the page above it after a second    *)
(* test.  A new page is empty, so nothing below it is set any more.        *)

Current(t) == Path[ptr[t]][level[t]]

Above(t) == IF level[t] = 1 THEN NULL ELSE Path[ptr[t]][level[t] - 1]

Under(n) == {a \in Addr : \E i \in DOMAIN Path[a] : Path[a][i] = n}

Below(n) == {m \in Node : \E a \in Addr : \E i, j \in DOMAIN Path[a] :
                i < j /\ Path[a][i] = n /\ Path[a][j] = m}

lib_page_insert_walk(t) ==
    /\ pc[t] = "walk" /\ level[t] <= Len(Path[ptr[t]])
    /\ IF Current(t) \in pages
       THEN /\ Goto(t, "walk", "walk")
            /\ level' = [level EXCEPT ![t] = @ + 1]
       ELSE /\ Goto(t, "walk", "lock")
            /\ UNCHANGED level
    /\ UNCHANGED <<tables, memory, held, counters, ptr, old, ref, ref2, hit>>

lib_page_insert_lock(t) ==
    /\ Goto(t, "lock", "create")
    /\ Above(t) \notin locked /\ locked' = locked \cup {Above(t)}
    /\ UNCHANGED <<pages, bits, memory, held, counters, call, hit>>

calloc_page(n) ==
    /\ pages' = (pages \ Below(n)) \cup {n}
    /\ bits' = bits \ Under(n)

(* Mutant: no second test under the lock.                                  *)
lib_page_insert_create_NoRetest(t) ==
    /\ Goto(t, "create", "walk")
    /\ calloc_page(Current(t))
    /\ locked' = locked \ {Above(t)}
    /\ UNCHANGED <<memory, held, counters, call, hit>>

lib_page_insert_create(t) ==
    /\ Goto(t, "create", "walk")
    /\ IF Current(t) \in pages THEN UNCHANGED <<pages, bits>> ELSE calloc_page(Current(t))
    /\ locked' = locked \ {Above(t)}
    /\ UNCHANGED <<memory, held, counters, call, hit>>

(* __sync_fetch_and_or of the bit; the caller then returns the pointer.    *)
lib_page_insert_bit(t) ==
    /\ pc[t] = "walk" /\ level[t] > Len(Path[ptr[t]])
    /\ bits' = bits \cup {ptr[t]}
    /\ held' = [held EXCEPT ![ref[t]] = ptr[t]]
    /\ Return(t, "walk")
    /\ UNCHANGED <<pages, locked, memory, counters, hit>>

lib_page_insert(t) ==
    \/ lib_page_insert_walk(t) \/ lib_page_insert_lock(t)
    \/ lib_page_insert_create(t) \/ lib_page_insert_bit(t)

(* Whether the bit is found, and its removal by __sync_fetch_and_and; a    *)
(* page that is missing on the way ends both.                              *)
Reached(a) == \A i \in DOMAIN Path[a] : Path[a][i] \in pages

lib_page_select(a) == Reached(a) /\ a \in bits

lib_page_delete(a) == bits' = IF Reached(a) THEN bits \ {a} ELSE bits

-----------------------------------------------------------------------------
(* lib_malloc_3, from lib_malloc, lib_calloc or lib_strdup                 *)

lib_malloc_call(t) ==
    /\ Goto(t, "idle", "global")
    /\ \E r \in Ref : /\ held[r] = NULL /\ ~Busy(r)
                      /\ ref' = [ref EXCEPT ![t] = r]
    /\ UNCHANGED <<tables, memory, held, counters, ptr, old, ref2, level, hit>>

lib_malloc_global(t) ==
    /\ Goto(t, "global", IF global THEN "alloc" ELSE "make")
    /\ raced' = (raced \/ \E u \in Threads : pc[u] \in {"make", "zero"})
    /\ UNCHANGED <<tables, memory, held, global, memory_time, call, hit>>

(* The new counters are not initialised: 1 stands for any garbage.         *)
lib_malloc_make(t) ==
    /\ Goto(t, "make", "zero")
    /\ global' = TRUE /\ memory_time' \in {0, 1}
    /\ UNCHANGED <<tables, memory, held, raced, call, hit>>

lib_malloc_zero(t) ==
    /\ Goto(t, "zero", "alloc")
    /\ memory_time' = 0
    /\ UNCHANGED <<tables, memory, held, global, raced, call, hit>>

lib_malloc_alloc(t) ==
    /\ Goto(t, "alloc", "walk")
    /\ \E a \in Addr \ allocated :
        /\ allocated' = allocated \cup {a}
        /\ info' = [info EXCEPT ![a] = [lock |-> FALSE, flag |-> 1]]
        /\ ptr' = [ptr EXCEPT ![t] = a]
    /\ memory_time' = memory_time + 1
    /\ UNCHANGED <<tables, held, global, raced, old, ref, ref2, level, hit>>

(* malloc returns NULL.                                                    *)
lib_malloc_fails(t) ==
    /\ Return(t, "alloc")
    /\ UNCHANGED <<tables, memory, held, counters, hit>>

lib_malloc(t) ==
    \/ lib_malloc_call(t) \/ lib_malloc_global(t) \/ lib_malloc_make(t)
    \/ lib_malloc_zero(t) \/ lib_malloc_alloc(t) \/ lib_malloc_fails(t)

-----------------------------------------------------------------------------
(* lib_flag_add: a pointer the thread has is to be stored in another one.  *)

lib_flag_add_select(t) ==
    /\ pc[t] = "idle"
    /\ \E r, r2 \in Ref \ Private :
        /\ r # r2 /\ held[r] # NULL /\ held[r2] = NULL /\ ~Busy(r) /\ ~Busy(r2)
        /\ IF lib_page_select(held[r])
           THEN /\ Goto(t, "idle", "lockinfo_add")
                /\ ptr' = [ptr EXCEPT ![t] = held[r]]
                /\ ref' = [ref EXCEPT ![t] = r] /\ ref2' = [ref2 EXCEPT ![t] = r2]
                /\ UNCHANGED held
           ELSE /\ held' = [held EXCEPT ![r2] = held[r]]
                /\ UNCHANGED <<pc, ptr, ref, ref2>>
    /\ UNCHANGED <<tables, memory, counters, old, level, hit>>

lockinfo(t) ==
    /\ \/ Goto(t, "lockinfo_add", "add") \/ Goto(t, "lockinfo_sub", "sub")
    /\ ~info[ptr[t]].lock
    /\ info' = [info EXCEPT ![ptr[t]].lock = TRUE]
    /\ UNCHANGED <<tables, allocated, held, counters, call, hit>>

(* The copy of the pointer counts from here on.                            *)
lib_flag_add_flag(t) ==
    /\ Goto(t, "add", "unlock")
    /\ info' = [info EXCEPT ![ptr[t]].flag = Char(@ + 1)]
    /\ held' = [held EXCEPT ![ref2[t]] = ptr[t]]
    /\ UNCHANGED <<tables, allocated, counters, call, hit>>

unlockinfo(t) ==
    /\ Return(t, "unlock")
    /\ info' = [info EXCEPT ![ptr[t]].lock = FALSE]
    /\ UNCHANGED <<tables, allocated, held, counters, hit>>

-----------------------------------------------------------------------------
(* lib_free, which is lib_flag_sub, and __lib_free; lib_autofree with the  *)
(* default free function is the same call.                                 *)

lib_flag_sub_select(t) ==
    /\ pc[t] = "idle"
    /\ \E r \in Ref :
        /\ held[r] # NULL /\ ~Busy(r)
        /\ IF lib_page_select(held[r])
           THEN /\ Goto(t, "idle", "lockinfo_sub")
                /\ ptr' = [ptr EXCEPT ![t] = held[r]] /\ ref' = [ref EXCEPT ![t] = r]
                /\ UNCHANGED held
           ELSE /\ held' = [held EXCEPT ![r] = NULL]
                /\ UNCHANGED <<pc, ptr, ref>>
    /\ UNCHANGED <<tables, memory, counters, old, ref2, level, hit>>

(* Mutant: the last reference does not free.                               *)
lib_flag_sub_flag_Negative(t) ==
    /\ Goto(t, "sub", IF info[ptr[t]].flag - 1 < 0 THEN "unlock_free" ELSE "unlock")
    /\ info' = [info EXCEPT ![ptr[t]].flag = @ - 1]
    /\ held' = [held EXCEPT ![ref[t]] = NULL]
    /\ UNCHANGED <<tables, allocated, counters, call, hit>>

lib_flag_sub_flag(t) ==
    /\ Goto(t, "sub", IF info[ptr[t]].flag - 1 <= 0 THEN "unlock_free" ELSE "unlock")
    /\ info' = [info EXCEPT ![ptr[t]].flag = @ - 1]
    /\ held' = [held EXCEPT ![ref[t]] = NULL]
    /\ UNCHANGED <<tables, allocated, counters, call, hit>>

lib_flag_sub_unlock(t) ==
    /\ Goto(t, "unlock_free", "delete")
    /\ info' = [info EXCEPT ![ptr[t]].lock = FALSE]
    /\ UNCHANGED <<tables, allocated, held, counters, call, hit>>

__lib_free_delete(t) ==
    /\ Goto(t, "delete", "free")
    /\ memory_time' = memory_time - 1
    /\ lib_page_delete(ptr[t])
    /\ UNCHANGED <<pages, locked, memory, held, global, raced, call, hit>>

__lib_free_free(t) ==
    /\ Return(t, "free")
    /\ allocated' = allocated \ {ptr[t]}
    /\ UNCHANGED <<tables, info, held, counters, hit>>

lib_free(t) ==
    \/ lib_flag_sub_select(t) \/ lib_flag_sub_flag(t) \/ lib_flag_sub_unlock(t)
    \/ __lib_free_delete(t) \/ __lib_free_free(t)

-----------------------------------------------------------------------------
(* lib_realloc_3 of a block that is never shared: its one caller is        *)
(* dict_hash_rehash, with the table of a hash.  realloc fails, extends the *)
(* block in place, or moves it with its lib_info; a moved block is free    *)
(* before its bit is cleared.                                              *)

Pointers(a) == {r \in Ref : held[r] = a}

lib_realloc_call(t) ==
    /\ Goto(t, "idle", "realloc")
    /\ \E r \in Ref :
        /\ r \in Private /\ held[r] # NULL /\ ~Busy(r)
        /\ ref' = [ref EXCEPT ![t] = r] /\ old' = [old EXCEPT ![t] = held[r]]
    /\ UNCHANGED <<tables, memory, held, counters, ptr, ref2, level, hit>>

lib_realloc_stays(t) ==
    /\ Return(t, "realloc")
    /\ UNCHANGED <<tables, memory, held, counters, hit>>

lib_realloc_moves(t) ==
    /\ Goto(t, "realloc", "delete_old")
    /\ \E a \in Addr \ allocated :
        /\ allocated' = (allocated \ {old[t]}) \cup {a}
        /\ info' = [info EXCEPT ![a] = info[old[t]]]
        /\ ptr' = [ptr EXCEPT ![t] = a]
        /\ held' = [held EXCEPT ![ref[t]] = a]
    /\ hit' = hit \ {old[t]}
    /\ UNCHANGED <<tables, counters, old, ref, ref2, level>>

(* A block that somebody got in the meantime and registered is hit.        *)
Registering(a) == \E u \in Threads : ptr[u] = a /\ pc[u] \in Inserting \cup {"delete_old"}

lib_realloc_delete(t) ==
    /\ Goto(t, "delete_old", "walk")
    /\ lib_page_delete(old[t])
    /\ hit' = IF old[t] \in allocated /\ ~Registering(old[t]) THEN hit \cup {old[t]} ELSE hit
    /\ UNCHANGED <<pages, locked, memory, held, counters, call>>

lib_realloc(t) ==
    \/ lib_realloc_call(t) \/ lib_realloc_stays(t)
    \/ lib_realloc_moves(t) \/ lib_realloc_delete(t)

-----------------------------------------------------------------------------

Step(t) ==
    \/ lib_malloc(t) \/ lib_page_insert(t) \/ lib_free(t) \/ lib_realloc(t)
    \/ lib_flag_add_select(t) \/ lockinfo(t) \/ lib_flag_add_flag(t) \/ unlockinfo(t)

Next == \E t \in Threads : Step(t)

Spec == Init /\ [][Next]_vars

-----------------------------------------------------------------------------
(* Properties                                                              *)

(* A pointer the program has not given up points to memory that is still   *)
(* its own, whatever the other threads share, release or resize; and it is *)
(* recognised by lib_malloc_info, so that lib_free works on it (the tests  *)
(* of lib.c:447): no page of the table is created twice, no bit is lost.   *)
(* Only a realloc beside it takes its bit away (hit).                      *)
HeldUsable ==
    \A r \in Ref : held[r] # NULL =>
        /\ held[r] \in allocated
        /\ held[r] \notin hit /\ ~Busy(r) => lib_page_select(held[r])

(* A block nobody points to is being allocated, being freed, or was hit by *)
(* lib_realloc; no bit is set for memory that is free but while a          *)
(* lib_realloc moves; and the count of live blocks that the TEST build     *)
(* prints is right whenever no call is running, unless the first two calls *)
(* overlapped.  Everything stays in its range.                             *)
NothingLeaks ==
    /\ TypeOK
    /\ \A a \in allocated \ hit : Pointers(a) # {} \/ \E t \in Threads : ptr[t] = a
    /\ \A a \in bits \ allocated : \E t \in Threads : old[t] = a
    /\ (\A t \in Threads : pc[t] = "idle") /\ ~raced => memory_time = Cardinality(allocated)
=============================================================================
