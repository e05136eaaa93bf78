# A TLA+ model of zxlib

zxlib is a C library in one directory: portable primitives (locks, threads,
queues, a thread pool, a managed allocator, lists and hash tables) and, on top
of them, a file transfer stack (sockets, packages with redundancy, transfer
queues, caches, user requests). The modules here model its concurrent and
stateful core from the source; every definition is mapped to its lines in
`PROJECT.json`. The sources are encoded in GBK; quotations below are converted.

## Inventory

| part | state | operations | what makes it correct |
|---|---|---|---|
| `lock.h` | byte locks; `struct rwlock` = disable, rl, wl, rwl, rc, wc | lock (spin; with condition; with timeout), trylock, unlock, rlock, runlock, wlock, wunlock, disable_rwlock | a writer is alone; counters exact; threads get in |
| `thread.c` | the OS threads | create, join, detach, kill, suspend, resume, exit | a kill takes effect only where no lock is held |
| `queue.c` | byte lock, klist, max | queue_init, put, get (blocking or timed), empty, size, destroy | FIFO, bound, a call acts once or not at all |
| `pool.c` | slots of tasks, three queues of task infos, table of pools | start, join, detach, kill, suspend, resume, cancel, task_step, pool_exit, pool_clear, destroy | slots not stolen, exit states kept, infos freed once, a cancel ends the task |
| `dict.c` list | doubly linked list, fast node, rwlock | push, pop, get, set, del, each, slice, attach | an index names the right element |
| `dict.c` hash | buckets of lists, size, rwlock | set, get, del, rehash, each | a key that was set is found |
| `dict.c` JSON | none | load, dump | inverse of each other |
| `lib.c` | multi-level bitmap of live blocks, header with reference count, count of live blocks | malloc, calloc, realloc, free, autofree, flag_add, flag_sub | a block is live while referenced, freed once, recognised while live |
| `limit.c` | ring of counts | init, check, add | no more than the limit over a window |
| `cache.c` | file, state file, dict of open caches | open, update, write, close | a file is published exactly when every block came; survives a restart |
| `fastcache.c` | nodes of slots, dispatcher thread, a thread per node, counts | add, del, write, read, clean | reads see writes; no slot used twice; the counts are those of the slots |
| `unit.c`, `package.c` | a cube of packages, exclusive or in three directions | encode, decode, reset | enough packages restore the rest, never garbage |
| `transqueue.c` | two queues, number of the next package, the unit being received | open, send, recv, monitor, push, pop, close | delivered in order, once, or reported lost |
| `redundancy.c` | marks, counts and five exclusive ors of a unit | encode, decode, reset | a lost package is restored right |
| `analysis.c` | the package being filled, queues by type | pack, unpack, allocate | fields come out as they went in |
| `fileinfo.c`, `filedata.c` | the list of files, the open caches | send, recv, client_recv | each file arrives whole with its own size |
| `user.c` | a dict of users with a queue each | get | one user per name |
| `transfer.c`, `sock.c`, `remote.c` | sockets, libevent, libcurl | open, send, recv, callbacks | |
| `config.c`, `logging.c` | one table, one level | get | |
| others | none | `head.h`, `error.h`, `code.c`, `dir.c`, `file.c`, `tools.c`, `systemcall.c`, `algorithm.c`, `sort.c`, `rpc.c`, `lost.c`, `oj.c`, `test.c` | see "Not modelled" |

They interact by calls and shared memory only. `pool` uses `thread` and
`queue`; `queue` uses the conditional lock and the list of klib; `dict` uses
`rwlock` and `lib`; `transqueue` runs pool threads over queues of packages and
calls `unit`; `cache`, `fastcache` and `user` keep their tables in dicts or
khashes; `filedata` packs with `analysis`, takes the queue of a `user` and writes
through `cache`. What is hard in this code is concurrency (hand-made locks, flags
read without a lock, objects reused by index), the order of two stores, reuse of
freed blocks, and, in the upper half, lost packages and restarts in the middle of
a file.

## Modules

| module | models | composed with |
|---|---|---|
| `RWLock` | rlock, runlock, wlock, wunlock of `lock.h`; `MCRWLock` instances, `RWLockProofs` proofs | |
| `Traversal` | disable_rwlock | extends `RWLock`; checked in `MCPrimitives` |
| `FifoQueue` | abstract: what a blocking bounded queue promises | |
| `Queue` | put and get of `queue.c` on `lock_3` of `lock.h`, with thread_kill; `MCQueue`, `QueueProofs` | refines `FifoQueue` |
| `QueueEmpty` | queue_empty | extends `Queue` |
| `Pool` | `pool.c`, `task_step` of `pool.h`; `MCPool`, `MCPrimitives`, `PoolProofs` | takes `queue.c` as the FIFO it is proved to be |
| `DictListOps` | the list of `dict.c` as a value with its fast node | used by the next three |
| `IndexedList` | abstract: a sequence addressed by index | |
| `DictList` | the list with concurrent readers and a traversal; `MCDictList`, `DictListProofs` | refines `IndexedList`; its write lock is atomic because `RWLock` excludes |
| `DictHash` | the hash table with its rehash node by node; `MCDictHash`, `DictHashProofs` | buckets are lists of `DictListOps` |
| `Lib` | the allocator of `lib.c` with its bitmap; `MCMemory`, `LibProofs` | |
| `FastCache` | `fastcache.c`; `MCMemory`, proofs in `CacheProofs` | |
| `Cache` | `cache.c` with a crash at any step; `MCFiles`, `CacheProofs` | |
| `Unit` | encode and a pass of decode of `unit.c` as functions | used by `TransQueue` |
| `TransQueue` | `transqueue.c` over a channel that loses; `MCTransfer`, `TransQueueProofs` | extends `Unit` |
| `Redundancy` | `redundancy.c`, encoder, channel, decoder; `MCTransfer` | |
| `Limit` | `limit.c` on a clock; `MCTransfer`, `TransQueueProofs` | |
| `Analysis` | packing and unpacking of `analysis.c` as functions | used by `FileData` |
| `FileData` | `fileinfo.c`, `filedata.c`, `user.c` from sender to receiver; `MCFiles`, proofs in `CacheProofs` | packs with `Analysis`, writes as `Cache` does |

`MCPrimitives`, `MCMemory`, `MCTransfer` and `MCFiles` check several components
in one run, side by side: the variable `what` is chosen at the start, the
component it names moves and the others stand still. The state spaces add up
and do not multiply.

A definition whose name extends another one's (`rlock_lock_rl_NoTest`,
`Unlink_FastKept`) is a mutant: the same operation with one plausible mistake.
`PROJECT.json` says which property finds which mutant; no specification uses
them.

### RWLock, Traversal

`disable`, `rl`, `wl`, `rwl`, `rc`, `wc` are the fields of `struct rwlock`, and
`pc` says where each thread is inside the macros. One action is one atomic
access: a compare-and-swap that succeeds, a release, a fetch-and-add, a read of
`disable`. A compare-and-swap that fails and yields is a stuttering step. `rc`
and `wc` wrap at `USHORT`. A reader goes through `rlock_*`, the body
(`"reading"`) and `runlock_*`; a writer through `wlock_*`, `"writing"` and
`wunlock_*`. `Traversal` adds the threads that set `disable` in their body, as
dict_list_each does, which lets every other thread that comes meanwhile pass both
locks without touching them. Each macro reads `disable` for itself, so a thread that
entered while the lock was off may leave when it is on, and unlock what it never
locked. `off` names the threads that are inside without the lock, and `straggled`
records that a traversal ended under one of them.

### Queue, QueueEmpty

`lock` and `list` are those of the struct; per thread, `pc` is the place in
`lock_3` and in the body, `timed` whether the call has a timeout, `data` the
value it puts or got, `ret` the last result, and `cancel` whether a
pthread_cancel is pending, which acts only at the pthread_testcancel at the top
of the loop. Time is not modelled: a timed call may expire whenever it
waits. `queue_empty` calls the lock with timeout 0 and ignores the result, so on a
timeout it goes to its body as well.

`FifoQueue` says what a caller sees: a call starts, takes effect in one
step or fails without effect, and returns. `ImplementsFifo` maps `idle`,
`unlock` and `dead` to `idle`, `done` and `dead`, and everything between to
`pending`.

### Pool

`slot` is `p->t`, an array that is reused; `task` in it stands for the thread
and the info pointer. `info` is the state word of each task_info, `"freed"`
after lib_free. The controller (`mpc`, `cur`, `src`) runs one call after the
other: pool_start in five stores with pool_clear at its end, pool_join,
pool_detach and pool_kill over all slots, task_suspend, task_resume,
task_cancel, pool_destroy. Each task (`w`) loops in task_step, calls pool_exit
(find, state, quit, then the slot if it is detached), returns, or is killed, and all of this
from thread_create on: nothing at pool.c:80 makes it wait until pool_start has filled its slot.
`code` is what it passed to pool_exit, `killed` the tasks with a pending pthread_cancel; `reaped`, `asked`, `late`, `prev`, `misled` and `hasty`
are history and no action reads them. `misled` are the tasks that tested the cancel flag before
pool_start reset it, `prev` the last task of the slot each one got, `hasty` the tasks whose
pool_exit came before pool_start was over. A pool with detached slots is not joined: pthread_join of a
detached thread is undefined and no caller does it. The queues of infos are
sequences: that queue_put and queue_get of `queue.c` are atomic is what
`ImplementsFifo` shows.

### DictListOps, DictList, IndexedList

A list is a record: `nodes`, the order that the pointers spell, and `fast` and
`num`, the node that was found last with its index. `Found` is
dict_list_get_node with its three starting points (the head or tail, the fast node
itself, the neighbour of the fast node); if the fast node is not linked any
more the walk may end anywhere. `Pushed`, `Popped` and `Deleted` are the
results of the static functions with their boundary cases: past the end,
before the front, negative. In `DictList` a reader finds and remembers in two
steps, since several readers hold the read lock at once and only the store into
`fast` is under `fast.lock`; writers are single steps with no reader inside,
which is what the theorem `WriterExcludes` provides. A traversal holds the next
node while its callback gets or sets at the index it was given. While it runs
other threads are taken to stay away: the code needs that and does not enforce it,
as `disable_rwlock` shows in `Traversal`.

`IndexedList` has no fast node and no readers: push, pop, del, get and set act
on a sequence, at a position that a negative index counts from the end. The refinement
maps `items` to `list.nodes` and `ret` to itself.

### DictHash

`table` is the array of bucket lists that were made, `data` the value in each
key's node, `max` and `size` those of the struct. Set appends to the bucket of
`Hash[k] % max`; when the count crosses the code's condition the array
doubles and dict_hash_rehash walks it, one node per step (`walk`): it pops the
node by the number of nodes walked and appends it to its new bucket.
`map` is the history of the calls, and `crowded` records that a rehash met
a bucket with three nodes or with a fast node.

### Lib

`pages` are the tables of the bitmap that exist, `bits` the blocks whose bit is
set, `allocated` what the C library has handed out, `info` the header of every
block: its byte lock and its count of references, a char. A `Ref` is a pointer
variable of the program, and `held` says which block it points to. Each call is cut
where another thread can come between: the two steps of the creation of the
TEST counters, the walk of lib_page_insert down the levels with a page locked,
made and unlocked, the lookup of lib_flag_add or lib_free before the header is
locked, the count under its lock, the deletion of the bit before the free of the
block. malloc and realloc of the C library are atomic and may return any block
that is not allocated, the one that was just freed included.

Two history variables name two races that the code has. lib_realloc frees the
old block before it deletes its bit (lib.c:255), so a block that another thread
gets and registers between the two loses its bit: it joins `hit`. Two first
calls that overlap may create the counters twice (lib.c:186): `raced`. Blocks
that are resized are not shared (`Private`): realloc of a shared block would copy
a header whose lock may be taken, and its only caller (dict_hash_rehash) does
not share it.

### FastCache

Writers test and count `fc->num` and put into the queue; the dispatcher takes a
packet, chooses the node, counts it there and hands it on; the thread of a node
looks for a free slot, seeks, stores data and index and enters the slot in
`fn->hash`; one client finds an index, seeks and reads, or cleans (only the test of
`fastcache.c` calls them, from one thread). Each of these is a step. The position of a node's file is one per file and used by its thread and
by the client: `crossed` records that one of them moved it between the seek and
the access of the other (fastcache.c:284 and 394). A `Restart` is the end of the
process and a new fastcache_init over the same files: slots of files are counted
from their index, memory is empty.

### Cache

One file of `blocknum` blocks: the cache file, the state file with its header and
one sign per block, and the finished file are on the disk and survive; the client
(`cc`) does not. `Crash` may come at every step. cache_client_open is cut at each
write: the state file is created, its header is written, then its signs.
`torn` records a crash inside that creation: a header that is not complete is then
read as that of a file without blocks (the block read at cache.c:100-104 is
not initialised; the model takes 0), and a second crash may leave the signs of an
earlier file beside an empty cache.

### Unit, TransQueue

What a package holds is the set of data packages it is the exclusive or of:
`XorOf` keeps what is in an odd number of packages. `Cell` is where a number lies in
the cube, by the divisions of transqueue_send for data and by the order of its
loop for code packages. `unit_encode` fills the last plane of the cube in three
directions in the code's order. `Round` is one pass of the loop of unit_decode, a
sweep in each direction over the lines that lack one package; the passes are
steps of the receiver (`transqueue_recv_round`), and the loop ends with a pass
that restores nothing. The sender numbers packages and appends the code
packages; the monitor decides without the lock, at any moment at which it reads a number
that is not 0, that a unit needs padding; the
channel keeps order and loses packages during an `Outage`; the receiver follows
the code's cases: the package in order, the first after a gap, the collection of the
rest of the unit until it ends or times out, the decoding.

### Redundancy

The encoder sends eleven data and five code packages a unit; the channel loses up to
`MaxLost`; `redundancy_decode` marks, resets, counts and xors in the code's order and
then restores what the groups single out. A package in `list` has the two fields
`i` of its code as they are stored: one that was sent has its number in `i[0]`, one that
was restored has 0 there and its number in `i[1]` (redundancy.c:250), and
redundancy_decode returns all whose `i[0]` is that of a data package. `clean` records
whether the exclusive ors were empty when the unit began.

### Limit

A clock, the ring of counts with its index, and a caller that checks, and adds or does not:
the dispatcher of `fastcache.c` checks every node and adds to the chosen one only.
`slow` records that checks came so late that the ring lags; `forgotten` is the count
when the ring last came round with nothing in its last slot and took itself for a new one.
`LimitAssumption` wants `duration` to be a multiple of `interval`, as it is for the only
caller (fastcache.c:114).

### Analysis, FileData

`Analysis` has the package as its list of fields, each cut where it does not fit,
with `offset_len` and `remain_len`. In `FileData` two tasks of the sender (the
list of files and the files themselves) pack into one queue from which packages may
be lost; the server sorts them by type into two queues, and a thread for each hands
them to the queue of the user, found or made by user_get in two steps; the receiver
unpacks the list and writes each block through the cache, which publishes the file.
The tasks are wired to their queues by type, as the tests of filedata do: the server sorts
with analysis_allocate; the receiver has no code that looks at the type, and the model hands each of
its two functions the packages of its own type.
`twice` records that both threads made the user.

## What is checked

| run | instance | shows |
|---|---|---|
| `rwlock_mixed` | 3 readers, 3 writers, `USHORT` 2^16 | `MutualExclusion`, `CountsExact`, `StuckOnlyByOverlap`, `SomeoneEnters` |
| `queue_fifo` | 2 putters of which one is killable, a getter, capacity 2, 2 values | `QueueInv` (with `Exclusive` and `Capacity`), `LockNeverOrphaned`, `ImplementsFifo` |
| `pool_control` | 2 tasks on one slot after each other, every call | `ExitStateKept`, `CancelWasAsked`, `CancelEnds` |
| `primitives` | 3 starts on 2 slots, joined and cancelled; 2 starts, detached or killed; 2 readers, a writer and 2 traversers, until a straggler | `SlotNotStolen`, `InfosConserved`, `FreedStaysFreed`; `OnlyStragglersBreak`; `TypeOK` |
| `dictlist_index` | 3 nodes, 2 readers, indexes from -4 to 3, a traversal | `ListInv` (with `FastNodeExact` and that readers find the node of their index), `ImplementsIndexedList` |
| `dicthash` | 6 keys on 8 buckets, one doubling, deletions | `LookupFinds`, `IndexFindsKey`, `LinkedOnce`, `TypeOK` |
| `memory` | 2 threads, 3 blocks on 2 leaf pages, 3 pointers of which one private, `CharMax` 3; 2 packets, 2 writers, a memory node of one slot, a file node of two, restarts | `HeldUsable`, `NothingLeaks`; `ReadsRight`, `SlotForEach`, `CountsRight` |
| `files` | a file of 3 blocks, crashes; a directory of 2 files, names of 1 or 2 bytes, sizes 3 or 4, packages of 11 bytes, one lost | `PublishedComplete`, `NothingLost`; `ListRight`, `DoneWhole`, `ReachesUser`; `TypesOK` |
| `transfer` | 2 units of 27 packages, 29 sent, 2 outages or paddings; 2 units of 16 with 3 lost, and one with any number lost; 16 units of time, 6 packages, a ring of 3 slots of 3 units | `DecodeSound` (with `CodeSound`), `Delivered`, `FewRestored`; `RedundancyRight`; `SpeedKept`, `RefusedWhenFast`; `TypesOK` |
| `queue_empty_excl` | putter, getter, queue_empty | violates `Exclusive` |
| `dictlist_head_pop` | a reader and pops of the head | violates `FastNodeExact` |
| `dicthash_triple` | 5 keys, three in one bucket | violates `KeysFound` |

The three violations are disagreements of the code with its own comments or
tests; see below.

### Why these bounds

* `rwlock_mixed`: first, middle and last reader or writer are different
  threads only with three of each; the theorems cover the rest. In
  `primitives` one traverser can end under the other or under a reader that came while it
  ran; what the counters do after such an end is not followed, since nothing holds then.
* `queue_fifo`: a queue of two has an empty, a middle and a full state, two
  putters race for the last place, two values tell an order apart. `Bound`
  limits an unlimited queue only, in the guard of queue_put_call.
* Pools: `MaxStarts` is 3 where slots are reused (two slots, so one is
  reused while the other is in use) and 2 where the properties are about one
  task and its successor in the slot. `TASKINFO_MAX` is 1024 in the code and 0 or 1
  here, so that pool_clear moves and frees infos from the second or third start on.
* `dictlist_index`: with three nodes there is a node that is neither head, tail nor
  fast; the indexes hit both ends, one past them and the middle from both sides.
* `dicthash`: `Max = 8` is the smallest size for which the code does not divide
  by zero; the fifth key doubles it. The hash puts three keys into a
  bucket that splits two to one, two into a bucket that splits evenly.
* `memory`: two blocks share a leaf page and one has its own, so pages are
  made once by either thread and shared or not; three pointers let a count reach two while a third
  block is resized. `CharMax = 3` is the least that they cannot overflow. The node
  of one slot fills at once, that of two has a slot in the middle of its index.
* `files`: of three blocks the last is none of first and middle. Sizes of 3 and 4
  bytes with the room that a package of 11 leaves give blocks that end in, before
  and after the end of a package and a size that is a multiple of the block.
  The longest name (2) leaves room for a block, as `Room` in the proofs asks.
* `transfer`: cubes of 3 instead of 8 packages a side have all the lines, planes and
  corners of the larger ones; 29 packages reach the second one of the second unit,
  which is what the receiver's cases depend on. Two units of `Redundancy` show
  what one leaves behind for the next; one unit, with all of its 2^16 losses, that
  nothing wrong is ever restored. The ring of `Limit` has three counts
  and comes round, filled and not; a package takes more than an interval,
  so that the bounds of `SpeedKept` are reached: with one package less TLC refutes either.

Deadlock checking is off where the system may stop: in `rwlock_mixed` the lock
does (`StuckOnlyByOverlap` says when), in `pool_control` and `transfer` the bounds on
starts, packages and time end the run. In `primitives`, and in `files` for the
directory, an explicit step `MayStop` says the same of the parts that end. Everywhere
else it is on.

### Fairness

`RWLock!FairSpec` schedules each thread that can move. It promises no thread
the byte lock it spins for, since lock(l) has no order; so the
liveness property is that somebody enters again and again, not that everybody
does. `Pool!FairSpec` says that tasks run and that the controller finishes a
call it began; nobody has to start, cancel or resume anything. A suspended
task spins without end, so `CancelEnds` asks only for tasks that are not suspended
again after their cancel.

## What is proved

All with TLAPS, for every value of the constants that the modules' named
assumptions and the third column allow.

| theorem | statement | besides the module's assumptions |
|---|---|---|
| `RWLockProofs!LockInvariance`, `WriterExcludes`, `CountersExact` | `Spec => []LockInv`, `[]MutualExclusion`, `[]CountsExact` | none: `Spec` is without disable_rwlock |
| `RWLockProofs!OnlyOverlapStops` | `Spec => []StuckOnlyByOverlap` | there is a thread |
| `QueueProofs!QueueInvariance`, `QueueSafety` | `Spec => []QueueInv`, `[](Exclusive /\ Capacity)` | nobody calls queue_empty |
| `QueueProofs!QueueImplementsFifo` | `Spec => ImplementsFifo` | nobody calls queue_empty |
| `QueueProofs!QueueLockHeld` | `EmptySpec => []LockNeverOrphaned` | none: queue_empty and kills anywhere |
| `PoolProofs!PoolSlotsKept` | `Spec => []SlotNotStolen` | none |
| `PoolProofs!PoolTypes` | `Spec => []TypeOK` | none |
| `PoolProofs!PoolCancelsAsked`, `PoolExitStates` | `Spec => []CancelWasAsked`, `[]ExitStateKept` | none |
| `PoolProofs!PoolFreedStays`, `PoolInfosConserved` | `Spec => FreedStaysFreed`, `[]InfosConserved` | no task_suspend or task_resume |
| `DictListProofs!ListInvariance`, `ListSafety` | `Spec => []ListInv`, `[](FastNodeExact /\ ReadsRight)` | nobody pops the head |
| `DictListProofs!ListImplementsIndexed` | `Spec => ImplementsIndexedList` | nobody pops the head; callers use any integer |
| `DictHashProofs!HashInvariance`, `HashTypes` | `Spec => []HashInv`, `[]TypeOK` | none |
| `DictHashProofs!HashLookupFinds`, `HashIndexFindsKey`, `HashLinkedOnce` | `Spec => []LookupFinds`, `[]IndexFindsKey`, `[]LinkedOnce` | none |
| `LibProofs!LibInvariance`, `LibHeldUsable`, `LibNothingLeaks` | `Spec => []LibInv`, `[]HeldUsable`, `[]NothingLeaks` | no more pointers than a char counts |
| `CacheProofs!FastCacheInvariance`, `FastCacheSlots`, `FastCacheReads` (on `F`, an instance of `FastCache`) | `Spec => []FCInv`, `[]SlotForEach`, `[]ReadsRight` | none; the module has one client |
| `CacheProofs!CacheInvariance`, `CachePublishes`, `CacheSigns`, `CacheLosesNothing` | `Spec => []CacheInv`, `[]PublishedComplete`, `[]SignsTrue`, `[]NothingLost` | none |
| `CacheProofs!DirReachesUser`, `DirDoneWhole`, `DirListRight` (on `D`, an instance of `FileData`) | `Spec => []ReachesUser`, `[]DoneWhole`, `[]ListRight` | `Room`: a block has at least one byte beside the longest name |
| `TransQueueProofs!CodeSoundness`, `FewAreRestored` | `Spec => []CodeSound`, `Spec => FewRestored` | none |
| `TransQueueProofs!TransQueueInvariance`, `DecodeSoundness`, `DeliveryInOrder` | `Spec => []TransQueueInv`, `[]DecodeSound`, `[]Delivered` | none |
| `TransQueueProofs!LimitInvariance`, `LimitRefuses`, `LimitKept` (on `L`, an instance of `Limit`) | `Spec => []LimitInv`, `RefusedWhenFast`, `[]SpeedKept` | none |

The assumptions are exactly where the code breaks the property: queue_empty ignores
its timeout; task_suspend and task_resume store into an info whatever
became of its task; the head pop forgets the fast node; lib_flag_add does not test
whether the char wraps; filedata_client_send takes
what a name leaves of a package, less the eight bytes of a field's head, for the size of a block and does not test that
there is anything left (filedata.c:34). Numbers of threads, slots, starts, values, nodes, indexes, blocks,
pointers, pages, packets, restarts, units and outages, files, the lengths of names, files and packages, what is lost and what waits, the side of the cube, and the limit, sizes and times of `Limit`
are arbitrary; the threads of the lock
are fewer than the counters can count. TLC checks the same properties under the
bounds above with the same definitions, and each inductive invariant was checked before it
was proved.

*Lock.* Exclusion is not inductive: it says nothing about who may release what.
`LockInv` names the owner of each byte lock at each place of the macros. `wl`
has one holder; `rl` belongs to one reader in the middle of rlock or runlock, or to the writers
from the first one's acquisition to the last one's release; `rwl` belongs to one writer or
to the readers from first to last. `CountsExact` and
`FirstLastInv` carry the counters: a thread that decided to be the first or the last
still is when it acts, since it decided under the lock that guards the counter.
Cardinalities change by one per step, by the theorems on finite sets.
`OnlyOverlapStops` needs the converse (`OwnersInv`): a byte lock that is taken has
an owner. Whoever waits, waits for an owner; following the owners ends at a thread that
can move, but for the one circle of a reader that leaves and a writer that owns `rl`.

*Queue.* Exclusion and capacity need that a condition tested under the lock
still holds at the push or pop, that is `QueueInv`'s conjunct on `Cond`. With it each
step of the code is a step of `FifoQueue` or a stutter: push is Put, pop is
Get, unlock is Return, the timeout is Fail, the death at the loop top is Die. With
queue_empty exclusion goes; that a taken lock still has somebody who will release it
(`HolderInv`) does not.

*Pool.* `PoolType` and `SlotInv` say which task a slot belongs to at each place of
each call of the controller: the flags of a slot are those of its task until its
thread is gone. Everything else is built on them. `CancelInv` relates `asked`, the
cancel flag and what the task read of it, which may be the flag of the slot's last task
as long as pool_start has not reset it. `ExitInv` follows the code from the
call of pool_exit through the state of its info to the join, and for an early task through
the two stores of pool_start that overwrite it. `FreedInv` says that
no call of the controller or task in the middle of pool_exit holds an info that was
freed. `InfosInv` places every info of a started task: in its slot, between slot
and queue, in the queue, or between queue and free, and in one place only; the
queues hold no info twice. `InfoTypes` is what `TypeOK` has beyond the slots: a task in
pool_exit carries a final state, so nothing else is stored.

*List.* `ListInv` adds to the exactness of the fast node that nodes are
distinct and that an index a reader has looked up stays in range
until it is stored. The lemmas come first: on such a list `Found` is the node of the
index (`FoundExact`), an insertion or removal is one of sequences
(`PushedOK`, `PoppedOK`, `DeletedOK`) and moves `num` with the node. The
refinement then shows that both index conventions, the code's counted from 0
with its cases and the abstract one counted from 1, name the same place.

*Hash table.* `HashInv` has two parts. `TableInv` holds always: buckets are
lists, the walk of a rehash stays within the array, and `size` is the number of places in the
buckets, so that a deletion never takes it below zero. `Clean` holds until a rehash meets a
crowded bucket: a linked key is in the bucket of its hash or the walk has still to
decide about it (`Homes`, `Waiting`), the fast nodes are exact (`Exact`), no key is linked twice
(`Exact`, `Apart`), what is linked is what was set (`Kept`), and the walk stands on the first
node of its bucket or on the last one (`Walking`). The steps rest on lemmas about the list: the pop
of the rehash takes the node the walk stands on (`PoppedSmall`), the
deletion takes the key's own and leaves the fast node exact (`DeletedRight`); and on one about
numbers: a hash modulo the doubled size is the old bucket or the one half the
table further (`SplitBucket`), so that no key is moved into a bucket still to be walked in the old half.

*Allocator.* That a pointer is usable depends on every other thread not being
somewhere with the same block. `LibInv` therefore says, per thread, what it holds at each place
of its call (`LocalInv`), that a block nobody points to has one owner (`AloneInv`), that what a pointer
points to is allocated and owned by no call that frees it (`HeldInv`), that
every page above a bit exists and a locked page has one locker (`TableInv`), which
blocks have their bit (`BitInv`), that the count of a block is the number of its
pointers, with the call that is about to count added or subtracted, while its bit
is set (`FlagInv`), which block is not lost and who holds it (`LeakInv`), and what the count of live blocks is in
the middle of calls (`CountInv`). The interesting step is the last lib_flag_sub against a
lib_flag_add of the same block: the count is exact when the lock of the block is held, so the
thread that frees is the only one left.

*Fast cache.* The counts are the heart: `NodeCounts` says that `fn->count` is the
signed slots, the packets dealt to the node and the one in the hand of its
thread; as the dispatcher never lets it pass the number of slots, the thread finds one.
`IndexInv` ties `fn->hash` and the index of the slots together, and `DataInv`, outside
`crossed`, the index and the data. The sum in `CountsRight` over all nodes is left to
TLC.

*File cache.* `CacheInv` says at each place of the process what is in memory and on the disk
(`Shape`), and outside `torn` that the state file is whole once its header is (`StateComplete`),
that the block in hand is in the file before its sign is set (`InHand`), that the
signs name blocks that are there (`SignsBody`) and that every block whose write
returned is signed or the file is finished (`Received`). Crashes keep it because
each write leaves the disk in a state from which cache_client_open resumes.

*Directory.* The properties are about what the receiver has, and rest on what the sender
put three queues earlier. `DirInv` describes every package from the moment it is put: one of a
file's (`DataOK`) is the names, the name and size of that file and perhaps one block of it, its `id` the number of that
block; one of the list (`InfoOK`) is the names, the number of files and names with their sizes in
pairs. `DirData` and `InfoInv` say the same of the package a task is filling, with the room that is left: the
next field opens a new package exactly when the code means it to, because a block takes all
the room beside its prefix and fileinfo_client_send asks for a new package unless the name *and* the size fit.
`TransitOf(Good)` carries this through queues and hands, which change no package. `ReachesUser` needs only
`UserInv`: a user that a thread is about to make is not yet anybody's, so no queue but that of the user in `d` can
hold anything before both threads made one. For `DoneWhole`, `WholeInv` says that
an open cache counts the different blocks it has, each in its place; all of them are as many as `Blocknum`
says (`BlocksFacts`), so a cache with that many is whole, in whatever order they came.
`ListRight` is about order: `Flow` says that the list, the queue of the user, the hand of the server's thread,
the sorted queue and the way hold consecutive ranges of the files (`Stage`), in order
and without overlap, up to the first file that was not put yet (`Base`); and while nothing was lost and no
user replaced, that they hold all of these files. A step takes the head of one range and
appends it to the next. At the end all ranges but the list are empty, and
a list of distinct files that has them all has `Number` entries (`ListFull`).

*Transfer queue.* The proof has three parts. The first is arithmetic: a number
and its cell determine each other (`Digits`, `DigitsUnique`, then the three kinds of
code package), so that every line has one package at every index. The second is about
`unit.c`. Each package, in whichever loop unit_encode makes it, ends up as the
exclusive or of the data in the corner it closes (`Support`); therefore each datum is in
an even number of the packages of a line, those of code packages included, and the
line cancels out: this is what lets a code package be restored from a line that another loop
filled. Where a pass of unit_decode restores nothing, no line has exactly one missing
package; from one missing package a second one follows in its row, then a second row and a second
plane: eight, so fewer are all restored. The third is the protocol. `Delivered` is not
inductive: that packages come in order rests on their order in the queue and in the receiver's
hand (`OrderInv`), that none is passed on twice on where the receiver stands
(`PastInv`: whatever was passed on or reported comes before `<<id_new, number_old>>`, but for a unit
whose collection timed out, and before all that is still to come), and that restored packages are
those of the unit on `tq->u` holding packages of `id_new` only (`UnitInv`) when a pass
is taken. `KnownInv` says that what it holds is made of data that was sent, so a
restored package cannot be padding that was sent later.

*Speed limit.* `LimitInv` counts how often the ring moved: `time_point` is that many
intervals, a slot filled so many moves ago (`Age`) holds at least what had gone out when
its interval ended, and the others hold 0 (`RingAt`). So the slot a refused caller is
compared with stands for a stretch that ends now and is as long as the check says. That
the limit is kept needs an upper bound on the slots as well, and it does not hold after a
late check. `slow` counts what is still wrong: `CleanInv` bounds the slots filled since then, by
one package too many; `CheckedInv` keeps what the last check in time knew until the caller
uses it; `StretchInv` carries the bound to all stretches that began since then. Checks that
nobody sends after turn the ring as well, and the test for a full ring (limit.c:58) is then wrong once.
`FilledInv` says what slot 0 is while that test fails: what was sent when the ring last came round. And
`ForgottenInv` bounds that: the last slot is 0 only if nothing had been sent when its interval began, so all that
can be forgotten was sent within that one interval, which the checks compared with slot 0, then still 0.

### Only model-checked

* Liveness (`SomeoneEnters`, `CancelEnds`): the prover has no rules for fairness.
* The sum of `CountsRight`: the library has no theorems on folds over sets that could be used here,
  and an induction over the nodes is out of the prover's reach.
* `RedundancyRight`: a code package that was restored and arrives after all enters the sum of its group
  twice (redundancy.c:424), so no invariant says that the sums are right. That a wrong sum restores nothing before the unit
  is complete depends on the table of groups as it stands in the code, which evaluation settles:
  TLC goes through every loss of a unit that begins with empty sums, and no other unit takes part in what such a unit returns.
* The types of what one run composes (`TypesOK` of `MCFiles` and `MCTransfer`): what of them the proofs need
  is part of their invariants (`SenderType`, `TransitOf`, `Field`, `Package`).

## What the code does that its comments and tests do not say

Three disagreements have a run each.

* `queue_empty_excl`: queue_empty (queue.c:53) ignores that its timed lock
  failed, reads the list beside the holder and then releases the holder's lock.
* `dictlist_head_pop`: a pop of the head (dict.c:226) leaves the fast node
  alone, against the comment at dict.c:324.
* `dicthash_triple`: dict_hash_rehash (dict.c:628) pops by an index that its
  own pops have shifted; a key of a bucket of three lands in the wrong bucket
  and is not found.

Others shape the models, and the properties are stated around them.

* Lock: a reader needs `rl` to leave and a writer that owns `rl` waits for the
  reader's `rwl`: they wait for ever (lock.h:129). `StuckOnlyByOverlap` and
  `SomeoneEnters` say that nothing else stops the lock. disable_rwlock (lock.h:182)
  is for the traversal's own callback but lets every thread pass, and a thread that came while
  it was set unlocks what it never locked when it is over: `OnlyStragglersBreak` says that up to then
  those who locked still exclude each other and are counted exactly.
* Pool: pool_start sets the flags and the state after the thread has
  started (pool.c:80 to 92). A thread quick enough to end first loses its
  exit state, and it may see the cancel flag of the slot's last task:
  `ExitStateKept` and `CancelWasAsked` say what such a thread may lose or take over
  (RUNNING or SUCCESS for its state; the cancel of that last task only), and that
  nothing else does. task_suspend and task_resume overwrite the state of a task that
  has ended (pool.c:255): `late` excludes those tasks. A task that ends just before
  pool_detach is called never gives its slot back (pool.c:159).
* List and hash: a callback of dict_list_each that deletes its own index frees the
  node the traversal goes to next (dict.c:414). A rehash of a bucket with a fast
  node pops through a stale index: `crowded` excludes it. dict_hash_get reads the
  value after it has released the read lock; the model reads under it.
* Allocator: lib_realloc loses the bit of another thread's new block (lib.c:255,
  `hit`); overlapping first calls miscount (lib.c:186, `raced`); more than 127
  references wrap the count.
* Fast cache: the packet index 0 looks like a free slot; an index that is written twice
  orphans a slot; the clients share a file position with the node's thread (`crossed`);
  after a restart the index of a file is counted, but `fn->hash` is not rebuilt, so its packets fill
  slots and are not found (fastcache.h:19). `fc->num` counts waiting packets too. Two clients that
  clean one index both count it off (fastcache.c:422-430), so that the node is dealt a packet
  for which its thread never finds a slot; and one may clean the slot between the hash_get and the
  read of the other (fastcache.c:386-399). The model has one client.
* File cache: a crash in the creation of the state file leaves one that says "no
  blocks", and two crashes can make old signs valid for an empty cache, which the
  comment at cache.c:80 wants to exclude (`torn`).
* Transfer queue: packages can be lost without being reported when the first unit is lost
  entirely, when package 0 of a unit is lost at the boundary (transqueue.c:235) or right
  after a gap (transqueue.c:286). Packages that come after the collection of their unit timed out are
  passed on twice (`late`). Padding may become package 0 of the next unit, because the
  monitor tests the number outside the lock, and reaches the application after a gap.
* Redundancy: redundancy_decode marks a package before it resets for a new unit
  (redundancy.c:461 and 420), so the first package of each unit counts as lost and may be
  "restored" as nothing; a lone loss of package 0 is not made up for, nor are 28 of the 120 double
  losses, though redundancy.h:39 promises three. The exclusive ors are never emptied. A restored
  package is returned with 0 in `code.i[0]`, where redundancy_decode looks for its place, and
  the place in `code.i[1]` (redundancy.c:250-251, 453); so restored code packages are returned
  as data as well. `RedundancyRight` is about what packages hold under the number the decoder found.
* Limit: after a pause the ring advances one interval per call, so a burst passes
  (limit.c:45-55, `slow`). Even when calls keep up, two packages more than the limit may go
  out: one after a check that found just nothing to complain about, one in an interval that
  ended before a check noticed. A ring that idle checks have turned to its last slot before
  anything was sent takes itself for a new one when it comes round, whatever was sent in that
  slot's interval, and forgets it: up to as much again goes out (`forgotten`).
* Files: the feof loop sends one block too many for a file whose size is a multiple of
  the block; the extra block may open an empty cache and rename it over the finished file (`DoneWhole`
  excludes these sizes). The two server threads can make one user twice and lose
  packages in the queue of the first (user.c:10-20, `twice`).

## Not modelled

Of modelled parts: `queue_size` and `queue_destroy`; the calls of pool_func with one
handle, signals and progress text of the pool; slices, ranged traversals and attach of the
list; several files, and offsets beyond an int (cache.c:121), of the cache;
fastcache_add and fastcache_del beside running calls (a node is listed before
its hash exists, fastcache.c:138 and 153), several clients, and reads while a khash grows; reordered or
doubled datagrams, and transqueue_close; redundancy2 and redundancy_multi, which
only tests call; the static `id` of analysis.c (read unlocked), and packages that are unpacked in parts.

Of `dict.c` and seen while reading: `__dict_list_each_5` (dict.c:456) walks past the end
for steps larger than one; dict_list_attach shares dicts without lib_flag_add (dict.c:514)
and takes two locks in argument order (dict.c:519).

Not at all: the JSON reader and writer (grammar and text); `sock.c`, `remote.c`,
`transfer.c`, `dir.c`, `file.c`, `systemcall.c`, `tools.c` (operating system or library
calls without own state); `code.c` (5800 lines, almost all of them conversion tables);
`oj.c` (5200 lines of programming exercises, linked to nothing); `algorithm.c` and `sort.c`
(textbook functions that only tests call); `config.c` and `logging.c` (text); vendored klib,
libevent and libcurl. These files make up most of the lines, so the models map about
6% of all lines of the repository while they cover its stateful core.

## Plan

1. A composition of the traversal's lock with the list; two lists with their
   locks (dict_list_attach); the pool with several controllers.
