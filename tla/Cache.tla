------------------------------- MODULE Cache ---------------------------------
(***************************************************************************)
(* The receiver's cache of a file that arrives in blocks (cache.c, called  *)
(* by filedata_client_recv): blocks come in any order and any number of    *)
(* times; their data goes to <name>.__cache__, one sign per block to       *)
(* <name>.__state__, and the last block renames the cache to <name>.  The  *)
(* process may end at any point and start again with what is on the disk.  *)
(* A file_write is atomic and survives the process.                        *)
(***************************************************************************)
EXTENDS Integers, FiniteSets

CONSTANTS blocknum,     \* blocks of the file
          NULL          \* no such file, no open client

Blocks == 0..(blocknum - 1)

(* The state file starts with filesize, blocksize and blocknum.            *)
HEADER == 3
Full == HEADER + blocknum

Contents == [Blocks -> BOOLEAN]

StateFile == [header: 0..HEADER, len: 0..Full, sign: Contents]

Client == [header: 0..HEADER, num: 0..blocknum]

CacheAssumption ==
    /\ blocknum \in Nat \ {0}
    /\ NULL \notin Contents \cup StateFile \cup Client

VARIABLES cachefile,    \* for each block whether its data is there, or NULL
          statefile,    \* [header: fields written, len, sign], or NULL
          file,         \* the finished file, or NULL
          cc,           \* the client in d, [header, num], or NULL
          pc, id,       \* what the process does, for which block
          got,          \* history: blocks whose cache_client_write returned
                        \* since the file was last finished
          torn          \* history: the process ended inside the creation of a
                        \* state file, or before an old one was emptied

disk == <<cachefile, statefile, file>>
vars == <<disk, cc, pc, id, got, torn>>

None == [b \in Blocks |-> FALSE]

TypeOK ==
    /\ cachefile \in Contents \cup {NULL}
    /\ statefile \in StateFile \cup {NULL}
    /\ file \in Contents \cup {NULL}
    /\ cc \in Client \cup {NULL}
    /\ pc \in {"idle", "open", "create_state", "header", "blocks", "write", "update",
               "test", "rename", "remove"}
    /\ id \in Blocks /\ got \subseteq Blocks /\ torn \in BOOLEAN

Init ==
    /\ cachefile = NULL /\ statefile = NULL /\ file = NULL /\ cc = NULL
    /\ pc = "idle" /\ id = 0 /\ got = {} /\ torn = FALSE

Goto(from, to) == pc = from /\ pc' = to

Signed(state) == {b \in Blocks : state.sign[b]}

-----------------------------------------------------------------------------
(* cache_client_init: the client of the file, opened when there is none.   *)

cache_client_init(b) ==
    /\ Goto("idle", IF cc = NULL THEN "open" ELSE "write")
    /\ id' = b
    /\ UNCHANGED <<disk, cc, got, torn>>

(* Mutant: the signs are not counted again.                                *)
cache_client_open_read_Zero ==
    /\ Goto("open", "write")
    /\ cachefile # NULL /\ statefile # NULL
    /\ cc' = [header |-> statefile.header, num |-> 0]
    /\ UNCHANGED <<disk, id, got, torn>>

(* Both files are there: what the state file does not hold is read as 0.   *)
cache_client_open_read ==
    /\ Goto("open", "write")
    /\ cachefile # NULL /\ statefile # NULL
    /\ cc' = [header |-> statefile.header,
              num |-> IF statefile.header = HEADER THEN Cardinality(Signed(statefile)) ELSE 0]
    /\ UNCHANGED <<disk, id, got, torn>>

(* Otherwise the cache is created, or kept if it is there.                 *)
cache_client_open_cache ==
    /\ Goto("open", "create_state")
    /\ cachefile = NULL \/ statefile = NULL
    /\ cachefile' = IF cachefile = NULL THEN None ELSE cachefile
    /\ UNCHANGED <<statefile, file, cc, id, got, torn>>

cache_client_open_state ==
    /\ Goto("create_state", "header")
    /\ statefile' = [header |-> 0, len |-> 0, sign |-> None]
    /\ UNCHANGED <<cachefile, file, cc, id, got, torn>>

cache_client_open_header ==
    /\ Goto("header", IF statefile.header = HEADER - 1 THEN "blocks" ELSE "header")
    /\ statefile' = [statefile EXCEPT !.header = @ + 1, !.len = @ + 1]
    /\ UNCHANGED <<cachefile, file, cc, id, got, torn>>

cache_client_open_blocks ==
    /\ Goto("blocks", "write")
    /\ statefile' = [statefile EXCEPT !.len = Full]
    /\ cc' = [header |-> HEADER, num |-> 0]
    /\ UNCHANGED <<cachefile, file, id, got, torn>>

cache_client_open ==
    \/ cache_client_open_read \/ cache_client_open_cache \/ cache_client_open_state
    \/ cache_client_open_header \/ cache_client_open_blocks

-----------------------------------------------------------------------------
(* cache_client_write: without a blocksize nothing is written.             *)

cache_client_write ==
    /\ Goto("write", "update")
    /\ cachefile' = IF cc.header >= 2 THEN [cachefile EXCEPT ![id] = TRUE] ELSE cachefile
    /\ UNCHANGED <<statefile, file, cc, id, got, torn>>

(* The sign read back from the state file; behind its end nothing is read  *)
(* and `block' is what the stack held.                                     *)
Read == IF HEADER + id < statefile.len THEN {statefile.sign[id]} ELSE BOOLEAN

Larger(a, b) == IF a > b THEN a ELSE b

(* Mutant: a block that came before is counted again.                      *)
cache_client_update_Again ==
    /\ Goto("update", "test")
    /\ statefile' = [statefile EXCEPT !.sign[id] = TRUE, !.len = Larger(@, HEADER + id + 1)]
    /\ cc' = [cc EXCEPT !.num = @ + 1]
    /\ UNCHANGED <<cachefile, file, id, got, torn>>

cache_client_update ==
    /\ Goto("update", "test")
    /\ \E sign \in Read :
        IF sign THEN UNCHANGED <<statefile, cc>>
        ELSE /\ statefile' = [statefile EXCEPT !.sign[id] = TRUE,
                                               !.len = Larger(@, HEADER + id + 1)]
             /\ cc' = [cc EXCEPT !.num = @ + 1]
    /\ UNCHANGED <<cachefile, file, id, got, torn>>

cache_client_update_test ==
    /\ LET complete == cc.num = (IF cc.header = HEADER THEN blocknum ELSE 0)
       IN  /\ Goto("test", IF complete THEN "rename" ELSE "idle")
           /\ got' = IF complete THEN got ELSE got \cup {id}
    /\ UNCHANGED <<disk, cc, id, torn>>

(* cache_client_close                                                      *)
cache_client_close_rename ==
    /\ Goto("rename", "remove")
    /\ file' = cachefile /\ cachefile' = NULL
    /\ got' = {}
    /\ UNCHANGED <<statefile, cc, id, torn>>

cache_client_close_remove ==
    /\ Goto("remove", "idle")
    /\ statefile' = NULL /\ cc' = NULL
    /\ UNCHANGED <<cachefile, file, id, got, torn>>

cache_client_close == cache_client_close_rename \/ cache_client_close_remove

-----------------------------------------------------------------------------
(* The process ends and is started again.                                  *)
Crash ==
    /\ pc' = "idle" /\ cc' = NULL
    /\ torn' = (\/ torn
                \/ pc \in {"header", "blocks"}
                \/ pc = "create_state" /\ statefile # NULL)
    /\ UNCHANGED <<disk, id, got>>

Next ==
    \/ \E b \in Blocks : cache_client_init(b)
    \/ cache_client_open \/ cache_client_write \/ cache_client_update
    \/ cache_client_update_test \/ cache_client_close \/ Crash

Spec == Init /\ [][Next]_vars

-----------------------------------------------------------------------------
(* Properties                                                              *)

(* The file under its own name holds every block, after any number of      *)
(* restarts, doubled blocks and blocks that come after the end; unless the *)
(* process once ended inside cache_client_open: a state file without its   *)
(* header is then taken for that of a file without blocks, and the signs   *)
(* of the last file, when it still was there, for those of the new one.    *)
PublishedComplete == file # NULL /\ ~torn => \A b \in Blocks : file[b]

(* A signed block is in the cache: data goes to the disk before its sign,  *)
(* and signs of an earlier file do not outlive it (the comment in          *)
(* cache.c:81, "a state alone: empty the state file").                     *)
SignsTrue ==
    cachefile # NULL /\ statefile # NULL /\ pc # "create_state" /\ ~torn =>
        \A b \in Signed(statefile) : cachefile[b]

(* Once every block was received, in whatever order and with whatever      *)
(* restarts in between, the file is finished: no block has to come again.  *)
NothingLost == pc = "idle" /\ ~torn => got # Blocks

=============================================================================
