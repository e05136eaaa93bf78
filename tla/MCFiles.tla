------------------------------- MODULE MCFiles --------------------------------
(***************************************************************************)
(* Whole files and directories, side by side: a behaviour is about one of  *)
(* them (what), the other stands still.                                    *)
(*   "cache"     the module this one extends: one file of three blocks;    *)
(*   "filedata"  a directory of two files that goes to another user.       *)
(***************************************************************************)
EXTENDS Cache

VARIABLES what,
          files, a, call, n, k, q, lost, tq, tpc, p, u, user, q_recv, twice,  \* of FileData
          list, open, done

filedataVars == <<files, a, call, n, k, q, lost, tq, tpc, p, u, user, q_recv, twice,
                  list, open, done>>
allVars == <<what, vars, filedataVars>>

D == INSTANCE FileData WITH
        PACKAGE_SIZE <- 11, Number <- 2, NameLens <- {1, 2}, FileSizes <- {3, 4},
        Backlog <- 1, MaxLost <- 1, pc <- tpc, cache <- open

ASSUME CacheAssumption /\ D!AnalysisAssumption /\ D!FileDataAssumption

MCInit ==
    /\ what \in {"cache", "filedata"}
    /\ Init /\ D!Init
    /\ what = "cache" => files = [x \in D!Files |-> [len |-> 1, size |-> 3]]

(* The sender of a directory comes to its end.                             *)
MayStop == what = "filedata" /\ UNCHANGED allVars

MCNext ==
    \/ what = "cache" /\ Next /\ UNCHANGED <<what, filedataVars>>
    \/ what = "filedata" /\ D!Next /\ UNCHANGED <<what, vars>>
    \/ MayStop

MCSpec == MCInit /\ [][MCNext]_allVars

-----------------------------------------------------------------------------

TypesOK == what = "filedata" => D!TypeOK

(* Each name of the list comes with its size, in order and once.           *)
ListRight == what = "filedata" => D!ListRight

(* A file that was renamed into place is whole.                            *)
DoneWhole == what = "filedata" => D!DoneWhole

(* A package the server hands on is in the queue that its user reads.      *)
ReachesUser == what = "filedata" => D!ReachesUser
=============================================================================
