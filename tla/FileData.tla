------------------------------ MODULE FileData --------------------------------
(***************************************************************************)
(* A directory on its way from one user to another (fileinfo.c, filedata.c,*)
(* user.c over analysis.c): two tasks of the sender pack the list of files *)
(* and the files into one queue, the server sorts the packages by type and *)
(* hands each to the queue of the user it is for, and the receiver unpacks *)
(* the list and writes the blocks through cache.c.  Packages may get lost  *)
(* on their way; no package is longer than PACKAGE_SIZE.                   *)
(***************************************************************************)
EXTENDS Analysis, FiniteSets, FiniteSetsExt, SequencesExt

CONSTANTS Number,       \* files in the directory
          NameLens, FileSizes,
          Backlog,      \* bound on the packages under way to the server
          MaxLost       \* bound on the packages lost

Tasks == {"info", "data"}
Files == 1..Number

Field == [type: {"int", "str"}, value: Nat \cup {"send", "recv"}, len: Nat]
Package == [type: Tasks, id: Nat, fields: Seq(Field), state: {"normal", "finish", "cancel"}]

FileDataAssumption ==
    /\ Number \in Nat \ {0} /\ {Backlog, MaxLost} \subseteq Nat
    /\ NameLens \subseteq Nat \ {0} /\ FileSizes \subseteq Nat \ {0}
    /\ NULL \notin Package \cup Tasks

VARIABLES files,        \* for each file [len of its name, size]
          a,            \* of each task of the sender
          call, n, k,   \* its next call, its file, the blocks it read of it
          q,            \* packages under way
          lost,         \* how many were lost
          tq,           \* the queues of analysis_allocate, by type
          pc, p, u,     \* the server's threads: place, package, user found
          user,         \* the user in d, or NULL
          q_recv,       \* q_recv of the users that the threads made
          twice,        \* history: both threads made the user
          list,         \* what the receiver knows of the files
          cache,        \* the open caches: [num, data], or NULL
          done          \* the data of the finished files, or NULL

sender == <<a, call, n, k>>
server == <<tq, pc, p, u, user, q_recv, twice>>
receiver == <<list, cache, done>>
vars == <<files, sender, q, lost, server, receiver>>

Init ==
    /\ files \in [Files -> [len: NameLens, size: FileSizes]]
    /\ a = [t \in Tasks |-> analysis_init(t)]
    /\ call = [t \in Tasks |-> "init"] /\ n = [t \in Tasks |-> 1] /\ k = 0
    /\ q = <<>> /\ lost = 0
    /\ tq = [t \in Tasks |-> <<>>] /\ pc = [t \in Tasks |-> "get"]
    /\ p = [t \in Tasks |-> NULL] /\ u = [t \in Tasks |-> NULL]
    /\ user = NULL /\ q_recv = [t \in Tasks |-> <<>>] /\ twice = FALSE
    /\ list = <<>> /\ cache = [f \in Files |-> NULL] /\ done = [f \in Files |-> NULL]

-----------------------------------------------------------------------------
(* The tasks of the sender                                                 *)

Call(t, from, to) == call[t] = from /\ call' = [call EXCEPT ![t] = to]

queue_put(package) == Len(q) < Backlog /\ q' = Append(q, package)

pack(t, field, sign) ==
    /\ a' = [a EXCEPT ![t] = analysis_pack(@, field, sign)]
    /\ IF Full(a[t], field, sign) THEN queue_put(a[t].p) ELSE UNCHANGED q
    /\ UNCHANGED <<files, lost, server, receiver>>

end(t, state) ==
    /\ queue_put(analysis_last(a[t], state))
    /\ a' = [a EXCEPT ![t] = analysis_end(@)]
    /\ UNCHANGED <<files, lost, server, receiver>>

init(t) ==
    /\ a' = [a EXCEPT ![t] = analysis_init(t)]
    /\ UNCHANGED <<files, q, lost, server, receiver>>

Name(f) == StrField(f, files[f].len)

(* The sender's and the receiver's name, and how many files there are.     *)
fileinfo_client_send_head ==
    \/ Call("info", "init", "send") /\ init("info") /\ UNCHANGED <<n, k>>
    \/ Call("info", "send", "recv") /\ pack("info", StrField("send", 1), "none") /\ UNCHANGED <<n, k>>
    \/ Call("info", "recv", "count") /\ pack("info", StrField("recv", 1), "none") /\ UNCHANGED <<n, k>>
    \/ Call("info", "count", "name") /\ pack("info", IntField(Number), "prefix") /\ UNCHANGED <<n, k>>

(* Mutant: a name is packed where its size does not fit any more.          *)
fileinfo_client_send_name_Apart ==
    /\ n["info"] \in Files /\ Call("info", "name", "size")
    /\ pack("info", Name(n["info"]), "none")
    /\ UNCHANGED <<n, k>>

(* Name and size of a file stay together.                                  *)
fileinfo_client_send_name ==
    /\ n["info"] \in Files /\ Call("info", "name", "size")
    /\ LET f == n["info"] IN
        pack("info", Name(f), IF 2 + files[f].len > a["info"].remain_len THEN "new" ELSE "none")
    /\ UNCHANGED <<n, k>>

fileinfo_client_send_size ==
    /\ Call("info", "size", "name")
    /\ pack("info", IntField(files[n["info"]].size), "none")
    /\ n' = [n EXCEPT !["info"] = @ + 1]
    /\ UNCHANGED k

fileinfo_client_send_finish ==
    /\ n["info"] \notin Files /\ Call("info", "name", "over")
    /\ end("info", "finish")
    /\ UNCHANGED <<n, k>>

fileinfo_client_send ==
    \/ fileinfo_client_send_head \/ fileinfo_client_send_name
    \/ fileinfo_client_send_size \/ fileinfo_client_send_finish

filedata_client_send_head ==
  LET f == n["data"] IN
    /\ f \in Files
    /\ \/ Call("data", "init", "send") /\ init("data")
       \/ Call("data", "send", "recv") /\ pack("data", StrField("send", 1), "none")
       \/ Call("data", "recv", "name") /\ pack("data", StrField("recv", 1), "none")
       \/ Call("data", "name", "size") /\ pack("data", Name(f), "none")
       \/ Call("data", "size", "block") /\ pack("data", IntField(files[f].size), "prefix")
    /\ k' = 0
    /\ UNCHANGED n

(* size of filedata_client_send: what a package has room for.              *)
BlockSize(f) == PACKAGE_SIZE - (6 + files[f].len) - 1

(* feof is true once a fread wanted more than there was.                   *)
feof(f) == k * BlockSize(f) > files[f].size

filedata_client_send_block ==
    /\ Call("data", "block", "block") /\ ~feof(n["data"])
    /\ pack("data", StrField(k, BlockSize(n["data"])), "none")
    /\ k' = k + 1
    /\ UNCHANGED n

filedata_client_send_finish ==
    /\ Call("data", "block", "init") /\ feof(n["data"])
    /\ end("data", "finish")
    /\ n' = [n EXCEPT !["data"] = @ + 1]
    /\ UNCHANGED k

(* task_step: the task is cancelled after it read a block.                 *)
filedata_client_send_cancel ==
    /\ Call("data", "block", "over") /\ ~feof(n["data"])
    /\ end("data", "cancel")
    /\ UNCHANGED <<n, k>>

filedata_client_send ==
    \/ filedata_client_send_head \/ filedata_client_send_block
    \/ filedata_client_send_finish \/ filedata_client_send_cancel

-----------------------------------------------------------------------------
(* The way to the server, and the server                                   *)

Lose ==
    /\ q # <<>> /\ lost < MaxLost
    /\ q' = Tail(q) /\ lost' = lost + 1
    /\ UNCHANGED <<files, sender, server, receiver>>

analysis_allocate ==
    /\ q # <<>> /\ q' = Tail(q)
    /\ tq' = [tq EXCEPT ![Head(q).type] = Append(@, Head(q))]
    /\ UNCHANGED <<files, sender, lost, pc, p, u, user, q_recv, twice, receiver>>

Goto(t, from, to) == pc[t] = from /\ pc' = [pc EXCEPT ![t] = to]

(* The names are unpacked; a package that does not start with two strings  *)
(* is dropped (ANALYSIS_FREE).                                             *)
recv_get(t) ==
    /\ tq[t] # <<>>
    /\ Goto(t, "get", IF Unpacked(Head(tq[t]), <<"str", "str">>) = <<>> THEN "get" ELSE "user")
    /\ p' = [p EXCEPT ![t] = Head(tq[t])]
    /\ tq' = [tq EXCEPT ![t] = Tail(@)]
    /\ UNCHANGED <<files, sender, q, lost, u, user, q_recv, twice, receiver>>

(* user_get: looked up, and made when it is not there.                     *)
user_get_look(t) ==
    /\ Goto(t, "user", IF user = NULL THEN "make" ELSE "put")
    /\ u' = [u EXCEPT ![t] = user]
    /\ UNCHANGED <<files, sender, q, lost, tq, p, user, q_recv, twice, receiver>>

(* Mutant: the user that was made does not go into d.                      *)
user_get_make_NotSet(t) ==
    /\ Goto(t, "make", "put")
    /\ u' = [u EXCEPT ![t] = t]
    /\ UNCHANGED <<files, sender, q, lost, tq, p, user, q_recv, twice, receiver>>

user_get_make(t) ==
    /\ Goto(t, "make", "put")
    /\ u' = [u EXCEPT ![t] = t] /\ user' = t
    /\ twice' = (user # NULL)
    /\ UNCHANGED <<files, sender, q, lost, tq, p, q_recv, receiver>>

(* ANALYSIS_RESET                                                          *)
recv_put(t) ==
    /\ Goto(t, "put", "get")
    /\ q_recv' = [q_recv EXCEPT ![u[t]] = Append(@, p[t])]
    /\ UNCHANGED <<files, sender, q, lost, tq, p, u, user, twice, receiver>>

filedata_recv(t) == recv_get(t) \/ user_get_look(t) \/ user_get_make(t) \/ recv_put(t)

-----------------------------------------------------------------------------
(* The receiver, on the queue of the user that d has                       *)

Arrived(t) == user # NULL /\ q_recv[user] # <<>> /\ Head(q_recv[user]).type = t

Taken == q_recv' = [q_recv EXCEPT ![user] = Tail(@)]

(* The names and sizes that follow the number of files, as far as they are *)
(* a string and an integer in turn.                                        *)
Listed(fields) ==
    LET pairs == { m \in 0..Len(fields) :
                    /\ 3 + 2 * m <= Len(fields)
                    /\ \A i \in 1..m : /\ fields[2 * i + 2].type = "str"
                                       /\ fields[2 * i + 3].type = "int" }
    IN  [i \in 1..Max(pairs) |->
            [name |-> fields[2 * i + 2].value, size |-> fields[2 * i + 3].value]]

fileinfo_client_recv ==
    /\ Arrived("info") /\ Taken
    /\ LET fields == Unpacked(Head(q_recv[user]), <<"str", "str", "int">>)
       IN  list' = IF fields = <<>> THEN list ELSE list \o Listed(fields)
    /\ UNCHANGED <<files, sender, q, lost, tq, pc, p, u, user, twice, cache, done>>

(* Mutant: the rest of a file is no block.                                 *)
Blocknum_Floor(size, len) == size \div len

(* cache_client_write of the block whose number is that of the package     *)
(* into the cache of the file, which cache_client_init opens and the last  *)
(* missing block closes.  A block after the end has no data and a sign     *)
(* that nobody wrote: it may count or not.                                 *)
Blocknum(size, len) == (size - 1) \div len + 1

Opened(f) == IF cache[f] = NULL THEN [num |-> 0, data |-> <<>>] ELSE cache[f]

Written(c, id, value) ==
    [num |-> IF id \in DOMAIN c.data THEN c.num ELSE c.num + 1,
     data |-> [i \in DOMAIN c.data \cup {id} |-> IF i = id THEN value ELSE c.data[i]]]

Closed(f, c, blocks) ==
    /\ cache' = [cache EXCEPT ![f] = IF c.num = blocks THEN NULL ELSE c]
    /\ done' = IF c.num = blocks THEN [done EXCEPT ![f] = c.data] ELSE done

filedata_client_recv ==
    /\ Arrived("data") /\ Taken
    /\ LET fields == Unpacked(Head(q_recv[user]), <<"str", "str", "str", "int", "str">>)
           id == Head(q_recv[user]).id
       IN  IF fields = <<>> THEN UNCHANGED <<cache, done>>
           ELSE LET f == fields[3].value
                    blocks == Blocknum(fields[4].value, fields[5].len)
                IN  IF id < blocks
                    THEN Closed(f, Written(Opened(f), id, fields[5].value), blocks)
                    ELSE \E count \in {0, 1} :
                            Closed(f, [Opened(f) EXCEPT !.num = @ + count], blocks)
    /\ UNCHANGED <<files, sender, q, lost, tq, pc, p, u, user, twice, list>>

Next ==
    \/ fileinfo_client_send \/ filedata_client_send
    \/ Lose \/ analysis_allocate
    \/ \E t \in Tasks : filedata_recv(t)
    \/ fileinfo_client_recv \/ filedata_client_recv

Spec == Init /\ [][Next]_vars

-----------------------------------------------------------------------------
(* Properties                                                              *)

Packages == ToSet(q) \cup UNION {ToSet(tq[t]) \cup ToSet(q_recv[t]) : t \in Tasks}

FieldsSize(fields) == FoldLeft(LAMBDA sum, field : sum + Size(field), 0, fields)

(* A package holds what offset_len says and is never longer than           *)
(* PACKAGE_SIZE.                                                           *)
TypeOK ==
    /\ \A t \in Tasks :
        /\ a[t].remain_len \in 0..PACKAGE_SIZE
        /\ a[t].offset_len + a[t].remain_len = PACKAGE_SIZE
        /\ a[t].p # NULL => a[t].offset_len = FieldsSize(a[t].p.fields)
        /\ n[t] \in 1..(Number + 1)
    /\ lost \in 0..MaxLost /\ user \in Tasks \cup {NULL}

Under(t) == {package \in Packages : package.type = t}

(* All that was sent of this type has come.                                *)
Come(t) == call[t] = "over" /\ pc[t] = "get" /\ Under(t) = {} /\ lost = 0 /\ ~twice

(* Whatever the lengths and whatever was lost, each name comes with its    *)
(* size, in order and once, and all of them when nothing was lost:         *)
(* fileinfo_client_send keeps the two together.                            *)
ListRight ==
    /\ Come("info") => Len(list) = Number
    /\ \A i \in DOMAIN list : list[i].size = files[list[i].name].size
    /\ \A i, j \in DOMAIN list : i < j => list[i].name < list[j].name

Multiple(f) == files[f].size % BlockSize(f) = 0

(* A file that is renamed into place is whole.  Not so a file whose length *)
(* is a multiple of the block: feof is still false after its last block,   *)
(* and the extra block may open and finish an empty cache.                 *)
DoneWhole ==
    \A f \in Files :
        done[f] # NULL /\ ~Multiple(f) =>
            \A byte \in 0..(files[f].size - 1) :
                LET i == byte \div BlockSize(f) IN i \in DOMAIN done[f] /\ done[f][i] = i

(* Every package the server hands on is in the queue the user reads,       *)
(* unless the two threads met in user_get and one user replaced the other. *)
ReachesUser == ~twice => \A t \in Tasks : q_recv[t] # <<>> => t = user
=============================================================================
