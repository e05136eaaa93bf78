----------------------------- MODULE CacheProofs ------------------------------
(***************************************************************************)
(* Files that are cached: for a file of any number of blocks, received in  *)
(* any order, any number of times and with any number of restarts, the     *)
(* properties of Cache hold; for a directory of any number of files with   *)
(* names and sizes of any length and any losses, those of FileData, whose  *)
(* receiver writes through that cache; for any number of nodes, slots,     *)
(* packets and writers, those of the block cache of fastcache.c with one   *)
(* client that reads and cleans.                                           *)
(***************************************************************************)
EXTENDS Cache, Sequences, FiniteSetsExt, Functions, FiniteSetTheorems, SequenceTheorems,
        TLAPS

(* What a client, the cache and the state file are at each point of        *)
(* cache.c.                                                                *)
Shape ==
    /\ pc \in {"open", "create_state", "header", "blocks"} => cc = NULL
    /\ pc \in {"write", "update", "test", "rename", "remove"} => cc # NULL
    /\ pc \in {"create_state", "header", "blocks"} => cachefile # NULL
    /\ pc = "remove" => cachefile = NULL
    /\ cc # NULL => statefile # NULL /\ (pc # "remove" => cachefile # NULL)
    /\ pc = "header" => /\ statefile # NULL /\ statefile.header < HEADER
                        /\ statefile.len = statefile.header /\ statefile.sign = None
    /\ pc = "blocks" => /\ statefile # NULL /\ statefile.header = HEADER
                        /\ statefile.sign = None
    /\ statefile # NULL => \A b \in Signed(statefile) : HEADER + b < statefile.len
    /\ cc # NULL => cc.num <= Cardinality(Signed(statefile))

(* The state file is complete once it is not being made, and the client    *)
(* has read it.                                                            *)
StateComplete ==
    /\ statefile # NULL /\ pc \notin {"header", "blocks"} =>
            statefile.header = HEADER /\ statefile.len = Full
    /\ cc # NULL => cc.header = HEADER /\ cc.num = Cardinality(Signed(statefile))

(* The block in hand is written before it is signed, and signed before the *)
(* signs are counted.                                                      *)
InHand ==
    /\ pc = "update" => cachefile[id]
    /\ pc = "test" => statefile.sign[id]
    /\ pc = "rename" => Signed(statefile) = Blocks

SignsBody ==
    cachefile # NULL /\ statefile # NULL /\ pc # "create_state" =>
        \A b \in Signed(statefile) : cachefile[b]

(* Every block that was received is signed, and it was not the last one.   *)
Received ==
    /\ got # {} => /\ cachefile # NULL /\ statefile # NULL
                   /\ pc \notin {"create_state", "header", "blocks"}
                   /\ got \subseteq Signed(statefile)
    /\ got # Blocks

(* The inductive invariant: all but the shape needs that the process did   *)
(* not end inside cache_client_open.                                       *)
CacheInv ==
    /\ TypeOK /\ Shape
    /\ ~torn => /\ StateComplete /\ InHand /\ SignsBody /\ Received
                /\ file # NULL => \A b \in Blocks : file[b]


-----------------------------------------------------------------------------
(* Signs are a subset of the blocks, and their count tells when it is all. *)
LEMMA SignedFacts ==
    ASSUME CacheAssumption, NEW s \in StateFile
    PROVE  /\ Signed(s) \subseteq Blocks
           /\ IsFiniteSet(Signed(s))
           /\ Cardinality(Signed(s)) \in 0..blocknum
           /\ Cardinality(Signed(s)) = blocknum => Signed(s) = Blocks
<1>1. Signed(s) \subseteq Blocks
    BY DEF Signed
<1>2. IsFiniteSet(Blocks) /\ Cardinality(Blocks) = blocknum
    BY FS_Interval DEF Blocks, CacheAssumption
<1>3. /\ IsFiniteSet(Signed(s)) /\ Cardinality(Signed(s)) <= blocknum
      /\ Cardinality(Signed(s)) = blocknum => Signed(s) = Blocks
    BY <1>1, <1>2, FS_Subset
<1>4. Cardinality(Signed(s)) \in Nat
    BY <1>3, FS_CardinalityType
<1> QED BY <1>1, <1>3, <1>4 DEF CacheAssumption

(* A state file without signs.                                             *)
LEMMA NoneSigned ==
    ASSUME NEW s, s.sign = None
    PROVE  Signed(s) = {} /\ Cardinality(Signed(s)) = 0
<1>1. Signed(s) = {}
    BY DEF Signed, None
<1> QED BY <1>1, FS_EmptySet

(* cache_client_update of a block that is not signed adds one sign.        *)
LEMMA SignAdded ==
    ASSUME CacheAssumption, NEW s \in StateFile, NEW n \in StateFile,
           NEW b \in Blocks, b \notin Signed(s), n.sign = [s.sign EXCEPT ![b] = TRUE]
    PROVE  /\ Signed(n) = Signed(s) \cup {b}
           /\ Cardinality(Signed(n)) = Cardinality(Signed(s)) + 1
<1>1. s.sign \in [Blocks -> BOOLEAN]
    BY DEF StateFile, Contents
<1>2. Signed(n) = Signed(s) \cup {b}
    BY <1>1 DEF Signed
<1>3. Cardinality(Signed(s) \cup {b}) = Cardinality(Signed(s)) + 1
    BY SignedFacts, FS_AddElement
<1> QED BY <1>2, <1>3

(* No state file and no client is NULL.                                    *)
LEMMA NotNull ==
    ASSUME CacheAssumption
    PROVE  NULL \notin Contents /\ NULL \notin StateFile /\ NULL \notin Client
    BY DEF CacheAssumption

-----------------------------------------------------------------------------
(* The invariant holds at the start and is kept by every step.             *)

LEMMA InitInv == CacheAssumption /\ Init => CacheInv
<1> SUFFICES ASSUME CacheAssumption, Init PROVE CacheInv
    OBVIOUS
<1>1. blocknum \in Nat \ {0}
    BY DEF CacheAssumption
<1>2. 0 \in Blocks
    BY <1>1 DEF Blocks
<1> QED BY <1>2 DEF Init, CacheInv, TypeOK, Shape, StateComplete, InHand, SignsBody, Received

LEMMA InitStep ==
    ASSUME CacheAssumption, CacheInv, NEW b \in Blocks, cache_client_init(b)
    PROVE  CacheInv'
    BY DEF cache_client_init, Goto, CacheInv, TypeOK, Shape, StateComplete, InHand,
           SignsBody, Received, disk, Signed

LEMMA CrashStep ==
    ASSUME CacheAssumption, CacheInv, Crash
    PROVE  CacheInv'
    BY DEF Crash, CacheInv, TypeOK, Shape, StateComplete, InHand,
           SignsBody, Received, disk, Signed

LEMMA OpenReadStep ==
    ASSUME CacheAssumption, CacheInv, cache_client_open_read
    PROVE  CacheInv'
<1>1. statefile \in StateFile /\ statefile.header \in 0..HEADER
    BY DEF cache_client_open_read, CacheInv, TypeOK, StateFile
<1>2. Cardinality(Signed(statefile)) \in 0..blocknum
    BY <1>1, SignedFacts
<1>3. /\ cc' \in Client /\ cc'.header = statefile.header
      /\ cc'.num \in {0, Cardinality(Signed(statefile))}
      /\ statefile.header = HEADER => cc'.num = Cardinality(Signed(statefile))
    BY <1>1, <1>2 DEF cache_client_open_read, Client, CacheAssumption
<1>4. cc' # NULL
    BY <1>3, NotNull
<1> QED BY <1>2, <1>3, <1>4 DEF cache_client_open_read, Goto, CacheInv, TypeOK, Shape,
           StateComplete, InHand, SignsBody, Received, disk, Signed

LEMMA OpenCacheStep ==
    ASSUME CacheAssumption, CacheInv, cache_client_open_cache
    PROVE  CacheInv'
<1>1. cachefile' \in Contents
    BY DEF cache_client_open_cache, CacheInv, TypeOK, None, Contents
<1>2. cachefile' # NULL
    BY <1>1, NotNull
<1> QED BY <1>1, <1>2 DEF cache_client_open_cache, Goto, CacheInv, TypeOK, Shape,
           StateComplete, InHand, SignsBody, Received, disk, Signed

LEMMA OpenStateStep ==
    ASSUME CacheAssumption, CacheInv, cache_client_open_state
    PROVE  CacheInv'
<1>1. /\ statefile' \in StateFile /\ statefile'.sign = None
      /\ statefile'.header = 0 /\ statefile'.len = 0
    BY DEF cache_client_open_state, StateFile, Contents, None, HEADER, Full, CacheAssumption
<1>2. statefile' # NULL
    BY <1>1, NotNull
<1>3. Signed(statefile') = {}
    BY <1>1, NoneSigned
<1> QED BY <1>1, <1>2, <1>3 DEF cache_client_open_state, Goto, CacheInv, TypeOK, Shape,
           StateComplete, InHand, SignsBody, Received, disk, HEADER

LEMMA OpenHeaderStep ==
    ASSUME CacheAssumption, CacheInv, cache_client_open_header
    PROVE  CacheInv'
<1>1. /\ statefile \in StateFile /\ statefile.header < HEADER
      /\ statefile.len = statefile.header /\ statefile.sign = None
    BY DEF cache_client_open_header, Goto, CacheInv, Shape, TypeOK
<1>2. /\ statefile' \in StateFile /\ statefile'.sign = None
      /\ statefile'.header = statefile.header + 1 /\ statefile'.len = statefile'.header
  <2>1. /\ statefile.header \in 0..2 /\ statefile.len \in 0..2 /\ statefile.sign \in Contents
    BY <1>1 DEF StateFile, HEADER
  <2>2. statefile' = [statefile EXCEPT !.header = @ + 1, !.len = @ + 1]
    BY DEF cache_client_open_header
  <2>3. /\ statefile'.header = statefile.header + 1 /\ statefile'.len = statefile.len + 1
        /\ statefile'.sign = statefile.sign
        /\ statefile' = [header |-> statefile'.header, len |-> statefile'.len,
                         sign |-> statefile'.sign]
    BY <1>1, <2>2 DEF StateFile
  <2>4. statefile.header + 1 \in 0..HEADER /\ statefile.len + 1 \in 0..Full
    BY <2>1 DEF HEADER, Full, CacheAssumption
  <2> QED BY <1>1, <2>1, <2>3, <2>4 DEF StateFile
<1>3. statefile' # NULL /\ Signed(statefile') = {}
    BY <1>2, NotNull, NoneSigned
<1>4. pc' = "header" => statefile'.header < HEADER
    BY <1>1, <1>2 DEF cache_client_open_header, Goto, HEADER, StateFile
<1>5. pc' = "blocks" => statefile'.header = HEADER
    BY <1>1, <1>2 DEF cache_client_open_header, Goto, HEADER, StateFile
<1> QED BY <1>2, <1>3, <1>4, <1>5 DEF cache_client_open_header, Goto, CacheInv, TypeOK,
           Shape, StateComplete, InHand, SignsBody, Received, disk

LEMMA OpenBlocksStep ==
    ASSUME CacheAssumption, CacheInv, cache_client_open_blocks
    PROVE  CacheInv'
<1>1. /\ statefile \in StateFile /\ statefile.header = HEADER /\ statefile.sign = None
    BY DEF cache_client_open_blocks, Goto, CacheInv, Shape, TypeOK
<1>2. /\ statefile' \in StateFile /\ statefile'.sign = None
      /\ statefile'.header = HEADER /\ statefile'.len = Full
    BY <1>1 DEF cache_client_open_blocks, StateFile, HEADER, Full, CacheAssumption
<1>3. /\ statefile' # NULL /\ Signed(statefile') = {}
      /\ Cardinality(Signed(statefile')) = 0
    BY <1>2, NotNull, NoneSigned
<1>4. cc' \in Client /\ cc'.header = HEADER /\ cc'.num = 0
    BY DEF cache_client_open_blocks, Client, HEADER, CacheAssumption
<1>5. cc' # NULL
    BY <1>4, NotNull
<1> QED BY <1>2, <1>3, <1>4, <1>5 DEF cache_client_open_blocks, Goto, CacheInv, TypeOK,
           Shape, StateComplete, InHand, SignsBody, Received, disk

LEMMA WriteStep ==
    ASSUME CacheAssumption, CacheInv, cache_client_write
    PROVE  CacheInv'
<1>1. cachefile \in Contents /\ id \in Blocks
    BY DEF cache_client_write, Goto, CacheInv, TypeOK, Shape
<1>2. /\ cachefile' \in Contents
      /\ \A b \in Blocks : cachefile[b] => cachefile'[b]
      /\ ~torn => cachefile'[id]
    BY <1>1 DEF cache_client_write, Goto, CacheInv, Shape, StateComplete, Contents, HEADER
<1>3. cachefile' # NULL
    BY <1>2, NotNull
<1>4. ~torn => SignsBody'
    BY <1>1, <1>2, NotNull DEF cache_client_write, Goto, CacheInv, SignsBody, Signed
<1> QED BY <1>2, <1>3, <1>4 DEF cache_client_write, Goto, CacheInv, TypeOK, Shape,
           StateComplete, InHand, Received, disk, Signed

LEMMA UpdateStep ==
    ASSUME CacheAssumption, CacheInv, cache_client_update
    PROVE  CacheInv'
<1>1. /\ statefile \in StateFile /\ cc \in Client /\ id \in Blocks
      /\ cachefile # NULL /\ statefile # NULL /\ cc # NULL
    BY DEF cache_client_update, Goto, CacheInv, TypeOK, Shape
<1>2. PICK sign \in Read :
        IF sign THEN UNCHANGED <<statefile, cc>>
        ELSE /\ statefile' = [statefile EXCEPT !.sign[id] = TRUE,
                                               !.len = Larger(@, HEADER + id + 1)]
             /\ cc' = [cc EXCEPT !.num = @ + 1]
    BY DEF cache_client_update
<1>3. CASE sign
  <2>1. ~torn => statefile.sign[id]
    <3>1. ~torn => statefile.len = Full
      BY <1>1 DEF CacheInv, StateComplete, cache_client_update, Goto
    <3>2. HEADER + id < Full
      BY <1>1 DEF Full, HEADER, Blocks, CacheAssumption
    <3> QED BY <1>3, <3>1, <3>2 DEF Read
  <2> QED BY <1>1, <1>2, <1>3, <2>1 DEF cache_client_update, Goto, CacheInv, TypeOK, Shape,
           StateComplete, InHand, SignsBody, Received, disk, Signed
<1>4. CASE ~sign
  <2> DEFINE l == Larger(statefile.len, HEADER + id + 1)
  <2>1. l \in 0..Full /\ HEADER + id < l /\ l >= statefile.len
    BY <1>1 DEF Larger, StateFile, HEADER, Full, Blocks, CacheAssumption
  <2>2. id \notin Signed(statefile)
    BY <1>1, <1>2, <1>4 DEF Read, CacheInv, Shape, Signed
  <2>3. statefile' = [statefile EXCEPT !.sign[id] = TRUE, !.len = l]
    BY <1>2, <1>4
  <2>4. /\ statefile' \in StateFile /\ statefile'.header = statefile.header
        /\ statefile'.len = l
        /\ Signed(statefile') = Signed(statefile) \cup {id}
        /\ Cardinality(Signed(statefile')) = Cardinality(Signed(statefile)) + 1
    <3>1. /\ statefile' \in StateFile /\ statefile'.header = statefile.header
          /\ statefile'.len = l /\ statefile'.sign = [statefile.sign EXCEPT ![id] = TRUE]
      <4>1. l \in 0..Full
        BY <2>1
      <4> HIDE DEF l
      <4> QED BY <1>1, <2>3, <4>1 DEF StateFile, Contents
    <3>2. /\ Signed(statefile') = Signed(statefile) \cup {id}
          /\ Cardinality(Signed(statefile')) = Cardinality(Signed(statefile)) + 1
      BY <1>1, <2>2, <3>1, SignAdded
    <3> QED BY <3>1, <3>2
  <2> HIDE DEF l
  <2>5. Cardinality(Signed(statefile')) \in 0..blocknum
    BY <2>4, SignedFacts
  <2>6. cc.num <= Cardinality(Signed(statefile)) /\ cc.num \in Nat
    BY <1>1 DEF CacheInv, Shape, Client
  <2>7. Cardinality(Signed(statefile)) \in Nat
    BY <1>1, SignedFacts
  <2>8. cc' \in Client /\ cc'.header = cc.header /\ cc'.num = cc.num + 1
    <3>1. cc' = [cc EXCEPT !.num = @ + 1]
      BY <1>2, <1>4
    <3>2. cc.num + 1 \in 0..blocknum
      BY <2>4, <2>5, <2>6, <2>7 DEF CacheAssumption
    <3> QED BY <1>1, <3>1, <3>2 DEF Client
  <2>9. statefile' # NULL /\ cc' # NULL
    BY <2>4, <2>8, NotNull
  <2>10. TypeOK'
    BY <2>4, <2>8 DEF cache_client_update, Goto, CacheInv, TypeOK, disk
  <2>11. \A b \in Signed(statefile') : HEADER + b < statefile'.len
    <3>1. statefile.len \in Int /\ l \in Int /\ HEADER \in Int /\ id \in Int
          /\ \A b \in Signed(statefile) : b \in Int
      BY <1>1, <2>1 DEF StateFile, Full, HEADER, Blocks, Signed, CacheAssumption
    <3>2. \A b \in Signed(statefile) : HEADER + b < statefile.len
      BY <1>1 DEF CacheInv, Shape
    <3> QED BY <2>1, <2>4, <3>1, <3>2
  <2>12. Shape'
    BY <1>1, <2>4, <2>6, <2>7, <2>8, <2>9, <2>11 DEF cache_client_update, Goto, CacheInv,
           Shape, Client
  <2>13. ~torn => StateComplete'
    BY <1>1, <2>1, <2>4, <2>8 DEF cache_client_update, Goto, CacheInv, StateComplete, Full,
           HEADER, CacheAssumption
  <2>14. ~torn => InHand' /\ SignsBody' /\ Received'
    BY <1>1, <2>4, <2>9 DEF cache_client_update, Goto, CacheInv, InHand, SignsBody,
           Received, Signed
  <2> QED BY <2>10, <2>12, <2>13, <2>14 DEF cache_client_update, CacheInv
<1> QED BY <1>3, <1>4

LEMMA TestStep ==
    ASSUME CacheAssumption, CacheInv, cache_client_update_test
    PROVE  CacheInv'
<1>1. /\ statefile \in StateFile /\ cc \in Client /\ id \in Blocks
      /\ cachefile # NULL /\ statefile # NULL /\ cc # NULL
    BY DEF cache_client_update_test, Goto, CacheInv, TypeOK, Shape
<1>2. /\ Signed(statefile) \subseteq Blocks
      /\ Cardinality(Signed(statefile)) = blocknum <=> Signed(statefile) = Blocks
  <2>1. Cardinality(Blocks) = blocknum
    BY FS_Interval DEF Blocks, CacheAssumption
  <2> QED BY <1>1, <2>1, SignedFacts
<1>3. /\ pc' \in {"rename", "idle"} /\ got' \in {got, got \cup {id}}
      /\ UNCHANGED <<disk, cc, id, torn>>
    BY DEF cache_client_update_test, Goto
<1>4. TypeOK' /\ Shape'
    BY <1>1, <1>3 DEF cache_client_update_test, Goto, CacheInv, TypeOK, Shape, disk, Signed
<1>5. ASSUME ~torn PROVE (StateComplete /\ InHand /\ SignsBody /\ Received)'
  <2>1. cc.header = HEADER /\ cc.num = Cardinality(Signed(statefile)) /\ id \in Signed(statefile)
    BY <1>1, <1>5 DEF CacheInv, StateComplete, InHand, Signed, cache_client_update_test, Goto
  <2>2. IF Signed(statefile) = Blocks THEN pc' = "rename" /\ got' = got
        ELSE pc' = "idle" /\ got' = got \cup {id}
    BY <1>2, <2>1 DEF cache_client_update_test, Goto
  <2>3. Received'
    BY <1>1, <1>2, <1>3, <1>5, <2>1, <2>2 DEF CacheInv, Received, disk
  <2> QED BY <1>1, <1>3, <1>5, <2>2, <2>3 DEF CacheInv, StateComplete, InHand, SignsBody,
           disk, Signed, cache_client_update_test, Goto
<1> QED BY <1>3, <1>4, <1>5 DEF CacheInv, disk

LEMMA RenameStep ==
    ASSUME CacheAssumption, CacheInv, cache_client_close_rename
    PROVE  CacheInv'
<1>1. Blocks # {}
    BY DEF Blocks, CacheAssumption
<1>2. cachefile \in Contents /\ cachefile # NULL /\ statefile # NULL /\ cc # NULL
    BY DEF cache_client_close_rename, Goto, CacheInv, TypeOK, Shape
<1>3. ~torn => \A b \in Blocks : cachefile[b]
    BY <1>2 DEF cache_client_close_rename, Goto, CacheInv, InHand, SignsBody
<1> QED BY <1>1, <1>2, <1>3 DEF cache_client_close_rename, Goto, CacheInv, TypeOK, Shape,
           StateComplete, InHand, SignsBody, Received, Signed

LEMMA RemoveStep ==
    ASSUME CacheAssumption, CacheInv, cache_client_close_remove
    PROVE  CacheInv'
    BY DEF cache_client_close_remove, Goto, CacheInv, TypeOK, Shape,
           StateComplete, InHand, SignsBody, Received

LEMMA StutterStep ==
    ASSUME CacheInv, UNCHANGED vars
    PROVE  CacheInv'
    BY DEF vars, disk, CacheInv, TypeOK, Shape, StateComplete, InHand, SignsBody, Received,
           Signed

-----------------------------------------------------------------------------
(* CacheInv is an invariant of cache.c, for a file of any number of blocks.*)
THEOREM CacheInvariance == CacheAssumption => (Spec => []CacheInv)
<1> SUFFICES ASSUME CacheAssumption PROVE Spec => []CacheInv
    OBVIOUS
<1>1. Init => CacheInv
    BY InitInv
<1>2. CacheInv /\ [Next]_vars => CacheInv'
  <2> SUFFICES ASSUME CacheInv, [Next]_vars PROVE CacheInv'
    OBVIOUS
  <2>1. CASE \E b \in Blocks : cache_client_init(b)
    BY <2>1, InitStep
  <2>2. CASE cache_client_open
    BY <2>2, OpenReadStep, OpenCacheStep, OpenStateStep, OpenHeaderStep, OpenBlocksStep
       DEF cache_client_open
  <2>3. CASE cache_client_write
    BY <2>3, WriteStep
  <2>4. CASE cache_client_update
    BY <2>4, UpdateStep
  <2>5. CASE cache_client_update_test
    BY <2>5, TestStep
  <2>6. CASE cache_client_close
    BY <2>6, RenameStep, RemoveStep DEF cache_client_close
  <2>7. CASE Crash
    BY <2>7, CrashStep
  <2>8. CASE UNCHANGED vars
    BY <2>8, StutterStep
  <2> QED BY <2>1, <2>2, <2>3, <2>4, <2>5, <2>6, <2>7, <2>8 DEF Next
<1> QED BY <1>1, <1>2, PTL DEF Spec

(* A file under its own name is whole: PublishedComplete of Cache, for any *)
(* number of blocks.                                                       *)
THEOREM CachePublishes == CacheAssumption => (Spec => []PublishedComplete)
<1>1. CacheInv => PublishedComplete
    BY DEF CacheInv, PublishedComplete
<1> QED BY <1>1, CacheInvariance, PTL

(* Signs never run ahead of the data: SignsTrue of Cache.                  *)
THEOREM CacheSigns == CacheAssumption => (Spec => []SignsTrue)
<1>1. CacheInv => SignsTrue
    BY DEF CacheInv, SignsBody, SignsTrue
<1> QED BY <1>1, CacheInvariance, PTL

(* No block has to come twice: NothingLost of Cache.                       *)
THEOREM CacheLosesNothing == CacheAssumption => (Spec => []NothingLost)
<1>1. CacheInv => NothingLost
    BY DEF CacheInv, Received, NothingLost
<1> QED BY <1>1, CacheInvariance, PTL

-----------------------------------------------------------------------------
(* A directory on its way (fileinfo.c, filedata.c, user.c over analysis.c) *)

CONSTANTS PACKAGE_SIZE, Number, NameLens, FileSizes, Backlog, MaxLost

VARIABLES files, an, call, nf, nb, way, lost, sorted, place, hand, found, user,
          q_recv, twice, list, open, done

D == INSTANCE FileData WITH
        a <- an, n <- nf, k <- nb, q <- way, tq <- sorted, pc <- place, p <- hand,
        u <- found, cache <- open

(* PACKAGE_SIZE leaves a block at least one byte beside the longest name:  *)
(* filedata_client_send takes the length of a block for positive.          *)
Room == \A len \in NameLens : PACKAGE_SIZE > 7 + len

DirAssumption == D!AnalysisAssumption /\ D!FileDataAssumption /\ Room

(* The steps of the server and the receiver, one by one.                   *)
LEMMA DirSteps ==
    ASSUME [D!Next]_(D!vars),
           NEW G,
           D!fileinfo_client_send => G, D!filedata_client_send => G, D!Lose => G,
           D!analysis_allocate => G,
           \A x \in D!Tasks : D!recv_get(x) => G,
           \A x \in D!Tasks : D!user_get_look(x) => G,
           \A x \in D!Tasks : D!user_get_make(x) => G,
           \A x \in D!Tasks : D!recv_put(x) => G,
           D!fileinfo_client_recv => G, D!filedata_client_recv => G,
           UNCHANGED D!vars => G
    PROVE  G
BY ZenonT(60) DEF D!Next, D!filedata_recv

(* The sender leaves the server and the receiver alone.                    *)
LEMMA SenderKeeps ==
    ASSUME D!fileinfo_client_send \/ D!filedata_client_send
    PROVE  UNCHANGED <<files, lost, D!server, D!receiver>>
BY DEF D!fileinfo_client_send, D!fileinfo_client_send_head, D!fileinfo_client_send_name,
       D!fileinfo_client_send_size, D!fileinfo_client_send_finish, D!filedata_client_send,
       D!filedata_client_send_head, D!filedata_client_send_block,
       D!filedata_client_send_finish, D!filedata_client_send_cancel, D!init, D!pack, D!end

Spots == {"get", "user", "make", "put"}

(* While no two threads met in user_get, the user a thread holds and the   *)
(* user whose queue holds anything are the one in d.  The user that a      *)
(* thread is about to make is nobody's yet.                                *)
UserInv ==
    /\ user \in D!Tasks \cup {NULL} /\ place \in [D!Tasks -> Spots]
    /\ DOMAIN found = D!Tasks /\ DOMAIN q_recv = D!Tasks
    /\ user = NULL => \A x \in D!Tasks : q_recv[x] = <<>> /\ place[x] # "put"
    /\ \A x \in D!Tasks : place[x] = "put" => found[x] \in D!Tasks
    /\ ~twice => \A x \in D!Tasks : /\ place[x] = "put" => found[x] = user
                                    /\ q_recv[x] # <<>> => x = user
    /\ twice => user # NULL
    /\ \A x \in D!Tasks : place[x] = "make" =>
            /\ q_recv[x] = <<>> /\ user # x
            /\ \A o \in D!Tasks : place[o] = "put" => found[o] # x

LEMMA UserInvStep == DirAssumption /\ UserInv /\ [D!Next]_(D!vars) => UserInv'
<1> SUFFICES ASSUME DirAssumption, UserInv, [D!Next]_(D!vars)
             PROVE  UserInv'
  OBVIOUS
<1> DEFINE Same == UNCHANGED <<place, found, user, q_recv, twice>>
<1>0. \A x \in D!Tasks : x # NULL
  BY DEF DirAssumption, D!FileDataAssumption
<1>1. ASSUME Same
      PROVE  UserInv'
  BY <1>1 DEF UserInv
<1>2. D!fileinfo_client_send \/ D!filedata_client_send => UserInv'
  BY <1>1, SenderKeeps DEF D!server
<1>3. D!Lose \/ D!analysis_allocate \/ UNCHANGED D!vars => UserInv'
  BY <1>1 DEF D!Lose, D!analysis_allocate, D!server, D!vars
<1>4. ASSUME NEW x \in D!Tasks, D!recv_get(x)
      PROVE  UserInv'
  BY <1>4 DEF UserInv, Spots, D!recv_get, D!Goto
<1>5. ASSUME NEW x \in D!Tasks, D!user_get_look(x)
      PROVE  UserInv'
  BY <1>0, <1>5 DEF UserInv, Spots, D!user_get_look, D!Goto
<1>6. ASSUME NEW x \in D!Tasks, D!user_get_make(x)
      PROVE  UserInv'
  BY <1>0, <1>6 DEF UserInv, Spots, D!user_get_make, D!Goto
<1>7. ASSUME NEW x \in D!Tasks, D!recv_put(x)
      PROVE  UserInv'
  BY <1>7 DEF UserInv, Spots, D!recv_put, D!Goto
<1>8. D!fileinfo_client_recv \/ D!filedata_client_recv => UserInv'
  <2> SUFFICES ASSUME D!fileinfo_client_recv \/ D!filedata_client_recv
               PROVE  UserInv'
    OBVIOUS
  <2>1. q_recv[user] # <<>> /\ D!Taken /\ UNCHANGED <<place, found, user, twice>>
    BY DEF D!fileinfo_client_recv, D!filedata_client_recv, D!Arrived
  <2>2. /\ DOMAIN q_recv' = D!Tasks
        /\ \A x \in D!Tasks : q_recv'[x] # <<>> => q_recv[x] # <<>>
    BY <2>1 DEF UserInv, D!Taken
  <2> QED
    BY <2>1, <2>2 DEF UserInv
<1> QED
  BY <1>2, <1>3, <1>4, <1>5, <1>6, <1>7, <1>8, DirSteps

LEMMA UserInvariance ==
    ASSUME DirAssumption
    PROVE  D!Spec => []UserInv
<1>1. D!Init => UserInv
  BY DEF DirAssumption, D!FileDataAssumption, D!Init, UserInv, Spots
<1>2. UserInv /\ [D!Next]_(D!vars) => UserInv'
  BY UserInvStep
<1> QED
  BY <1>1, <1>2, PTL DEF D!Spec

(* What the server hands on is in the queue that its user reads, unless    *)
(* two threads made the user: ReachesUser of FileData.                     *)
THEOREM DirReachesUser ==
    ASSUME DirAssumption
    PROVE  D!Spec => []D!ReachesUser
<1>1. UserInv => D!ReachesUser
  BY DEF UserInv, D!ReachesUser
<1> QED
  BY <1>1, UserInvariance, PTL

-----------------------------------------------------------------------------
(* Packing, on a package whose prefix is px (pl long)                      *)

Pkg(ty, num, fs, st) == [type |-> ty, id |-> num, fields |-> fs, state |-> st]

Filling(ty, num, fs, len, px, pl) ==
    [type |-> ty, p |-> Pkg(ty, num, fs, "normal"), id |-> num + 1, offset_len |-> len,
     remain_len |-> PACKAGE_SIZE - len, prefix |-> px, prefix_len |-> pl]

LEMMA PkgFacts ==
    ASSUME DirAssumption, NEW ty \in D!Tasks, NEW num \in Nat, NEW fs \in Seq(D!Field),
           NEW st \in {"normal", "finish", "cancel"}
    PROVE  Pkg(ty, num, fs, st) \in D!Package /\ Pkg(ty, num, fs, st) # NULL
<1>1. Pkg(ty, num, fs, st) \in D!Package
  BY DEF Pkg, D!Package
<1> QED
  BY <1>1 DEF DirAssumption, D!FileDataAssumption

LEMMA FieldFacts ==
    ASSUME NEW v \in Nat \cup {"send", "recv"}, NEW len \in Nat
    PROVE  /\ D!StrField(v, len) \in D!Field /\ D!IntField(v) \in D!Field
           /\ D!Size(D!StrField(v, len)) = 1 + len /\ D!Size(D!IntField(v)) = 1
           /\ D!StrField(v, len).value = v /\ D!IntField(v).value = v
           /\ D!StrField(v, len).len = len
           /\ D!StrField(v, len).type = "str" /\ D!IntField(v).type = "int"
BY DEF D!StrField, D!IntField, D!Field, D!Size

LEMMA SizeNat == \A fld \in D!Field : D!Size(fld) \in Nat \ {0}
BY DEF D!Field, D!Size

Appended(x, fld) == [x EXCEPT !.fields = Append(x.fields, fld)]

LEMMA PkgAppended ==
    ASSUME NEW ty, NEW num \in Nat, NEW fs, NEW fld
    PROVE  Appended(Pkg(ty, num, fs, "normal"), fld) = Pkg(ty, num, Append(fs, fld), "normal")
BY DEF Pkg, Appended

(* A field that goes into the package at hand.                             *)
LEMMA FilledFacts ==
    ASSUME NEW ty \in D!Tasks, NEW num \in Nat, NEW fs \in Seq(D!Field), NEW len \in Int,
           NEW px \in Seq(D!Field), NEW pl \in Int,
           NEW fld \in D!Field, PACKAGE_SIZE \in Int
    PROVE  D!Filled(Filling(ty, num, fs, len, px, pl), fld) =
                Filling(ty, num, Append(fs, fld), len + D!Size(fld), px, pl)
<1> DEFINE A == Filling(ty, num, fs, len, px, pl)
           S == D!Size(fld)
<1>1. S \in Int
  BY SizeNat
<1> HIDE DEF S
<1>2. PICK sz \in Int : sz = S
  BY <1>1
<1>3. PACKAGE_SIZE - len - sz = PACKAGE_SIZE - (len + sz)
  BY <1>2
<1>4. A.p = Pkg(ty, num, fs, "normal") /\ A.p.fields = fs /\ A.offset_len = len
      /\ A.remain_len = PACKAGE_SIZE - len
  BY DEF Filling, Pkg
<1> DEFINE P == Pkg(ty, num, Append(fs, fld), "normal")
<1>5. Appended(Pkg(ty, num, fs, "normal"), fld) = P
  BY PkgAppended
<1>6. D!Filled(A, fld) = [A EXCEPT !.p = Appended(A.p, fld),
                                   !.offset_len = A.offset_len + S,
                                   !.remain_len = A.remain_len - S]
  BY DEF D!Filled, Appended, S
<1> HIDE DEF P
<1>7. D!Filled(A, fld) = [A EXCEPT !.p = P, !.offset_len = len + sz,
                                   !.remain_len = PACKAGE_SIZE - len - sz]
  BY <1>2, <1>4, <1>5, <1>6
<1>8. D!Filled(A, fld) =
        [type |-> ty, p |-> P, id |-> num + 1,
         offset_len |-> len + sz, remain_len |-> PACKAGE_SIZE - len - sz,
         prefix |-> px, prefix_len |-> pl]
  BY <1>7 DEF Filling
<1> QED
  BY <1>2, <1>3, <1>8 DEF Filling, S, P

LEMMA FirstPacked ==
    ASSUME DirAssumption, NEW ty \in D!Tasks, NEW fld \in D!Field,
           D!Size(fld) <= PACKAGE_SIZE
    PROVE  /\ ~D!Full(D!analysis_init(ty), fld, "none")
           /\ D!analysis_pack(D!analysis_init(ty), fld, "none") =
                Filling(ty, 0, <<fld>>, D!Size(fld), <<>>, 0)
<1> DEFINE A == D!analysis_init(ty)
           S == D!Size(fld)
<1>1. S \in Nat /\ PACKAGE_SIZE \in Nat
  BY SizeNat DEF DirAssumption, D!AnalysisAssumption
<1>2. A.p = NULL /\ A.remain_len = PACKAGE_SIZE /\ A.offset_len = A.prefix_len
      /\ A.prefix_len = 0
  BY DEF D!analysis_init
<1>3. ~D!Full(A, fld, "none") /\ ~D!Refused(A, fld)
  BY <1>1, <1>2 DEF D!Full, D!Refused
<1>4. D!Current(A, FALSE) = Filling(ty, 0, <<>>, 0, <<>>, 0)
  BY <1>1, <1>2 DEF D!Current, D!package_new, D!analysis_init, Filling, Pkg
<1>5. D!Filled(D!Current(A, FALSE), fld) = Filling(ty, 0, Append(<<>>, fld), 0 + S, <<>>, 0)
  <2>1. PICK z \in Nat : z = 0
    OBVIOUS
  <2>e. PICK e : e = <<>>
    OBVIOUS
  <2>0. e \in Seq(D!Field)
    BY <2>e
  <2>2. z \in Int /\ PACKAGE_SIZE \in Int
    BY <1>1, <2>1
  <2>3. D!Filled(Filling(ty, z, e, z, e, z), fld) =
            Filling(ty, z, Append(e, fld), z + D!Size(fld), e, z)
    BY <2>0, <2>2, FilledFacts
  <2>4. D!Current(A, FALSE) = Filling(ty, z, e, z, e, z)
    BY <1>4, <2>1, <2>e
  <2>5. D!Filled(D!Current(A, FALSE), fld) = Filling(ty, z, Append(e, fld), z + S, e, z)
    BY <2>3, <2>4
  <2> QED
    BY <2>1, <2>5, <2>e
<1>6. Append(<<>>, fld) = <<fld>> /\ 0 + S = S
  BY <1>1
<1>7. D!Full(A, fld, "none") = FALSE
  BY <1>3
<1>8. D!analysis_pack(A, fld, "none") = D!Filled(D!Current(A, FALSE), fld)
  BY <1>3, <1>7 DEF D!analysis_pack
<1> QED
  BY <1>3, <1>5, <1>6, <1>8

(* A field that fits where it is packed.                                   *)
Fits(A, fld, sign, B) == ~D!Full(A, fld, sign) /\ D!analysis_pack(A, fld, sign) = B

LEMMA NextPacked ==
    ASSUME DirAssumption, NEW ty \in D!Tasks, NEW num \in Nat, NEW fs \in Seq(D!Field),
           NEW len \in Nat, NEW px \in Seq(D!Field), NEW pl \in Nat, pl <= len,
           NEW fld \in D!Field, D!Size(fld) <= PACKAGE_SIZE - len
    PROVE  /\ Fits(Filling(ty, num, fs, len, px, pl), fld, "none",
                    Filling(ty, num, Append(fs, fld), len + D!Size(fld), px, pl))
           /\ pl = 0 => Fits(Filling(ty, num, fs, len, px, pl), fld, "prefix",
                             Filling(ty, num, Append(fs, fld), len + D!Size(fld),
                                     Append(fs, fld), len + D!Size(fld)))
<1> DEFINE A == Filling(ty, num, fs, len, px, pl)
           S == D!Size(fld)
           B == Filling(ty, num, Append(fs, fld), len + S, px, pl)
<1>1. S \in Nat /\ PACKAGE_SIZE \in Nat
  BY SizeNat DEF DirAssumption, D!AnalysisAssumption
<1>2. A.p # NULL /\ A.remain_len = PACKAGE_SIZE - len /\ A.offset_len = len /\ A.prefix_len = pl
  BY PkgFacts DEF Filling
<1>3. ~D!Full(A, fld, "none") /\ ~D!Full(A, fld, "prefix") /\ ~D!Refused(A, fld)
  BY <1>1, <1>2 DEF D!Full, D!Refused
<1>4. D!Current(A, FALSE) = A
  BY <1>2 DEF D!Current
<1>5. D!Filled(A, fld) = B
  BY <1>1, FilledFacts
<1>6. D!Full(A, fld, "none") = FALSE /\ D!Full(A, fld, "prefix") = FALSE
  BY <1>3
<1>7. /\ D!analysis_pack(A, fld, "none") = B
      /\ D!analysis_pack(A, fld, "prefix") = D!Prefixed(B)
  BY <1>3, <1>4, <1>5, <1>6 DEF D!analysis_pack
<1>8. ASSUME pl = 0
      PROVE  D!Prefixed(B) = Filling(ty, num, Append(fs, fld), len + S, Append(fs, fld), len + S)
  <2>1. PICK m \in Int : m = len + S
    BY <1>1
  <2>2. B.prefix_len = 0 /\ B.p.fields = Append(fs, fld) /\ B.remain_len = PACKAGE_SIZE - m
    BY <1>8, <2>1 DEF Filling, Pkg
  <2>3. PACKAGE_SIZE - (PACKAGE_SIZE - m) = m
    BY <1>1, <2>1
  <2>4. D!Prefixed(B) = [B EXCEPT !.prefix = Append(fs, fld), !.prefix_len = m]
    BY <2>2, <2>3 DEF D!Prefixed
  <2> QED
    BY <2>1, <2>4 DEF Filling
<1> QED
  BY <1>3, <1>7, <1>8 DEF Fits

(* A field that opens the next package.                                    *)
Opens(A, fld, sign, B) == D!Full(A, fld, sign) /\ D!analysis_pack(A, fld, sign) = B

LEMMA NewPacked ==
    ASSUME DirAssumption, NEW ty \in D!Tasks, NEW num \in Nat, NEW fs \in Seq(D!Field),
           NEW len \in Nat, NEW px \in Seq(D!Field), NEW pl \in Nat, len # pl,
           NEW fld \in D!Field, D!Size(fld) <= PACKAGE_SIZE - pl
    PROVE  LET A == Filling(ty, num, fs, len, px, pl)
               B == Filling(ty, num + 1, Append(px, fld), pl + D!Size(fld), px, pl)
           IN  /\ Opens(A, fld, "new", B)
               /\ D!Size(fld) > PACKAGE_SIZE - len => Opens(A, fld, "none", B)
<1> DEFINE A == Filling(ty, num, fs, len, px, pl)
           S == D!Size(fld)
<1>1. S \in Nat /\ PACKAGE_SIZE \in Nat
  BY SizeNat DEF DirAssumption, D!AnalysisAssumption
<1>2. A.remain_len = PACKAGE_SIZE - len /\ A.offset_len = len /\ A.prefix_len = pl
  BY DEF Filling
<1>3. /\ D!Full(A, fld, "new") /\ ~D!Refused(A, fld)
      /\ S > PACKAGE_SIZE - len => D!Full(A, fld, "none")
  BY <1>1, <1>2 DEF D!Full, D!Refused
<1>4. D!Current(A, TRUE) = Filling(ty, num + 1, px, pl, px, pl)
  BY DEF D!Current, D!package_new, Filling, Pkg
<1>5. D!Filled(D!Current(A, TRUE), fld) = Filling(ty, num + 1, Append(px, fld), pl + S, px, pl)
  <2>1. num + 1 \in Nat /\ pl \in Int /\ PACKAGE_SIZE \in Int
    BY <1>1
  <2>2. D!Filled(Filling(ty, num + 1, px, pl, px, pl), fld) =
            Filling(ty, num + 1, Append(px, fld), pl + D!Size(fld), px, pl)
    BY <2>1, FilledFacts
  <2> QED
    BY <1>4, <2>2
<1>6. D!Full(A, fld, "new") = TRUE /\ (S > PACKAGE_SIZE - len => D!Full(A, fld, "none") = TRUE)
  BY <1>3 DEF D!Full
<1>7. /\ D!analysis_pack(A, fld, "new") = D!Filled(D!Current(A, TRUE), fld)
      /\ S > PACKAGE_SIZE - len =>
            D!analysis_pack(A, fld, "none") = D!Filled(D!Current(A, TRUE), fld)
  BY <1>3, <1>6 DEF D!analysis_pack
<1> QED
  BY <1>3, <1>5, <1>7 DEF Opens

LEMMA LastPacked ==
    ASSUME DirAssumption, NEW ty \in D!Tasks, NEW num \in Nat, NEW fs \in Seq(D!Field),
           NEW len, NEW px, NEW pl, NEW st \in {"finish", "cancel"}
    PROVE  D!analysis_last(Filling(ty, num, fs, len, px, pl), st) = Pkg(ty, num, fs, st)
<1>1. Filling(ty, num, fs, len, px, pl).p # NULL
  BY PkgFacts DEF Filling
<1> QED
  BY <1>1 DEF D!analysis_last, D!Current, Filling, Pkg

-----------------------------------------------------------------------------
(* The sender: what it has packed at each call, and what it puts           *)

Send == D!StrField("send", 1)
Recv == D!StrField("recv", 1)

FilesType == files \in [D!Files -> [len: NameLens, size: FileSizes]]

Users == Append(<<Send>>, Recv)
Named(f) == Append(Users, D!Name(f))
Prefix(f) == Append(Named(f), D!IntField(files[f].size))

Block(f, i) == Append(Prefix(f), D!StrField(i, D!BlockSize(f)))

LEMMA FileFacts ==
    ASSUME DirAssumption, FilesType, NEW f \in D!Files
    PROVE  /\ f \in Nat \ {0} /\ files[f].len \in Nat \ {0} /\ files[f].size \in Nat \ {0}
           /\ PACKAGE_SIZE \in Nat /\ 7 + files[f].len < PACKAGE_SIZE
           /\ D!BlockSize(f) = PACKAGE_SIZE - (7 + files[f].len)
           /\ D!BlockSize(f) \in Nat \ {0}
           /\ D!Name(f) \in D!Field /\ D!Size(D!Name(f)) = 1 + files[f].len
           /\ D!IntField(files[f].size) \in D!Field /\ D!Size(D!IntField(files[f].size)) = 1
           /\ Send \in D!Field /\ Recv \in D!Field /\ D!Size(Send) = 2 /\ D!Size(Recv) = 2
           /\ D!IntField(Number) \in D!Field /\ D!Size(D!IntField(Number)) = 1
           /\ <<>> \in Seq(D!Field) /\ <<Send>> \in Seq(D!Field) /\ Users \in Seq(D!Field)
           /\ Named(f) \in Seq(D!Field)
<1>1. /\ PACKAGE_SIZE \in Nat /\ Number \in Nat /\ NameLens \subseteq Nat \ {0}
      /\ FileSizes \subseteq Nat \ {0}
  BY DEF DirAssumption, D!AnalysisAssumption, D!FileDataAssumption
<1>2. f \in Nat \ {0}
  BY <1>1 DEF D!Files
<1>3. files[f].len \in NameLens /\ files[f].size \in FileSizes
  BY DEF FilesType
<1>4. PICK l \in Nat \ {0} : l = files[f].len
  BY <1>1, <1>3
<1>5. 7 + l < PACKAGE_SIZE
  BY <1>1, <1>3, <1>4 DEF DirAssumption, Room
<1>6. D!BlockSize(f) = PACKAGE_SIZE - (7 + l) /\ D!BlockSize(f) \in Nat \ {0}
  BY <1>1, <1>4, <1>5 DEF D!BlockSize
<1>7. D!Name(f) \in D!Field /\ D!Size(D!Name(f)) = 1 + files[f].len
  <2>1. f \in Nat \cup {"send", "recv"} /\ files[f].len \in Nat
    BY <1>2, <1>4
  <2> QED
    BY <2>1, FieldFacts DEF D!Name
<1>8. D!IntField(files[f].size) \in D!Field /\ D!Size(D!IntField(files[f].size)) = 1
  <2>1. files[f].size \in Nat \cup {"send", "recv"} /\ 0 \in Nat
    BY <1>1, <1>3
  <2> QED
    BY <2>1, FieldFacts
<1>9. D!IntField(Number) \in D!Field /\ D!Size(D!IntField(Number)) = 1
  <2>1. Number \in Nat \cup {"send", "recv"} /\ 0 \in Nat
    BY <1>1
  <2> QED
    BY <2>1, FieldFacts
<1>10. Send \in D!Field /\ Recv \in D!Field /\ D!Size(Send) = 2 /\ D!Size(Recv) = 2
  <2>1. /\ "send" \in Nat \cup {"send", "recv"} /\ "recv" \in Nat \cup {"send", "recv"}
        /\ 1 \in Nat /\ 1 + 1 = 2
    OBVIOUS
  <2>2. Send \in D!Field /\ D!Size(Send) = 1 + 1
    BY DEF Send, D!StrField, D!Field, D!Size
  <2>3. Recv \in D!Field /\ D!Size(Recv) = 1 + 1
    BY DEF Recv, D!StrField, D!Field, D!Size
  <2> QED
    BY <2>1, <2>2, <2>3
<1>11. <<>> \in Seq(D!Field) /\ <<Send>> \in Seq(D!Field)
  BY <1>10
<1>12. Users \in Seq(D!Field)
  BY <1>10, <1>11 DEF Users
<1>13. Named(f) \in Seq(D!Field)
  BY <1>7, <1>12 DEF Named
<1> QED
  BY <1>1, <1>2, <1>3, <1>4, <1>5, <1>6, <1>7, <1>8, <1>9, <1>10, <1>11, <1>12, <1>13

(* The pairs of name and size of m files from the file lo on, after the    *)
(* number of files.                                                        *)
Pairs(fs, lo, m) ==
    /\ Len(fs) >= 3 + 2 * m
    /\ fs[1] = Send /\ fs[2] = Recv /\ fs[3] = D!IntField(Number)
    /\ \A j \in 0..(m - 1) : /\ fs[4 + 2 * j] = D!Name(lo + j)
                             /\ fs[5 + 2 * j] = D!IntField(files[lo + j].size)

DataOK(x) ==
    x.type = "data" =>
        \E f \in D!Files :
            \/ x.fields = Prefix(f)
            \/ x.fields = Block(f, x.id) /\ x.id * D!BlockSize(f) <= files[f].size

InfoOK(x) ==
    x.type = "info" =>
        \E lo \in D!Files, m \in 1..Number :
            lo + m <= Number + 1 /\ Len(x.fields) = 3 + 2 * m /\ Pairs(x.fields, lo, m)

Good == {x \in D!Package : DataOK(x) /\ InfoOK(x)}

(* filedata_client_send                                                    *)
DirData ==
    LET A == an["data"]
        f == nf["data"]
    IN  /\ f \in 1..(Number + 1) /\ nb \in Nat
        /\ call["data"] \in {"send", "recv", "name", "size", "block"} => f \in D!Files
        /\ call["data"] = "send" => A = D!analysis_init("data")
        /\ call["data"] = "recv" => A = Filling("data", 0, <<Send>>, 2, <<>>, 0)
        /\ call["data"] = "name" => A = Filling("data", 0, Users, 4, <<>>, 0)
        /\ call["data"] = "size" =>
            A = Filling("data", 0, Named(f), 5 + files[f].len, <<>>, 0)
        /\ call["data"] = "block" =>
            IF nb = 0
            THEN A = Filling("data", 0, Prefix(f), 6 + files[f].len,
                             Prefix(f), 6 + files[f].len)
            ELSE /\ A = Filling("data", nb - 1, Block(f, nb - 1), PACKAGE_SIZE,
                                Prefix(f), 6 + files[f].len)
                 /\ (nb - 1) * D!BlockSize(f) <= files[f].size

(* The functions of the two tasks.                                         *)
SenderType == DOMAIN an = D!Tasks /\ DOMAIN call = D!Tasks /\ DOMAIN nf = D!Tasks

Put(ty) == way' = way \/ \E x \in Good : x.type = ty /\ way' = Append(way, x)

LEMMA GoodData ==
    ASSUME DirAssumption, FilesType, NEW f \in D!Files, NEW num \in Nat,
           NEW st \in {"normal", "finish", "cancel"}
    PROVE  /\ Prefix(f) \in Seq(D!Field) /\ Block(f, num) \in Seq(D!Field)
           /\ Pkg("data", num, Prefix(f), st) \in Good
           /\ Pkg("data", num, Prefix(f), st).type = "data"
           /\ Pkg("data", num, Block(f, num), st).type = "data"
           /\ num * D!BlockSize(f) <= files[f].size => Pkg("data", num, Block(f, num), st) \in Good
<1>1. Prefix(f) \in Seq(D!Field)
  BY FileFacts DEF Prefix, Named, Users
<1>2. D!StrField(num, D!BlockSize(f)) \in D!Field
  BY FileFacts, FieldFacts
<1>3. Block(f, num) \in Seq(D!Field)
  BY <1>1, <1>2 DEF Block
<1>4. Pkg("data", num, Prefix(f), st) \in D!Package /\ Pkg("data", num, Block(f, num), st) \in D!Package
  BY <1>1, <1>3, PkgFacts DEF D!Tasks
<1>5. ASSUME NEW fs
      PROVE  /\ Pkg("data", num, fs, st).type = "data" /\ Pkg("data", num, fs, st).id = num
             /\ Pkg("data", num, fs, st).fields = fs
  BY DEF Pkg
<1>6. Pkg("data", num, Prefix(f), st) \in Good
  BY <1>4, <1>5 DEF Good, DataOK, InfoOK
<1>7. num * D!BlockSize(f) <= files[f].size => Pkg("data", num, Block(f, num), st) \in Good
  BY <1>4, <1>5 DEF Good, DataOK, InfoOK
<1> QED
  BY <1>1, <1>3, <1>5, <1>6, <1>7

(* The two names are packed by both tasks.                                 *)
LEMMA RecvPacked ==
    ASSUME DirAssumption, FilesType, NEW ty \in D!Tasks, NEW f \in D!Files
    PROVE  Fits(Filling(ty, 0, <<Send>>, 2, <<>>, 0), Recv, "none",
                Filling(ty, 0, Users, 4, <<>>, 0))
<1>1. /\ Recv \in D!Field /\ D!Size(Recv) = 2 /\ <<Send>> \in Seq(D!Field)
      /\ <<>> \in Seq(D!Field) /\ D!Size(Recv) <= PACKAGE_SIZE - 2
      /\ 0 \in Nat /\ 2 \in Nat /\ 0 <= 2
  BY FileFacts, SMTT(40)
<1>2. Fits(Filling(ty, 0, <<Send>>, 2, <<>>, 0), Recv, "none",
           Filling(ty, 0, Append(<<Send>>, Recv), 2 + D!Size(Recv), <<>>, 0))
  BY <1>1, NextPacked
<1> QED
  BY <1>1, <1>2 DEF Users

LEMMA NamePacked ==
    ASSUME DirAssumption, FilesType, NEW ty \in D!Tasks, NEW f \in D!Files
    PROVE  Fits(Filling(ty, 0, Users, 4, <<>>, 0), D!Name(f), "none",
                Filling(ty, 0, Named(f), 5 + files[f].len, <<>>, 0))
<1>1. /\ D!Name(f) \in D!Field /\ D!Size(D!Name(f)) = 1 + files[f].len
      /\ Users \in Seq(D!Field) /\ <<>> \in Seq(D!Field)
      /\ D!Size(D!Name(f)) <= PACKAGE_SIZE - 4 /\ files[f].len \in Nat
      /\ 0 \in Nat /\ 4 \in Nat /\ 0 <= 4
  BY FileFacts, SMTT(40)
<1>2. Fits(Filling(ty, 0, Users, 4, <<>>, 0), D!Name(f), "none",
           Filling(ty, 0, Append(Users, D!Name(f)), 4 + D!Size(D!Name(f)), <<>>, 0))
  BY <1>1, NextPacked
<1>3. 4 + D!Size(D!Name(f)) = 5 + files[f].len
  BY <1>1
<1> QED
  BY <1>2, <1>3 DEF Named

LEMMA SizePacked ==
    ASSUME DirAssumption, FilesType, NEW ty \in D!Tasks, NEW f \in D!Files
    PROVE  Fits(Filling(ty, 0, Named(f), 5 + files[f].len, <<>>, 0),
                D!IntField(files[f].size), "prefix",
                Filling(ty, 0, Prefix(f), 6 + files[f].len, Prefix(f), 6 + files[f].len))
<1> DEFINE fld == D!IntField(files[f].size)
<1>1. PICK len \in Nat : len = 5 + files[f].len
  BY FileFacts
<1>2. /\ fld \in D!Field /\ D!Size(fld) = 1
      /\ Named(f) \in Seq(D!Field) /\ <<>> \in Seq(D!Field) /\ files[f].len \in Nat
      /\ PACKAGE_SIZE \in Nat /\ 7 + files[f].len < PACKAGE_SIZE
  BY FileFacts
<1> HIDE DEF fld
<1>5. /\ D!Size(fld) <= PACKAGE_SIZE - len
      /\ 0 \in Nat /\ 0 <= len
  BY <1>1, <1>2, SMTT(40)
<1>3. Fits(Filling(ty, 0, Named(f), len, <<>>, 0), fld, "prefix",
           Filling(ty, 0, Append(Named(f), fld), len + D!Size(fld),
                   Append(Named(f), fld), len + D!Size(fld)))
  BY <1>2, <1>5, NextPacked
<1>4. len + D!Size(fld) = 6 + files[f].len
  BY <1>1, <1>2
<1> QED
  BY <1>1, <1>3, <1>4 DEF Prefix, fld

LEMMA PackKeeps ==
    ASSUME SenderType, NEW ty \in D!Tasks, NEW fld, NEW sign, D!pack(ty, fld, sign)
    PROVE  /\ an'[ty] = D!analysis_pack(an[ty], fld, sign)
           /\ DOMAIN an' = D!Tasks /\ \A o \in D!Tasks : o # ty => an'[o] = an[o]
           /\ D!Full(an[ty], fld, sign) => way' = Append(way, an[ty].p)
           /\ ~D!Full(an[ty], fld, sign) => way' = way
           /\ files' = files
BY DEF SenderType, D!pack, D!queue_put

LEMMA EndKeeps ==
    ASSUME SenderType, NEW ty \in D!Tasks, NEW st, D!end(ty, st)
    PROVE  /\ DOMAIN an' = D!Tasks /\ \A o \in D!Tasks : o # ty => an'[o] = an[o]
           /\ way' = Append(way, D!analysis_last(an[ty], st))
           /\ files' = files
BY DEF SenderType, D!end, D!queue_put

LEMMA CallKeeps ==
    ASSUME SenderType, NEW ty \in D!Tasks, NEW from, NEW to, D!Call(ty, from, to)
    PROVE  /\ call[ty] = from /\ call'[ty] = to
           /\ DOMAIN call' = D!Tasks /\ \A o \in D!Tasks : o # ty => call'[o] = call[o]
BY DEF SenderType, D!Call

(* What the step of one task leaves of the other.                          *)
Aside(ty) ==
    /\ files' = files /\ SenderType'
    /\ \A o \in D!Tasks : o # ty => an'[o] = an[o] /\ call'[o] = call[o] /\ nf'[o] = nf[o]

LEMMA DataHeadStep ==
    ASSUME DirAssumption, FilesType, SenderType, DirData, D!filedata_client_send_head
    PROVE  DirData' /\ Aside("data") /\ Put("data")
<1>0. "data" \in D!Tasks
  BY DEF D!Tasks
<1> DEFINE f == nf["data"]
           A == an["data"]
<1>1. f \in D!Files /\ nb' = 0 /\ nf' = nf
  BY DEF D!filedata_client_send_head
<1>2. /\ f \in 1..(Number + 1) /\ PACKAGE_SIZE \in Nat /\ files[f].len \in Nat
      /\ 7 + files[f].len < PACKAGE_SIZE
  BY <1>1, FileFacts DEF DirData
<1>3. PICK l \in Nat : l = files[f].len
  BY <1>2
<1>4. CASE D!Call("data", "init", "send") /\ D!init("data")
  <2>1. /\ an'["data"] = D!analysis_init("data") /\ way' = way /\ files' = files
        /\ DOMAIN an' = D!Tasks /\ \A o \in D!Tasks : o # "data" => an'[o] = an[o]
    BY <1>0, <1>4 DEF D!init, SenderType
  <2>2. Aside("data") /\ call'["data"] = "send"
    BY <1>0, <1>1, <1>4, <2>1, CallKeeps DEF Aside, SenderType
  <2> QED
    BY <1>1, <1>2, <2>1, <2>2 DEF DirData, Put, D!Files
<1>5. CASE D!Call("data", "send", "recv") /\ D!pack("data", Send, "none")
  <2>1. A = D!analysis_init("data")
    BY <1>0, <1>5, CallKeeps DEF DirData
  <2>2. /\ ~D!Full(A, Send, "none")
        /\ D!analysis_pack(A, Send, "none") = Filling("data", 0, <<Send>>, 2, <<>>, 0)
    BY <1>0, <1>1, <1>2, <1>3, <2>1, FirstPacked, FileFacts, SMTT(40)
  <2>3. Aside("data") /\ call'["data"] = "recv"
    BY <1>0, <1>1, <1>5, CallKeeps, PackKeeps DEF Aside, SenderType
  <2>4. /\ an'["data"] = Filling("data", 0, <<Send>>, 2, <<>>, 0)
        /\ way' = way
    BY <1>0, <1>5, <2>2, PackKeeps
  <2> QED
    BY <1>1, <1>2, <2>3, <2>4 DEF DirData, Put, D!Files
<1>6. CASE D!Call("data", "recv", "name") /\ D!pack("data", Recv, "none")
  <2>1. A = Filling("data", 0, <<Send>>, 2, <<>>, 0)
    BY <1>0, <1>6, CallKeeps DEF DirData
  <2>4. /\ ~D!Full(A, Recv, "none")
        /\ D!analysis_pack(A, Recv, "none") = Filling("data", 0, Users, 4, <<>>, 0)
    BY <1>0, <1>1, <1>3, <2>1, RecvPacked DEF Fits
  <2>5. Aside("data") /\ call'["data"] = "name"
    BY <1>0, <1>1, <1>6, CallKeeps, PackKeeps DEF Aside, SenderType
  <2>6. /\ an'["data"] = Filling("data", 0, Users, 4, <<>>, 0)
        /\ way' = way
    BY <1>0, <1>6, <2>4, PackKeeps
  <2> QED
    BY <1>1, <1>2, <2>5, <2>6 DEF DirData, Put, D!Files
<1>7. CASE D!Call("data", "name", "size") /\ D!pack("data", D!Name(f), "none")
  <2>1. A = Filling("data", 0, Users, 4, <<>>, 0)
    BY <1>0, <1>7, CallKeeps DEF DirData
  <2>4. /\ ~D!Full(A, D!Name(f), "none")
        /\ D!analysis_pack(A, D!Name(f), "none") =
                Filling("data", 0, Named(f), 5 + l, <<>>, 0)
    BY <1>0, <1>1, <1>3, <2>1, NamePacked DEF Fits
  <2>5. Aside("data") /\ call'["data"] = "size"
    BY <1>0, <1>1, <1>7, CallKeeps, PackKeeps DEF Aside, SenderType
  <2>6. /\ an'["data"] = Filling("data", 0, Named(f), 5 + l, <<>>, 0)
        /\ way' = way /\ files' = files
    BY <1>0, <1>7, <2>4, PackKeeps
  <2> QED
    BY <1>1, <1>2, <1>3, <2>5, <2>6 DEF DirData, Put, D!Files, Named, D!Name
<1>8. CASE D!Call("data", "size", "block") /\ D!pack("data", D!IntField(files[f].size), "prefix")
  <2>1. A = Filling("data", 0, Named(f), 5 + l, <<>>, 0)
    BY <1>0, <1>3, <1>8, CallKeeps DEF DirData
  <2>4. /\ ~D!Full(A, D!IntField(files[f].size), "prefix")
        /\ D!analysis_pack(A, D!IntField(files[f].size), "prefix") =
                Filling("data", 0, Prefix(f), 6 + l, Prefix(f), 6 + l)
    BY <1>0, <1>1, <1>3, <2>1, SizePacked DEF Fits
  <2>5. Aside("data") /\ call'["data"] = "block"
    BY <1>0, <1>1, <1>8, CallKeeps, PackKeeps DEF Aside, SenderType
  <2>6. /\ an'["data"] = Filling("data", 0, Prefix(f), 6 + l, Prefix(f), 6 + l)
        /\ way' = way /\ files' = files
    BY <1>0, <1>8, <2>4, PackKeeps
  <2> QED
    BY <1>1, <1>2, <1>3, <2>5, <2>6 DEF DirData, Put, D!Files, Named, D!Name, Prefix
<1> QED
  BY <1>4, <1>5, <1>6, <1>7, <1>8 DEF D!filedata_client_send_head, Send, Recv

LEMMA ProductFacts == \A x \in Int, y \in Int : x * y \in Int
OBVIOUS

(* A block fills the package: the first follows the prefix, each later one *)
(* opens a package of its own.                                             *)
LEMMA BlockPacked ==
    ASSUME DirAssumption, FilesType, NEW f \in D!Files, NEW num \in Nat
    PROVE  LET fld == D!StrField(num, D!BlockSize(f))
               B == Filling("data", num, Block(f, num), PACKAGE_SIZE,
                            Prefix(f), 6 + files[f].len)
           IN  /\ num = 0 => Fits(Filling("data", 0, Prefix(f), 6 + files[f].len,
                                          Prefix(f), 6 + files[f].len), fld, "none", B)
               /\ num # 0 => Opens(Filling("data", num - 1, Block(f, num - 1), PACKAGE_SIZE,
                                           Prefix(f), 6 + files[f].len), fld, "none", B)
<1> DEFINE fld == D!StrField(num, D!BlockSize(f))
<1>0. "data" \in D!Tasks
  BY DEF D!Tasks
<1>1. PICK len \in Nat : len = 6 + files[f].len
  BY FileFacts
<1>2. /\ PACKAGE_SIZE \in Nat /\ 1 + len < PACKAGE_SIZE
      /\ D!BlockSize(f) \in Nat /\ 1 + D!BlockSize(f) = PACKAGE_SIZE - len
  <2>1. PICK l \in Nat, bs \in Nat : l = files[f].len /\ bs = D!BlockSize(f)
    BY FileFacts
  <2>2. PACKAGE_SIZE \in Nat /\ 7 + l < PACKAGE_SIZE /\ bs = PACKAGE_SIZE - (7 + l)
    BY <2>1, FileFacts
  <2> QED
    BY <1>1, <2>1, <2>2
<1>3. fld \in D!Field /\ D!Size(fld) = PACKAGE_SIZE - len
  <2>1. PICK bs \in Nat : bs = D!BlockSize(f) /\ 1 + bs = PACKAGE_SIZE - len
    BY <1>2
  <2>2. num \in Nat \cup {"send", "recv"}
    OBVIOUS
  <2>3. D!StrField(num, bs) \in D!Field /\ D!Size(D!StrField(num, bs)) = 1 + bs
    BY <2>1, <2>2 DEF D!StrField, D!Field, D!Size
  <2> QED
    BY <2>1, <2>3
<1>4. Prefix(f) \in Seq(D!Field) /\ Block(f, num) = Append(Prefix(f), fld)
  BY GoodData DEF Block
<1>5. len + D!Size(fld) = PACKAGE_SIZE
  BY <1>1, <1>2, <1>3
<1>6. D!Size(fld) <= PACKAGE_SIZE - len /\ D!Size(fld) > PACKAGE_SIZE - PACKAGE_SIZE
      /\ PACKAGE_SIZE # len /\ len <= len
  BY <1>1, <1>2, <1>3
<1> HIDE DEF fld
<1>7. ASSUME num = 0
      PROVE  Fits(Filling("data", 0, Prefix(f), len, Prefix(f), len), fld, "none",
                  Filling("data", 0, Block(f, 0), PACKAGE_SIZE, Prefix(f), len))
  <2>1. Fits(Filling("data", 0, Prefix(f), len, Prefix(f), len), fld, "none",
             Filling("data", 0, Append(Prefix(f), fld), len + D!Size(fld), Prefix(f), len))
    BY <1>0, <1>3, <1>4, <1>6, NextPacked
  <2> QED
    BY <1>4, <1>5, <1>7, <2>1
<1>8. ASSUME num # 0
      PROVE  Opens(Filling("data", num - 1, Block(f, num - 1), PACKAGE_SIZE, Prefix(f), len),
                   fld, "none",
                   Filling("data", num, Block(f, num), PACKAGE_SIZE, Prefix(f), len))
  <2>1. PICK m \in Nat : m = num - 1
    BY <1>8
  <2>2. m + 1 = num /\ Block(f, m) \in Seq(D!Field)
    BY <2>1, GoodData
  <2>3. Opens(Filling("data", m, Block(f, m), PACKAGE_SIZE, Prefix(f), len),
              fld, "none",
              Filling("data", m + 1, Append(Prefix(f), fld), len + D!Size(fld), Prefix(f), len))
    BY <1>0, <1>2, <1>3, <1>4, <1>6, <2>2, NewPacked
  <2> QED
    BY <1>4, <1>5, <2>1, <2>2, <2>3
<1> QED
  BY <1>1, <1>7, <1>8 DEF fld

LEMMA DataBlockStep ==
    ASSUME DirAssumption, FilesType, SenderType, DirData, D!filedata_client_send_block
    PROVE  DirData' /\ Aside("data") /\ Put("data")
<1>0. "data" \in D!Tasks
  BY DEF D!Tasks
<1> DEFINE f == nf["data"]
           A == an["data"]
           fld == D!StrField(nb, D!BlockSize(f))
           B == Filling("data", nb, Block(f, nb), PACKAGE_SIZE, Prefix(f), 6 + files[f].len)
<1>1. /\ D!Call("data", "block", "block") /\ ~(nb * D!BlockSize(f) > files[f].size)
      /\ D!pack("data", fld, "none") /\ nb' = nb + 1 /\ nf' = nf
  BY DEF D!filedata_client_send_block, D!feof
<1>2. call["data"] = "block" /\ Aside("data") /\ call'["data"] = "block"
  BY <1>0, <1>1, CallKeeps, PackKeeps DEF Aside, SenderType
<1>3. f \in D!Files /\ f \in 1..(Number + 1) /\ nb \in Nat
  BY <1>2 DEF DirData
<1>4. nb * D!BlockSize(f) <= files[f].size
  BY <1>1, <1>3, FileFacts, ProductFacts
<1>5. an'["data"] = B /\ Put("data")
  <2>1. CASE nb = 0
    <3>1. Fits(A, fld, "none", B)
      BY <1>2, <1>3, <2>1, BlockPacked DEF DirData
    <3> QED
      BY <1>0, <1>1, <3>1, PackKeeps DEF Fits, Put
  <2>2. CASE nb # 0
    <3>1. /\ A = Filling("data", nb - 1, Block(f, nb - 1), PACKAGE_SIZE,
                         Prefix(f), 6 + files[f].len)
          /\ (nb - 1) * D!BlockSize(f) <= files[f].size
      BY <1>2, <2>2 DEF DirData
    <3>2. Opens(A, fld, "none", B)
      BY <1>3, <2>2, <3>1, BlockPacked
    <3>3. A.p = Pkg("data", nb - 1, Block(f, nb - 1), "normal")
      BY <3>1 DEF Filling
    <3>4. nb - 1 \in Nat
      BY <1>3, <2>2
    <3>5. A.p \in Good /\ A.p.type = "data"
      <4>1. PICK m \in Nat, st \in {"normal", "finish", "cancel"} :
                    m = nb - 1 /\ st = "normal" /\ m * D!BlockSize(f) <= files[f].size
        BY <3>1, <3>4
      <4>2. /\ Pkg("data", m, Block(f, m), st) \in Good
            /\ Pkg("data", m, Block(f, m), st).type = "data"
        BY <1>3, <4>1, GoodData
      <4> QED
        BY <3>3, <4>1, <4>2
    <3>6. /\ an'["data"] = D!analysis_pack(A, fld, "none")
          /\ D!Full(A, fld, "none") => way' = Append(way, A.p)
      BY <1>0, <1>1, PackKeeps
    <3>7. an'["data"] = B /\ way' = Append(way, A.p)
      BY <3>2, <3>6 DEF Opens
    <3> QED
      BY <3>5, <3>7 DEF Put
  <2> QED
    BY <2>1, <2>2
<1>6. nb' \in Nat /\ nb' # 0 /\ nb' - 1 = nb /\ files' = files /\ nf' = nf
  BY <1>1, <1>2, <1>3 DEF Aside
<1>7. DirData'
  BY <1>2, <1>3, <1>4, <1>5, <1>6
  DEF DirData, Block, Prefix, Named, Users, D!Name, D!BlockSize, D!Files
<1> QED
  BY <1>2, <1>5, <1>7

LEMMA DataEndStep ==
    ASSUME DirAssumption, FilesType, SenderType, DirData,
           D!filedata_client_send_finish \/ D!filedata_client_send_cancel
    PROVE  DirData' /\ Aside("data") /\ Put("data")
<1>0. "data" \in D!Tasks
  BY DEF D!Tasks
<1> DEFINE f == nf["data"]
           A == an["data"]
<1>1. PICK st \in {"finish", "cancel"}, to \in {"init", "over"} :
        /\ D!Call("data", "block", to) /\ D!end("data", st)
        /\ (nf' = nf \/ nf' = [nf EXCEPT !["data"] = @ + 1]) /\ nb' = nb
  BY DEF D!filedata_client_send_finish, D!filedata_client_send_cancel
<1>2. /\ call["data"] = "block" /\ call'["data"] = to
      /\ way' = Append(way, D!analysis_last(A, st))
      /\ Aside("data")
  BY <1>0, <1>1, CallKeeps, EndKeeps DEF Aside, SenderType
<1>3. f \in D!Files /\ f \in 1..(Number + 1) /\ nb \in Nat /\ f \in 1..Number
  BY <1>2 DEF DirData, D!Files
<1>4. D!analysis_last(A, st) \in Good /\ D!analysis_last(A, st).type = "data"
  <2>1. CASE nb = 0
    <3>1. A = Filling("data", 0, Prefix(f), 6 + files[f].len, Prefix(f), 6 + files[f].len)
      BY <1>2, <2>1 DEF DirData
    <3>2. 0 \in Nat /\ Prefix(f) \in Seq(D!Field)
      BY <1>3, GoodData
    <3>3. D!analysis_last(A, st) = Pkg("data", 0, Prefix(f), st)
      BY <1>0, <3>1, <3>2, LastPacked
    <3> QED
      BY <1>3, <3>2, <3>3, GoodData
  <2>2. CASE nb # 0
    <3>1. /\ A = Filling("data", nb - 1, Block(f, nb - 1), PACKAGE_SIZE,
                         Prefix(f), 6 + files[f].len)
          /\ (nb - 1) * D!BlockSize(f) <= files[f].size
      BY <1>2, <2>2 DEF DirData
    <3>2. nb - 1 \in Nat
      BY <1>3, <2>2
    <3>3. Block(f, nb - 1) \in Seq(D!Field)
      BY <1>3, <3>2, GoodData
    <3>4. D!analysis_last(A, st) = Pkg("data", nb - 1, Block(f, nb - 1), st)
      BY <1>0, <3>1, <3>2, <3>3, LastPacked
    <3>5. st \in {"normal", "finish", "cancel"}
      OBVIOUS
    <3>6. /\ Pkg("data", nb - 1, Block(f, nb - 1), st) \in Good
          /\ Pkg("data", nb - 1, Block(f, nb - 1), st).type = "data"
      BY <1>3, <3>1, <3>2, <3>5, GoodData
    <3> QED
      BY <3>4, <3>6
  <2> QED
    BY <2>1, <2>2
<1>5. Put("data")
  BY <1>2, <1>4 DEF Put
<1>6. nf'["data"] \in 1..(Number + 1)
  <2>1. Number \in Nat
    BY DEF DirAssumption, D!FileDataAssumption
  <2>2. nf'["data"] = f \/ nf'["data"] = f + 1
    BY <1>0, <1>1 DEF SenderType
  <2> QED
    BY <1>3, <2>1, <2>2
<1>7. nb' \in Nat
  BY <1>1, <1>3
<1>8. DirData'
  BY <1>2, <1>6, <1>7 DEF DirData
<1> QED
  BY <1>2, <1>5, <1>8

LEMMA DataStep ==
    ASSUME DirAssumption, FilesType, SenderType, DirData, D!filedata_client_send
    PROVE  DirData' /\ Aside("data") /\ Put("data")
BY DataHeadStep, DataBlockStep, DataEndStep DEF D!filedata_client_send

Counted == Append(Users, D!IntField(Number))

(* fileinfo_client_send: a package at hand has the pairs of the m files    *)
(* before the next one, and at "size" the name of that one.                *)
AtName(A, f, num, fs, len, m) ==
    /\ A = Filling("info", num, fs, len, Counted, 5)
    /\ m < f /\ Len(fs) = 3 + 2 * m /\ Pairs(fs, f - m, m)
    /\ IF m = 0 THEN f = 1 /\ len = 5 ELSE len # 5

AtSize(A, f, num, fs, len, m) ==
    /\ A = Filling("info", num, fs, len, Counted, 5)
    /\ m < f /\ Len(fs) = 4 + 2 * m /\ Pairs(fs, f - m, m) /\ fs[4 + 2 * m] = D!Name(f)
    /\ len > 5 /\ len < PACKAGE_SIZE

InfoInv ==
    LET A == an["info"]
        f == nf["info"]
    IN  /\ f \in 1..(Number + 1)
        /\ call["info"] \in {"init", "send", "recv", "count"} => f = 1
        /\ call["info"] = "send" => A = D!analysis_init("info")
        /\ call["info"] = "recv" => A = Filling("info", 0, <<Send>>, 2, <<>>, 0)
        /\ call["info"] = "count" => A = Filling("info", 0, Users, 4, <<>>, 0)
        /\ call["info"] = "name" =>
            \E num \in Nat, fs \in Seq(D!Field), len \in 5..PACKAGE_SIZE, m \in 0..Number :
                AtName(A, f, num, fs, len, m)
        /\ call["info"] = "size" =>
            /\ f \in D!Files
            /\ \E num \in Nat, fs \in Seq(D!Field), len \in Nat, m \in 0..Number :
                AtSize(A, f, num, fs, len, m)
        /\ call["info"] = "over" => f = Number + 1

(* The first and the last file of a package, and the first file that is in *)
(* no package yet or in the one at hand.                                   *)
First(x) == x.fields[4].value
Final(x) == x.fields[Len(x.fields) - 1].value

Carried(A) == (Len(A.p.fields) - 3) \div 2

Base == nf["info"] - (IF call["info"] \in {"name", "size"} THEN Carried(an["info"]) ELSE 0)

InfoPut ==
    \/ way' = way /\ Base' = Base
    \/ \E x \in Good : /\ x.type = "info" /\ way' = Append(way, x)
                      /\ First(x) = Base /\ Final(x) = nf["info"] - 1 /\ Base' = nf["info"]

LEMMA CarriedFacts ==
    ASSUME NEW A, NEW f, NEW num, NEW fs, NEW len, NEW m \in Nat,
           AtName(A, f, num, fs, len, m) \/ AtSize(A, f, num, fs, len, m)
    PROVE  Carried(A) = m
<1>1. A.p.fields = fs
  BY DEF AtName, AtSize, Filling, Pkg
<1>2. Len(fs) = 3 + 2 * m \/ Len(fs) = 4 + 2 * m
  BY DEF AtName, AtSize
<1>3. (2 * m) \div 2 = m /\ (1 + 2 * m) \div 2 = m
  OBVIOUS
<1>4. (Len(fs) - 3) \div 2 = m
  <2>1. Len(fs) - 3 = 2 * m \/ Len(fs) - 3 = 1 + 2 * m
    BY <1>2
  <2> QED
    BY <1>3, <2>1
<1> QED
  BY <1>1, <1>4 DEF Carried

LEMMA GoodInfo ==
    ASSUME DirAssumption, NEW num \in Nat, NEW fs \in Seq(D!Field),
           NEW st \in {"normal", "finish", "cancel"}, NEW f \in 1..(Number + 1), NEW m \in 1..Number,
           m < f, Len(fs) = 3 + 2 * m, Pairs(fs, f - m, m)
    PROVE  /\ Pkg("info", num, fs, st) \in Good /\ Pkg("info", num, fs, st).type = "info"
           /\ First(Pkg("info", num, fs, st)) = f - m
           /\ Final(Pkg("info", num, fs, st)) = f - 1
<1>1. Pkg("info", num, fs, st) \in D!Package
  BY PkgFacts DEF D!Tasks
<1>2. Number \in Nat
  BY DEF DirAssumption, D!FileDataAssumption
<1>3. f - m \in D!Files /\ (f - m) + m <= Number + 1
  BY <1>2 DEF D!Files
<1>4. Pkg("info", num, fs, st).type = "info" /\ Pkg("info", num, fs, st).fields = fs
  BY DEF Pkg
<1>5. fs[4] = D!Name(f - m) /\ fs[Len(fs) - 1] = D!Name(f - 1)
  <2>1. PICK lo \in Int : lo = f - m
    BY <1>2
  <2>2. \A j \in 0..(m - 1) : fs[4 + 2 * j] = D!Name(lo + j)
    BY <2>1 DEF Pairs
  <2>3. 0 \in 0..(m - 1) /\ m - 1 \in 0..(m - 1)
    BY <1>2
  <2>4. 4 + 2 * 0 = 4 /\ lo + 0 = lo /\ 4 + 2 * (m - 1) = Len(fs) - 1 /\ lo + (m - 1) = f - 1
    BY <1>2, <2>1
  <2> QED
    BY <2>1, <2>2, <2>3, <2>4
<1>6. D!Name(f - m).value = f - m /\ D!Name(f - 1).value = f - 1
  BY DEF D!Name, D!StrField
<1>7. Pkg("info", num, fs, st) \in Good
  BY <1>1, <1>3, <1>4 DEF Good, InfoOK, DataOK
<1> QED
  BY <1>4, <1>5, <1>6, <1>7 DEF First, Final

LEMMA AppendFacts ==
    ASSUME NEW fs \in Seq(D!Field), NEW fld \in D!Field
    PROVE  /\ Append(fs, fld) \in Seq(D!Field) /\ Len(fs) \in Nat
           /\ Len(Append(fs, fld)) = Len(fs) + 1 /\ Append(fs, fld)[Len(fs) + 1] = fld
           /\ \A i \in 1..Len(fs) : Append(fs, fld)[i] = fs[i]
OBVIOUS

(* What follows the pairs does not matter to them.                         *)
LEMMA PairsAppend ==
    ASSUME NEW fs \in Seq(D!Field), NEW lo \in Int, NEW m \in Nat, Pairs(fs, lo, m),
           NEW fld \in D!Field
    PROVE  Pairs(Append(fs, fld), lo, m)
<1>1. /\ Len(Append(fs, fld)) = Len(fs) + 1 /\ Len(fs) \in Nat
      /\ \A i \in 1..Len(fs) : Append(fs, fld)[i] = fs[i]
  OBVIOUS
<1>2. Len(fs) >= 3 + 2 * m
  BY DEF Pairs
<1>3. 1 \in 1..Len(fs) /\ 2 \in 1..Len(fs) /\ 3 \in 1..Len(fs)
  BY <1>1, <1>2
<1>4. \A j \in 0..(m - 1) : 4 + 2 * j \in 1..Len(fs) /\ 5 + 2 * j \in 1..Len(fs)
  BY <1>1, <1>2
<1> QED
  BY <1>1, <1>2, <1>3, <1>4 DEF Pairs

LEMMA CountedFacts ==
    ASSUME DirAssumption, FilesType, NEW f \in D!Files, NEW lo \in Int
    PROVE  /\ Counted \in Seq(D!Field) /\ Len(Counted) = 3 /\ Pairs(Counted, lo, 0)
           /\ Fits(Filling("info", 0, Users, 4, <<>>, 0), D!IntField(Number), "prefix",
                   Filling("info", 0, Counted, 5, Counted, 5))
<1> DEFINE fld == D!IntField(Number)
<1>1. /\ fld \in D!Field /\ D!Size(fld) = 1 /\ Users \in Seq(D!Field) /\ <<>> \in Seq(D!Field)
      /\ D!Size(fld) <= PACKAGE_SIZE - 4 /\ 0 \in Nat /\ 4 \in Nat /\ 0 <= 4
  BY FileFacts, SMTT(40)
<1>2. Len(Users) = 2 /\ Users[1] = Send /\ Users[2] = Recv
  BY FileFacts DEF Users
<1> HIDE DEF fld
<1>3. Counted \in Seq(D!Field) /\ Len(Counted) = 3
      /\ Counted[1] = Send /\ Counted[2] = Recv /\ Counted[3] = fld
  <2>1. Counted = Append(Users, fld)
    BY DEF Counted, fld
  <2>2. /\ Append(Users, fld) \in Seq(D!Field) /\ Len(Append(Users, fld)) = Len(Users) + 1
        /\ Append(Users, fld)[Len(Users) + 1] = fld
        /\ \A i \in 1..Len(Users) : Append(Users, fld)[i] = Users[i]
    BY <1>1, AppendFacts
  <2>3. 1 \in 1..2 /\ 2 \in 1..2 /\ 2 + 1 = 3
    OBVIOUS
  <2> QED
    BY <1>2, <2>1, <2>2, <2>3
<1>4. Pairs(Counted, lo, 0)
  BY <1>3 DEF Pairs, fld
<1>5. "info" \in D!Tasks
  BY DEF D!Tasks
<1>6. Fits(Filling("info", 0, Users, 4, <<>>, 0), fld, "prefix",
           Filling("info", 0, Append(Users, fld), 4 + D!Size(fld),
                   Append(Users, fld), 4 + D!Size(fld)))
  BY <1>1, <1>5, NextPacked
<1>7. 4 + D!Size(fld) = 5
  BY <1>1
<1> QED
  BY <1>3, <1>4, <1>6, <1>7 DEF Counted, fld

LEMMA InfoHeadStep ==
    ASSUME DirAssumption, FilesType, SenderType, InfoInv, D!fileinfo_client_send_head
    PROVE  InfoInv' /\ Aside("info") /\ InfoPut
<1>0. /\ "info" \in D!Tasks /\ 1 \in D!Files /\ Number \in Nat /\ Number # 0
      /\ PACKAGE_SIZE \in Nat /\ 7 < PACKAGE_SIZE
  <2>1. Number \in Nat \ {0}
    BY DEF DirAssumption, D!FileDataAssumption
  <2>2. 1 \in D!Files
    BY <2>1 DEF D!Files
  <2>3. PICK l \in Nat : l = files[1].len
    BY <2>2, FileFacts
  <2>4. PACKAGE_SIZE \in Nat /\ 7 + l < PACKAGE_SIZE
    BY <2>2, <2>3, FileFacts
  <2> QED
    BY <2>1, <2>2, <2>4 DEF D!Tasks
<1> DEFINE A == an["info"]
           f == nf["info"]
<1>1. PICK from \in {"init", "send", "recv", "count"}, to \in {"send", "recv", "count", "name"} :
        D!Call("info", from, to) /\ nf' = nf /\ nb' = nb
  BY DEF D!fileinfo_client_send_head
<1>2. call["info"] = from /\ call'["info"] = to /\ f = 1 /\ f \in 1..(Number + 1)
  BY <1>0, <1>1, CallKeeps DEF InfoInv
<1>4. CASE D!Call("info", "init", "send") /\ D!init("info")
  <2>1. /\ an'["info"] = D!analysis_init("info") /\ way' = way /\ files' = files
        /\ DOMAIN an' = D!Tasks /\ \A o \in D!Tasks : o # "info" => an'[o] = an[o]
    BY <1>0, <1>4 DEF D!init, SenderType
  <2>2. Aside("info") /\ call'["info"] = "send"
    BY <1>0, <1>1, <1>4, <2>1, CallKeeps DEF Aside, SenderType
  <2> QED
    BY <1>1, <1>2, <2>1, <2>2 DEF InfoInv, InfoPut, Base
<1>5. CASE D!Call("info", "send", "recv") /\ D!pack("info", Send, "none")
  <2>1. A = D!analysis_init("info")
    BY <1>0, <1>5, CallKeeps DEF InfoInv
  <2>2. /\ ~D!Full(A, Send, "none")
        /\ D!analysis_pack(A, Send, "none") = Filling("info", 0, <<Send>>, 2, <<>>, 0)
    BY <1>0, <2>1, FirstPacked, FileFacts
  <2>3. Aside("info") /\ call'["info"] = "recv"
    BY <1>0, <1>1, <1>5, CallKeeps, PackKeeps DEF Aside, SenderType
  <2>4. /\ an'["info"] = Filling("info", 0, <<Send>>, 2, <<>>, 0)
        /\ way' = way
    BY <1>0, <1>5, <2>2, PackKeeps
  <2> QED
    BY <1>1, <1>2, <2>3, <2>4 DEF InfoInv, InfoPut, Base
<1>6. CASE D!Call("info", "recv", "count") /\ D!pack("info", Recv, "none")
  <2>1. A = Filling("info", 0, <<Send>>, 2, <<>>, 0)
    BY <1>0, <1>6, CallKeeps DEF InfoInv
  <2>2. /\ ~D!Full(A, Recv, "none")
        /\ D!analysis_pack(A, Recv, "none") = Filling("info", 0, Users, 4, <<>>, 0)
    BY <1>0, <2>1, RecvPacked DEF Fits
  <2>3. Aside("info") /\ call'["info"] = "count"
    BY <1>0, <1>1, <1>6, CallKeeps, PackKeeps DEF Aside, SenderType
  <2>4. /\ an'["info"] = Filling("info", 0, Users, 4, <<>>, 0)
        /\ way' = way
    BY <1>0, <1>6, <2>2, PackKeeps
  <2> QED
    BY <1>1, <1>2, <2>3, <2>4 DEF InfoInv, InfoPut, Base, Users
<1>7. CASE D!Call("info", "count", "name") /\ D!pack("info", D!IntField(Number), "prefix")
  <2>1. A = Filling("info", 0, Users, 4, <<>>, 0)
    BY <1>0, <1>7, CallKeeps DEF InfoInv
  <2>2. /\ ~D!Full(A, D!IntField(Number), "prefix")
        /\ D!analysis_pack(A, D!IntField(Number), "prefix") =
                Filling("info", 0, Counted, 5, Counted, 5)
        /\ Counted \in Seq(D!Field) /\ Len(Counted) = 3 /\ Pairs(Counted, 1, 0)
    BY <1>0, <2>1, CountedFacts DEF Fits
  <2>3. Aside("info") /\ call'["info"] = "name" /\ files' = files
    BY <1>0, <1>1, <1>7, CallKeeps, PackKeeps DEF Aside, SenderType
  <2>4. /\ an'["info"] = Filling("info", 0, Counted, 5, Counted, 5)
        /\ way' = way
    BY <1>0, <1>7, <2>2, PackKeeps
  <2>5. Pairs(Counted, 1, 0)'
    BY <2>2, <2>3 DEF Pairs, Counted, Users, D!Name
  <2>6. AtName(an["info"], nf["info"], 0, Counted, 5, 0)'
    BY <1>1, <1>2, <2>2, <2>4, <2>5 DEF AtName, Counted, Users
  <2>7. InfoPut
    <3>1. Carried(an["info"])' = 0
      <4>1. PICK B : B = an'["info"]
        OBVIOUS
      <4>2. AtName(B, 1, 0, Counted, 5, 0)
        BY <2>2, <2>4, <4>1 DEF AtName
      <4>3. Carried(B) = 0
        BY <4>2, CarriedFacts
      <4> QED
        BY <4>1, <4>3 DEF Carried
    <3> QED
      BY <1>1, <1>2, <2>3, <2>4, <3>1 DEF InfoPut, Base
  <2> QED
    BY <1>0, <1>1, <1>2, <2>2, <2>3, <2>4, <2>6, <2>7 DEF InfoInv
<1> QED
  BY <1>4, <1>5, <1>6, <1>7 DEF D!fileinfo_client_send_head, Send, Recv

(* The name of f, where there is room for its size too, or else in a       *)
(* package of its own.                                                     *)
LEMMA NameFits ==
    ASSUME DirAssumption, FilesType, NEW f \in D!Files, NEW A,
           NEW num \in Nat, NEW fs \in Seq(D!Field), NEW len \in 5..PACKAGE_SIZE,
           NEW m \in 0..Number, AtName(A, f, num, fs, len, m),
           2 + files[f].len <= PACKAGE_SIZE - len
    PROVE  \E B : /\ Fits(A, D!Name(f), "none", B)
                  /\ \E ln \in Nat, gs \in Seq(D!Field) : AtSize(B, f, num, gs, ln, m)
<1>0. "info" \in D!Tasks /\ Number \in Nat /\ PACKAGE_SIZE \in Nat
  BY DEF DirAssumption, D!FileDataAssumption, D!AnalysisAssumption, D!Tasks
<1> DEFINE fld == D!Name(f)
<1>1. PICK l \in Nat \ {0} : l = files[f].len
  BY FileFacts
<1>2. /\ f \in Nat \ {0} /\ fld \in D!Field /\ D!Size(fld) = 1 + l
      /\ Counted \in Seq(D!Field)
  BY <1>1, FileFacts, CountedFacts
<1>3. /\ A = Filling("info", num, fs, len, Counted, 5)
      /\ m < f /\ Len(fs) = 3 + 2 * m /\ Pairs(fs, f - m, m)
  BY DEF AtName
<1> HIDE DEF fld
<1>4. PICK gs \in Seq(D!Field) : gs = Append(fs, fld)
  BY <1>2, AppendFacts
<1>5. D!Size(fld) <= PACKAGE_SIZE - len /\ 5 <= len /\ 5 \in Nat /\ len \in Nat
  BY <1>0, <1>1, <1>2, SMTT(40)
<1>6. PICK ln \in Nat : ln = len + D!Size(fld)
  BY <1>2, <1>5
<1>7. Fits(A, fld, "none", Filling("info", num, gs, ln, Counted, 5))
  BY <1>0, <1>2, <1>3, <1>4, <1>5, <1>6, NextPacked
<1>8. Len(fs) + 1 = 4 + 2 * m /\ f - m \in Int /\ m \in Nat
  BY <1>2, <1>3, SMTT(40)
<1>9. Len(gs) = 4 + 2 * m /\ gs[4 + 2 * m] = fld
  BY <1>2, <1>4, <1>8, AppendFacts
<1>10. Pairs(gs, f - m, m)
  BY <1>2, <1>3, <1>4, <1>8, PairsAppend
<1>11. ln > 5 /\ ln < PACKAGE_SIZE
  <2>1. ln = len + (1 + l) /\ 2 + l <= PACKAGE_SIZE - len
    BY <1>1, <1>2, <1>6
  <2> QED
    BY <1>0, <1>5, <2>1
<1>12. AtSize(Filling("info", num, gs, ln, Counted, 5), f, num, gs, ln, m)
  BY <1>3, <1>9, <1>10, <1>11 DEF AtSize, fld
<1> QED
  BY <1>7, <1>12 DEF fld

LEMMA NameOpens ==
    ASSUME DirAssumption, FilesType, NEW f \in D!Files, NEW A,
           NEW num \in Nat, NEW fs \in Seq(D!Field), NEW len \in 5..PACKAGE_SIZE,
           NEW m \in 0..Number, AtName(A, f, num, fs, len, m),
           2 + files[f].len > PACKAGE_SIZE - len
    PROVE  \E B : /\ Opens(A, D!Name(f), "new", B) /\ A.p \in Good /\ A.p.type = "info"
                  /\ First(A.p) = f - m /\ Final(A.p) = f - 1
                  /\ \E ln \in Nat, gs \in Seq(D!Field) : AtSize(B, f, num + 1, gs, ln, 0)
<1>0. "info" \in D!Tasks /\ Number \in Nat /\ PACKAGE_SIZE \in Nat
  BY DEF DirAssumption, D!FileDataAssumption, D!AnalysisAssumption, D!Tasks
<1> DEFINE fld == D!Name(f)
<1>1. PICK l \in Nat \ {0} : l = files[f].len
  BY FileFacts
<1>2. /\ f \in Nat \ {0} /\ fld \in D!Field /\ D!Size(fld) = 1 + l /\ 7 + l < PACKAGE_SIZE
      /\ Counted \in Seq(D!Field) /\ Len(Counted) = 3 /\ Pairs(Counted, f, 0)
  BY <1>1, FileFacts, CountedFacts
<1>3. /\ A = Filling("info", num, fs, len, Counted, 5)
      /\ m < f /\ Len(fs) = 3 + 2 * m /\ Pairs(fs, f - m, m)
      /\ IF m = 0 THEN f = 1 /\ len = 5 ELSE len # 5
  BY DEF AtName
<1> HIDE DEF fld
<1>4. PICK gs \in Seq(D!Field) : gs = Append(Counted, fld)
  BY <1>2, AppendFacts
<1>5. m # 0 /\ len # 5 /\ len \in Nat /\ 5 \in Nat /\ D!Size(fld) <= PACKAGE_SIZE - 5
  <2>1. 2 + l > PACKAGE_SIZE - len /\ 7 + l < PACKAGE_SIZE /\ len \in Int
    BY <1>1, <1>2
  <2>2. len # 5 /\ 1 + l <= PACKAGE_SIZE - 5
    BY <1>0, <2>1
  <2> QED
    BY <1>2, <1>3, <2>2
<1>6. PICK ln \in Nat : ln = 5 + D!Size(fld)
  BY <1>2
<1>7. Opens(A, fld, "new", Filling("info", num + 1, gs, ln, Counted, 5))
  BY <1>0, <1>2, <1>3, <1>4, <1>5, <1>6, NewPacked
<1>8. /\ A.p \in Good /\ A.p.type = "info"
      /\ First(A.p) = f - m /\ Final(A.p) = f - 1
  <2>1. A.p = Pkg("info", num, fs, "normal")
    BY <1>3 DEF Filling
  <2>2. m \in 1..Number /\ f \in 1..(Number + 1)
    BY <1>0, <1>5 DEF D!Files
  <2> QED
    BY <1>3, <2>1, <2>2, GoodInfo, SMTT(40)
<1>9. Len(Counted) + 1 = 4 /\ f \in Int /\ 0 \in Nat
  BY <1>2
<1>10. Len(gs) = 4 /\ gs[4] = fld
  <2>1. Len(gs) = Len(Counted) + 1 /\ gs[Len(Counted) + 1] = fld
    BY <1>2, <1>4, AppendFacts
  <2> QED
    BY <1>9, <2>1
<1>11. Pairs(gs, f, 0)
  BY <1>2, <1>4, <1>9, PairsAppend
<1>12. ln > 5 /\ ln < PACKAGE_SIZE /\ 4 + 2 * 0 = 4 /\ f - 0 = f /\ 0 < f
  <2>1. ln = 5 + (1 + l) /\ 7 + l < PACKAGE_SIZE
    BY <1>2, <1>6
  <2> QED
    BY <1>0, <1>2, <2>1
<1>13. AtSize(Filling("info", num + 1, gs, ln, Counted, 5), f, num + 1, gs, ln, 0)
  BY <1>10, <1>11, <1>12 DEF AtSize, fld
<1> QED
  BY <1>7, <1>8, <1>13 DEF fld

LEMMA AtKept ==
    ASSUME files' = files, NEW B, NEW f, NEW num, NEW fs, NEW len, NEW m
    PROVE  /\ AtSize(B, f, num, fs, len, m)' = AtSize(B, f, num, fs, len, m)
           /\ AtName(B, f, num, fs, len, m)' = AtName(B, f, num, fs, len, m)
BY DEF AtSize, AtName, Counted, Users, Pairs, D!Name

LEMMA InfoNameStep ==
    ASSUME DirAssumption, FilesType, SenderType, InfoInv, D!fileinfo_client_send_name
    PROVE  InfoInv' /\ Aside("info") /\ InfoPut
<1>0. "info" \in D!Tasks /\ Number \in Nat /\ PACKAGE_SIZE \in Nat
  BY DEF DirAssumption, D!FileDataAssumption, D!AnalysisAssumption, D!Tasks
<1>1. PICK f, A : f = nf["info"] /\ A = an["info"]
  OBVIOUS
<1>2. PICK sign : sign = IF 2 + files[f].len > A.remain_len THEN "new" ELSE "none"
  OBVIOUS
<1>3. f \in D!Files /\ D!Call("info", "name", "size") /\ D!pack("info", D!Name(f), sign)
      /\ nf' = nf
  BY <1>1, <1>2 DEF D!fileinfo_client_send_name
<1>4. call["info"] = "name" /\ call'["info"] = "size" /\ Aside("info")
  BY <1>0, <1>3, CallKeeps, PackKeeps DEF Aside, SenderType
<1>5. PICK num \in Nat, fs \in Seq(D!Field), len \in 5..PACKAGE_SIZE, m \in 0..Number :
        AtName(A, f, num, fs, len, m)
  BY <1>1, <1>4 DEF InfoInv
<1>6. A.remain_len = PACKAGE_SIZE - len
  BY <1>5 DEF AtName, Filling
<1>7. files[f].len \in Nat /\ f \in 1..(Number + 1)
  BY <1>1, <1>3, FileFacts DEF InfoInv
<1>20. Base = f - m
  BY <1>1, <1>4, <1>5, CarriedFacts DEF Base
<1>21. ASSUME NEW B, NEW nu, NEW gs, NEW ln, NEW z \in Nat, an'["info"] = B,
              AtSize(B, f, nu, gs, ln, z)
       PROVE  Base' = f - z
  <2>1. Carried(B) = z
    BY <1>21, CarriedFacts
  <2> QED
    BY <1>1, <1>3, <1>4, <1>21, <2>1 DEF Base, Carried
<1>8. \E B : /\ an'["info"] = B /\ InfoPut
             /\ \E nu \in Nat, gs \in Seq(D!Field), ln \in Nat, z \in 0..Number :
                    AtSize(B, f, nu, gs, ln, z)
  <2>1. CASE 2 + files[f].len <= PACKAGE_SIZE - len
    <3>1. PICK B : /\ Fits(A, D!Name(f), "none", B)
                   /\ \E ln \in Nat, gs \in Seq(D!Field) : AtSize(B, f, num, gs, ln, m)
      BY <1>3, <1>5, <2>1, NameFits
    <3>2. sign = "none"
      BY <1>0, <1>2, <1>6, <1>7, <2>1
    <3>4. an'["info"] = B /\ way' = way
      BY <1>0, <1>1, <1>3, <3>1, <3>2, PackKeeps DEF Fits
    <3>5. Base' = f - m
      BY <1>0, <1>21, <3>1, <3>4
    <3>3. an'["info"] = B /\ InfoPut
      BY <1>20, <3>4, <3>5 DEF InfoPut
    <3> QED
      BY <3>1, <3>3
  <2>2. CASE 2 + files[f].len > PACKAGE_SIZE - len
    <3>1. PICK B : /\ Opens(A, D!Name(f), "new", B) /\ A.p \in Good /\ A.p.type = "info"
                   /\ First(A.p) = f - m /\ Final(A.p) = f - 1
                   /\ \E ln \in Nat, gs \in Seq(D!Field) : AtSize(B, f, num + 1, gs, ln, 0)
      BY <1>3, <1>5, <2>2, NameOpens
    <3>2. sign = "new"
      BY <1>0, <1>2, <1>6, <1>7, <2>2
    <3>5. an'["info"] = B /\ way' = Append(way, A.p)
      BY <1>0, <1>1, <1>3, <3>1, <3>2, PackKeeps DEF Opens
    <3>6. Base' = f
      <4>1. Base' = f - 0
        BY <1>21, <3>1, <3>5
      <4> QED
        BY <1>7, <4>1
    <3>3. an'["info"] = B /\ InfoPut
      BY <1>1, <1>20, <3>1, <3>5, <3>6 DEF InfoPut
    <3>4. num + 1 \in Nat /\ 0 \in 0..Number
      BY <1>0
    <3> QED
      BY <3>1, <3>3, <3>4
  <2> QED
    BY <1>0, <1>7, <2>1, <2>2
<1>9. PICK B : /\ an'["info"] = B /\ InfoPut
               /\ \E nu \in Nat, gs \in Seq(D!Field), ln \in Nat, z \in 0..Number :
                    AtSize(B, f, nu, gs, ln, z)
  BY <1>8
<1>10. PICK nu \in Nat, gs \in Seq(D!Field), ln \in Nat, z \in 0..Number :
            AtSize(B, f, nu, gs, ln, z)
  BY <1>9
<1>11. AtSize(an["info"], nf["info"], nu, gs, ln, z)'
  BY <1>1, <1>3, <1>4, <1>9, <1>10, AtKept DEF Aside
<1>12. nf'["info"] = f
  BY <1>1, <1>3
<1> QED
  BY <1>3, <1>4, <1>7, <1>9, <1>11, <1>12 DEF InfoInv, D!Files

(* The size of f ends its pair.                                            *)
LEMMA SizeFits ==
    ASSUME DirAssumption, FilesType, NEW f \in D!Files, NEW A,
           NEW num \in Nat, NEW fs \in Seq(D!Field), NEW len \in Nat,
           NEW m \in 0..Number, AtSize(A, f, num, fs, len, m)
    PROVE  \E B : /\ Fits(A, D!IntField(files[f].size), "none", B)
                  /\ \E ln \in 5..PACKAGE_SIZE, gs \in Seq(D!Field) :
                        AtName(B, f + 1, num, gs, ln, m + 1)
<1>0. "info" \in D!Tasks /\ Number \in Nat /\ PACKAGE_SIZE \in Nat
  BY DEF DirAssumption, D!FileDataAssumption, D!AnalysisAssumption, D!Tasks
<1> DEFINE fld == D!IntField(files[f].size)
<1>1. f \in Nat \ {0} /\ fld \in D!Field /\ D!Size(fld) = 1 /\ Counted \in Seq(D!Field)
  BY FileFacts, CountedFacts
<1>2. /\ A = Filling("info", num, fs, len, Counted, 5)
      /\ m < f /\ Len(fs) = 4 + 2 * m /\ Pairs(fs, f - m, m) /\ fs[4 + 2 * m] = D!Name(f)
      /\ len > 5 /\ len < PACKAGE_SIZE
  BY DEF AtSize
<1> HIDE DEF fld
<1>3. PICK gs \in Seq(D!Field) : gs = Append(fs, fld)
  BY <1>1, AppendFacts
<1>4. PICK ln \in 5..PACKAGE_SIZE : ln = len + 1
  BY <1>0, <1>2
<1>5. D!Size(fld) <= PACKAGE_SIZE - len /\ 5 <= len /\ 5 \in Nat
  BY <1>0, <1>1, <1>2
<1>6. Fits(A, fld, "none", Filling("info", num, Append(fs, fld), len + D!Size(fld), Counted, 5))
  BY <1>0, <1>1, <1>2, <1>5, NextPacked
<1>7. Fits(A, fld, "none", Filling("info", num, gs, ln, Counted, 5))
  BY <1>1, <1>3, <1>4, <1>6
<1>8. PICK lo \in Int : lo = f - m
  BY <1>1
<1>9. /\ Len(gs) = Len(fs) + 1 /\ gs[Len(fs) + 1] = fld /\ m \in Nat
      /\ \A i \in 1..Len(fs) : gs[i] = fs[i]
  BY <1>1, <1>3, AppendFacts
<1>10. Len(gs) = 5 + 2 * m /\ gs[5 + 2 * m] = fld /\ gs[4 + 2 * m] = D!Name(f)
  <2>1. Len(fs) + 1 = 5 + 2 * m /\ 4 + 2 * m \in 1..Len(fs)
    BY <1>2, <1>9
  <2> QED
    BY <1>2, <1>9, <2>1
<1>11. Pairs(gs, lo, m)
  BY <1>1, <1>2, <1>3, <1>8, <1>9, PairsAppend
<1>12. Pairs(gs, lo, m + 1)
  <2>1. Len(gs) >= 3 + 2 * (m + 1)
    BY <1>9, <1>10
  <2>2. ASSUME NEW j \in 0..((m + 1) - 1)
        PROVE  gs[4 + 2 * j] = D!Name(lo + j) /\ gs[5 + 2 * j] = D!IntField(files[lo + j].size)
    <3>1. CASE j = m
      <4>1. lo + j = f
        BY <1>1, <1>8, <1>9, <3>1
      <4> QED
        BY <1>10, <3>1, <4>1 DEF fld
    <3>2. CASE j # m
      <4>1. j \in 0..(m - 1)
        BY <1>9, <3>2
      <4> QED
        BY <1>11, <4>1 DEF Pairs
    <3> QED
      BY <3>1, <3>2
  <2> QED
    BY <1>11, <2>1, <2>2 DEF Pairs
<1>13. /\ m + 1 < f + 1 /\ Len(gs) = 3 + 2 * (m + 1) /\ (f + 1) - (m + 1) = lo /\ m + 1 # 0
       /\ ln # 5
  BY <1>1, <1>2, <1>4, <1>8, <1>9, <1>10
<1>14. AtName(Filling("info", num, gs, ln, Counted, 5), f + 1, num, gs, ln, m + 1)
  BY <1>12, <1>13 DEF AtName
<1> QED
  BY <1>7, <1>14 DEF fld

LEMMA InfoSizeStep ==
    ASSUME DirAssumption, FilesType, SenderType, InfoInv, D!fileinfo_client_send_size
    PROVE  InfoInv' /\ Aside("info") /\ InfoPut
<1>0. "info" \in D!Tasks /\ Number \in Nat /\ PACKAGE_SIZE \in Nat
  BY DEF DirAssumption, D!FileDataAssumption, D!AnalysisAssumption, D!Tasks
<1>1. PICK f, A : f = nf["info"] /\ A = an["info"]
  OBVIOUS
<1>2. D!Call("info", "size", "name") /\ D!pack("info", D!IntField(files[f].size), "none")
      /\ nf' = [nf EXCEPT !["info"] = @ + 1]
  BY <1>1 DEF D!fileinfo_client_send_size
<1>3. call["info"] = "size" /\ call'["info"] = "name" /\ Aside("info")
  BY <1>0, <1>2, CallKeeps, PackKeeps DEF Aside, SenderType
<1>4. f \in D!Files
  BY <1>1, <1>3 DEF InfoInv
<1>5. PICK num \in Nat, fs \in Seq(D!Field), len \in Nat, m \in 0..Number :
        AtSize(A, f, num, fs, len, m)
  BY <1>1, <1>3 DEF InfoInv
<1>6. PICK B : /\ Fits(A, D!IntField(files[f].size), "none", B)
               /\ \E ln \in 5..PACKAGE_SIZE, gs \in Seq(D!Field) :
                        AtName(B, f + 1, num, gs, ln, m + 1)
  BY <1>4, <1>5, SizeFits
<1>7. an'["info"] = B /\ way' = way
  BY <1>0, <1>1, <1>2, <1>6, PackKeeps DEF Fits
<1>8. PICK ln \in 5..PACKAGE_SIZE, gs \in Seq(D!Field) : AtName(B, f + 1, num, gs, ln, m + 1)
  BY <1>6
<1>9. nf'["info"] = f + 1
  BY <1>0, <1>1, <1>2 DEF SenderType
<1>10. AtName(an["info"], nf["info"], num, gs, ln, m + 1)'
  BY <1>3, <1>7, <1>8, <1>9, AtKept DEF Aside
<1>11. m < f
  BY <1>5 DEF AtSize
<1>12. f + 1 \in 1..(Number + 1) /\ m + 1 \in 0..Number
  BY <1>0, <1>4, <1>11 DEF D!Files
<1>13. InfoPut
  <2>1. Carried(A) = m /\ Carried(B) = m + 1
    BY <1>5, <1>8, CarriedFacts
  <2>2. Base = f - m /\ Base' = (f + 1) - (m + 1)
    BY <1>1, <1>3, <1>7, <1>9, <2>1 DEF Base, Carried
  <2>3. f - m = (f + 1) - (m + 1)
    BY <1>0, <1>4 DEF D!Files
  <2> QED
    BY <1>7, <2>2, <2>3 DEF InfoPut
<1> QED
  BY <1>3, <1>7, <1>9, <1>10, <1>12, <1>13 DEF InfoInv

LEMMA InfoEndStep ==
    ASSUME DirAssumption, FilesType, SenderType, InfoInv, D!fileinfo_client_send_finish
    PROVE  InfoInv' /\ Aside("info") /\ InfoPut
<1>0. "info" \in D!Tasks /\ Number \in Nat \ {0} /\ PACKAGE_SIZE \in Nat
  BY DEF DirAssumption, D!FileDataAssumption, D!AnalysisAssumption, D!Tasks
<1>1. PICK f, A : f = nf["info"] /\ A = an["info"]
  OBVIOUS
<1>2. /\ D!Call("info", "name", "over") /\ D!end("info", "finish") /\ nf' = nf
      /\ f \notin D!Files
  BY <1>1 DEF D!fileinfo_client_send_finish
<1>3. /\ call["info"] = "name" /\ call'["info"] = "over" /\ Aside("info")
      /\ way' = Append(way, D!analysis_last(A, "finish"))
  BY <1>0, <1>1, <1>2, CallKeeps, EndKeeps DEF Aside, SenderType
<1>4. f \in 1..(Number + 1) /\ f = Number + 1
  BY <1>0, <1>1, <1>2 DEF InfoInv, D!Files
<1>5. PICK num \in Nat, fs \in Seq(D!Field), len \in 5..PACKAGE_SIZE, m \in 0..Number :
        AtName(A, f, num, fs, len, m)
  BY <1>1, <1>3 DEF InfoInv
<1>6. /\ A = Filling("info", num, fs, len, Counted, 5)
      /\ m < f /\ Len(fs) = 3 + 2 * m /\ Pairs(fs, f - m, m)
      /\ m \in 1..Number
  BY <1>0, <1>4, <1>5 DEF AtName
<1>8. PICK x : x = D!analysis_last(A, "finish")
  OBVIOUS
<1>7. x \in Good /\ x.type = "info" /\ First(x) = f - m /\ Final(x) = f - 1
  <2>1. D!analysis_last(A, "finish") = Pkg("info", num, fs, "finish")
    BY <1>0, <1>6, LastPacked
  <2> QED
    BY <1>4, <1>6, <1>8, <2>1, GoodInfo
<1>9. InfoPut
  <2>1. Base = f - m
    BY <1>1, <1>3, <1>5, CarriedFacts DEF Base
  <2>2. Base' = f
    BY <1>0, <1>1, <1>2, <1>3, <1>4 DEF Base
  <2> QED
    BY <1>1, <1>3, <1>7, <1>8, <2>1, <2>2 DEF InfoPut
<1> QED
  BY <1>1, <1>2, <1>3, <1>4, <1>9 DEF InfoInv

LEMMA InfoStep ==
    ASSUME DirAssumption, FilesType, SenderType, InfoInv, D!fileinfo_client_send
    PROVE  InfoInv' /\ Aside("info") /\ InfoPut
BY InfoHeadStep, InfoNameStep, InfoSizeStep, InfoEndStep DEF D!fileinfo_client_send

-----------------------------------------------------------------------------
(* On the way and at the server: every package is one that was put         *)

(* G are the packages the sender puts.                                     *)
TransitOf(G) ==
    /\ way \in Seq(G) /\ sorted \in [D!Tasks -> Seq(G)] /\ q_recv \in [D!Tasks -> Seq(G)]
    /\ DOMAIN hand = D!Tasks
    /\ \A x \in D!Tasks : \A i \in DOMAIN sorted[x] : sorted[x][i].type = x
    /\ \A x \in D!Tasks : place[x] # "get" => hand[x] \in G /\ hand[x].type = x

DirInv ==
    FilesType /\ SenderType /\ DirData /\ InfoInv /\ UserInv /\ TransitOf(Good)

LEMMA GoodKept == files' = files => Good' = Good
<1> SUFFICES ASSUME files' = files
             PROVE  Good' = Good
  OBVIOUS
<1>1. ASSUME NEW x
      PROVE  DataOK(x)' = DataOK(x) /\ InfoOK(x)' = InfoOK(x)
  BY DEF DataOK, InfoOK, Pairs, Block, Prefix, Named, Users, D!Name, D!BlockSize
<1> QED
  BY <1>1 DEF Good

LEMMA HeadTail ==
    ASSUME NEW S, NEW s \in Seq(S), s # <<>>
    PROVE  /\ Head(s) = s[1] /\ Head(s) \in S /\ Tail(s) \in Seq(S) /\ 1 \in DOMAIN s
           /\ Len(s) \in Nat \ {0} /\ Len(Tail(s)) = Len(s) - 1
           /\ DOMAIN Tail(s) = 1..(Len(s) - 1)
           /\ \A i \in DOMAIN Tail(s) : i + 1 \in DOMAIN s /\ Tail(s)[i] = s[i + 1]
OBVIOUS

LEMMA AppendOne ==
    ASSUME NEW S, NEW s \in Seq(S), NEW e \in S
    PROVE  /\ Append(s, e) \in Seq(S) /\ Len(s) \in Nat /\ DOMAIN s = 1..Len(s)
           /\ Len(Append(s, e)) = Len(s) + 1 /\ DOMAIN Append(s, e) = 1..(Len(s) + 1)
           /\ \A i \in DOMAIN Append(s, e) :
                Append(s, e)[i] = IF i = Len(s) + 1 THEN e ELSE s[i]
OBVIOUS

LEMMA InfoKept ==
    ASSUME InfoInv, files' = files, an'["info"] = an["info"], call'["info"] = call["info"],
           nf'["info"] = nf["info"]
    PROVE  InfoInv'
<1>1. PICK A, f : A = an["info"] /\ f = nf["info"]
  OBVIOUS
<1>2. ASSUME call["info"] = "name"
      PROVE  \E num \in Nat, fs \in Seq(D!Field), len \in 5..PACKAGE_SIZE, m \in 0..Number :
                AtName(an["info"], nf["info"], num, fs, len, m)'
  <2>1. PICK num \in Nat, fs \in Seq(D!Field), len \in 5..PACKAGE_SIZE, m \in 0..Number :
            AtName(A, f, num, fs, len, m)
    BY <1>1, <1>2 DEF InfoInv
  <2>2. AtName(an["info"], nf["info"], num, fs, len, m)'
    BY <1>1, <2>1, AtKept
  <2> QED
    BY <2>2
<1>3. ASSUME call["info"] = "size"
      PROVE  \E num \in Nat, fs \in Seq(D!Field), len \in Nat, m \in 0..Number :
                AtSize(an["info"], nf["info"], num, fs, len, m)'
  <2>1. PICK num \in Nat, fs \in Seq(D!Field), len \in Nat, m \in 0..Number :
            AtSize(A, f, num, fs, len, m)
    BY <1>1, <1>3 DEF InfoInv
  <2>2. AtSize(an["info"], nf["info"], num, fs, len, m)'
    BY <1>1, <2>1, AtKept
  <2> QED
    BY <2>2
<1> QED
  BY <1>2, <1>3 DEF InfoInv, Users

LEMMA TransitStep ==
    ASSUME DirAssumption, DirInv, [D!Next]_(D!vars)
    PROVE  FilesType' /\ SenderType' /\ DirData' /\ InfoInv' /\ TransitOf(Good)'
<1> DEFINE Goal == FilesType' /\ SenderType' /\ DirData' /\ InfoInv' /\ TransitOf(Good)'
           Still == UNCHANGED <<files, an, call, nf, nb>>
<1>0. PICK G : G = Good
  OBVIOUS
<1>1. ASSUME files' = files, TransitOf(G)'
      PROVE  FilesType' /\ TransitOf(Good)'
  BY <1>0, <1>1, GoodKept DEF TransitOf, DirInv, FilesType
<1>2. ASSUME Still, TransitOf(G)'
      PROVE  Goal
  <2>1. FilesType' /\ TransitOf(Good)' /\ SenderType'
    BY <1>1, <1>2 DEF DirInv, SenderType
  <2>2. DirData'
    BY <1>2 DEF DirInv, DirData, Block, Prefix, Named, Users, D!Name, D!BlockSize
  <2>3. InfoInv'
    BY <1>2, InfoKept DEF DirInv
  <2> QED
    BY <2>1, <2>2, <2>3
<1>3. TransitOf(G)
  BY <1>0 DEF DirInv
<1>4. D!fileinfo_client_send => Goal
  <2> SUFFICES ASSUME D!fileinfo_client_send
               PROVE  Goal
    OBVIOUS
  <2>1. InfoInv' /\ Aside("info") /\ Put("info")
    BY InfoStep DEF DirInv, InfoPut, Put
  <2>2. UNCHANGED <<sorted, place, hand, q_recv, files>> /\ nb' = nb
    BY SenderKeeps DEF D!server, D!fileinfo_client_send, D!fileinfo_client_send_head,
       D!fileinfo_client_send_name, D!fileinfo_client_send_size, D!fileinfo_client_send_finish
  <2>3. way' \in Seq(G)
    BY <1>0, <1>3, <2>1 DEF Put, TransitOf
  <2>4. TransitOf(G)'
    BY <1>3, <2>2, <2>3 DEF TransitOf
  <2>5. an'["data"] = an["data"] /\ call'["data"] = call["data"] /\ nf'["data"] = nf["data"]
    BY <2>1 DEF Aside, D!Tasks
  <2>6. DirData'
    BY <2>2, <2>5 DEF DirInv, DirData, Block, Prefix, Named, Users, D!Name, D!BlockSize
  <2> QED
    BY <1>1, <2>1, <2>2, <2>4, <2>6 DEF Aside
<1>5. D!filedata_client_send => Goal
  <2> SUFFICES ASSUME D!filedata_client_send
               PROVE  Goal
    OBVIOUS
  <2>1. DirData' /\ Aside("data") /\ Put("data")
    BY DataStep DEF DirInv
  <2>2. UNCHANGED <<sorted, place, hand, q_recv, files>>
    BY SenderKeeps DEF D!server
  <2>3. way' \in Seq(G)
    BY <1>0, <1>3, <2>1 DEF Put, TransitOf
  <2>4. TransitOf(G)'
    BY <1>3, <2>2, <2>3 DEF TransitOf
  <2>5. an'["info"] = an["info"] /\ call'["info"] = call["info"] /\ nf'["info"] = nf["info"]
    BY <2>1 DEF Aside, D!Tasks
  <2>6. InfoInv'
    BY <2>2, <2>5, InfoKept DEF DirInv
  <2> QED
    BY <1>1, <2>1, <2>2, <2>4, <2>6 DEF Aside
<1>6. D!Lose => Goal
  <2> SUFFICES ASSUME D!Lose
               PROVE  Goal
    OBVIOUS
  <2>1. way' \in Seq(G)
    BY <1>3, HeadTail DEF TransitOf, D!Lose
  <2> QED
    BY <1>2, <1>3, <2>1 DEF TransitOf, D!Lose, D!sender, D!server
<1>7. D!analysis_allocate => Goal
  <2> SUFFICES ASSUME D!analysis_allocate
               PROVE  Goal
    OBVIOUS
  <2>1. way # <<>> /\ way' = Tail(way) /\ Still /\ UNCHANGED <<place, hand, q_recv>>
        /\ sorted' = [sorted EXCEPT ![Head(way).type] = Append(@, Head(way))]
    BY DEF D!analysis_allocate, D!sender
  <2>2. way' \in Seq(G) /\ Head(way) \in G
    BY <1>3, <2>1, HeadTail DEF TransitOf
  <2>3. Head(way).type \in D!Tasks
    BY <1>0, <2>2 DEF Good, D!Package
  <2>4. sorted' \in [D!Tasks -> Seq(G)]
    BY <1>3, <2>1, <2>2, <2>3 DEF TransitOf
  <2>5. ASSUME NEW x \in D!Tasks, NEW i \in DOMAIN sorted'[x]
        PROVE  sorted'[x][i].type = x
    <3>1. CASE x # Head(way).type
      <4>1. sorted'[x] = sorted[x]
        BY <1>3, <2>1, <3>1 DEF TransitOf
      <4> QED
        BY <1>3, <2>5, <4>1 DEF TransitOf
    <3>2. CASE x = Head(way).type
      <4>1. PICK s \in Seq(G), e \in G : s = sorted[x] /\ e = Head(way)
        BY <1>3, <2>2 DEF TransitOf
      <4>2. sorted'[x] = Append(s, e)
        BY <1>3, <2>1, <3>2, <4>1 DEF TransitOf
      <4>3. i \in 1..(Len(s) + 1) /\ Len(s) \in Nat /\ DOMAIN s = 1..Len(s)
            /\ sorted'[x][i] = IF i = Len(s) + 1 THEN e ELSE s[i]
        BY <2>5, <4>2, AppendOne
      <4>4. i # Len(s) + 1 => i \in DOMAIN s
        BY <4>3
      <4> QED
        BY <1>3, <3>2, <4>1, <4>3, <4>4 DEF TransitOf
    <3> QED
      BY <3>1, <3>2
  <2> QED
    BY <1>2, <1>3, <2>1, <2>2, <2>4, <2>5 DEF TransitOf
<1>8. ASSUME NEW x \in D!Tasks, D!recv_get(x)
      PROVE  Goal
  <2>1. /\ sorted[x] # <<>> /\ Still /\ UNCHANGED <<way, q_recv>>
        /\ sorted' = [sorted EXCEPT ![x] = Tail(@)] /\ hand' = [hand EXCEPT ![x] = Head(sorted[x])]
        /\ \A o \in D!Tasks : o # x => place'[o] = place[o]
    BY <1>8 DEF D!recv_get, D!Goto, D!sender, DirInv, UserInv
  <2>2. PICK s \in Seq(G) : s = sorted[x]
    BY <1>3 DEF TransitOf
  <2>3. /\ Head(s) = s[1] /\ Head(s) \in G /\ Tail(s) \in Seq(G) /\ 1 \in DOMAIN s
        /\ \A i \in DOMAIN Tail(s) : i + 1 \in DOMAIN s /\ Tail(s)[i] = s[i + 1]
    BY <2>1, <2>2, HeadTail
  <2>4. sorted'[x] = Tail(s) /\ hand'[x] = Head(s) /\ Head(s).type = x
        /\ \A i \in DOMAIN Tail(s) : Tail(s)[i].type = x
    BY <1>3, <2>1, <2>2, <2>3 DEF TransitOf
  <2>5. /\ sorted' \in [D!Tasks -> Seq(G)] /\ DOMAIN hand' = D!Tasks
        /\ \A o \in D!Tasks : o # x => sorted'[o] = sorted[o] /\ hand'[o] = hand[o]
    BY <1>3, <2>1, <2>2, <2>3 DEF TransitOf
  <2>7. ASSUME NEW o \in D!Tasks, NEW i \in DOMAIN sorted'[o]
        PROVE  sorted'[o][i].type = o
    <3>1. CASE o = x
      BY <2>4, <2>7, <3>1
    <3>2. CASE o # x
      BY <1>3, <2>5, <2>7, <3>2 DEF TransitOf
    <3> QED
      BY <3>1, <3>2
  <2>8. ASSUME NEW o \in D!Tasks, place'[o] # "get"
        PROVE  hand'[o] \in G /\ hand'[o].type = o
    <3>1. CASE o = x
      BY <2>3, <2>4, <3>1
    <3>2. CASE o # x
      BY <1>3, <2>1, <2>5, <2>8, <3>2 DEF TransitOf
    <3> QED
      BY <3>1, <3>2
  <2>6. TransitOf(G)'
    BY <1>3, <2>1, <2>5, <2>7, <2>8 DEF TransitOf
  <2> QED
    BY <1>2, <2>1, <2>6
<1>9. ASSUME NEW x \in D!Tasks, D!user_get_look(x) \/ D!user_get_make(x)
      PROVE  Goal
  <2>1. Still /\ UNCHANGED <<way, sorted, hand, q_recv>>
        /\ \A o \in D!Tasks : place'[o] # "get" => place[o] # "get"
    BY <1>9 DEF D!user_get_look, D!user_get_make, D!Goto, D!sender, DirInv, UserInv
  <2>2. TransitOf(G)'
    BY <1>3, <2>1 DEF TransitOf
  <2> QED
    BY <1>2, <2>1, <2>2
<1>10. ASSUME NEW x \in D!Tasks, D!recv_put(x)
       PROVE  Goal
  <2>1. /\ Still /\ UNCHANGED <<way, sorted, hand>> /\ place[x] = "put"
        /\ q_recv' = [q_recv EXCEPT ![found[x]] = Append(@, hand[x])]
        /\ \A o \in D!Tasks : place'[o] # "get" => place[o] # "get"
    BY <1>10 DEF D!recv_put, D!Goto, D!sender, DirInv, UserInv
  <2>2. found[x] \in D!Tasks /\ hand[x] \in G
    BY <1>3, <2>1 DEF TransitOf, DirInv, UserInv
  <2>3. q_recv' \in [D!Tasks -> Seq(G)]
    BY <1>3, <2>1, <2>2 DEF TransitOf
  <2>4. TransitOf(G)'
    BY <1>3, <2>1, <2>3 DEF TransitOf
  <2> QED
    BY <1>2, <2>1, <2>4
<1>11. D!fileinfo_client_recv \/ D!filedata_client_recv => Goal
  <2> SUFFICES ASSUME D!fileinfo_client_recv \/ D!filedata_client_recv
               PROVE  Goal
    OBVIOUS
  <2>1. /\ user # NULL /\ q_recv[user] # <<>> /\ Still /\ UNCHANGED <<way, sorted, hand, place>>
        /\ q_recv' = [q_recv EXCEPT ![user] = Tail(@)]
    BY DEF D!fileinfo_client_recv, D!filedata_client_recv, D!Arrived, D!Taken, D!sender
  <2>2. user \in D!Tasks
    BY <2>1 DEF DirInv, UserInv
  <2>3. Tail(q_recv[user]) \in Seq(G)
    BY <1>3, <2>1, <2>2, HeadTail DEF TransitOf
  <2>4. q_recv' \in [D!Tasks -> Seq(G)]
    BY <1>3, <2>1, <2>2, <2>3 DEF TransitOf
  <2>5. TransitOf(G)'
    BY <1>3, <2>1, <2>4 DEF TransitOf
  <2> QED
    BY <1>2, <2>1, <2>5
<1>12. UNCHANGED D!vars => Goal
  BY <1>2, <1>3 DEF D!vars, D!sender, D!server, TransitOf
<1> HIDE DEF Goal
<1>13. Goal
  BY <1>4, <1>5, <1>6, <1>7, <1>8, <1>9, <1>10, <1>11, <1>12, DirSteps
<1> QED
  BY <1>13 DEF Goal

LEMMA DirInvariance ==
    ASSUME DirAssumption
    PROVE  D!Spec => []DirInv
<1>1. D!Init => DirInv
  <2> SUFFICES ASSUME D!Init
               PROVE  DirInv
    OBVIOUS
  <2>1. UserInv
    BY DEF DirAssumption, D!FileDataAssumption, D!Init, UserInv, Spots
  <2>2. FilesType /\ SenderType
    BY DEF D!Init, FilesType, SenderType
  <2>3. 1 \in 1..(Number + 1)
    BY DEF DirAssumption, D!FileDataAssumption
  <2>4. DirData /\ InfoInv
    BY <2>3 DEF D!Init, DirData, InfoInv, D!Tasks
  <2>5. TransitOf(Good)
    BY DEF D!Init, TransitOf
  <2> QED
    BY <2>1, <2>2, <2>4, <2>5 DEF DirInv
<1>2. DirInv /\ [D!Next]_(D!vars) => DirInv'
  BY TransitStep, UserInvStep DEF DirInv
<1> QED
  BY <1>1, <1>2, PTL DEF D!Spec

-----------------------------------------------------------------------------
(* The receiver's files                                                    *)

LEMMA DivFacts ==
    ASSUME NEW n \in Nat, NEW d \in Nat \ {0}
    PROVE  /\ n \div d \in Nat /\ n % d \in 0..(d - 1) /\ n = (n \div d) * d + (n % d)
<1> DEFINE k == n \div d
<1>1. k \in Int /\ n % d \in 0..(d - 1) /\ n = d * k + (n % d) /\ k >= 0
  OBVIOUS
<1>2. d * k = k * d
  <2> HIDE DEF k
  <2> QED
    BY <1>1
<1> QED
  BY <1>1, <1>2

LEMMA Greater == \A i \in Nat, j \in Nat, d \in Nat \ {0} : i < j => i * d + d <= j * d
<1> SUFFICES ASSUME NEW i \in Nat, NEW j \in Nat, NEW d \in Nat \ {0}, i + 1 <= j
             PROVE  i * d + d <= j * d
  OBVIOUS
<1>1. (i + 1) * d <= j * d /\ (i + 1) * d = i * d + d
  OBVIOUS
<1> QED
  BY <1>1

(* Blocks of length d of a file of s bytes: a block that starts before the *)
(* end is one of them, one that starts at the end shows that s is a        *)
(* multiple of d, and every byte is in one of them.                        *)
LEMMA BlockCount ==
    ASSUME NEW s \in Nat \ {0}, NEW d \in Nat \ {0}
    PROVE  /\ (s - 1) \div d \in Nat
           /\ \A i \in Nat : i * d <= s => i < (s - 1) \div d + 1 \/ s % d = 0
           /\ \A y \in 0..(s - 1) : y \div d \in 0..((s - 1) \div d)
<1>0. s - 1 \in Nat
  OBVIOUS
<1>1. PICK m \in Nat, r \in 0..(d - 1) : m = (s - 1) \div d /\ s - 1 = m * d + r
  BY <1>0, DivFacts
<1>2. \A i \in Nat : i * d \in Nat
  OBVIOUS
<1>3. ASSUME NEW i \in Nat, i * d <= s, ~(i < m + 1)
      PROVE  s % d = 0
  <2>1. PICK y \in Nat, z \in Nat : y = i * d /\ z = m * d
    BY <1>2
  <2>2. m < i
    BY <1>3
  <2>3. z + d <= y
    BY <2>1, <2>2, Greater
  <2>4. s = y
    BY <1>1, <1>3, <2>1, <2>3
  <2>5. PICK k \in Nat, e \in 0..(d - 1) : k = s \div d /\ e = s % d /\ s = k * d + e
    BY DivFacts
  <2>6. PICK x \in Nat : x = k * d
    BY <1>2
  <2>7. ~(k < i)
    <3> SUFFICES ASSUME k < i PROVE FALSE
      OBVIOUS
    <3>1. x + d <= y
      BY <2>1, <2>6, Greater
    <3> QED
      BY <2>4, <2>5, <2>6, <3>1
  <2>8. ~(i < k)
    <3> SUFFICES ASSUME i < k PROVE FALSE
      OBVIOUS
    <3>1. y + d <= x
      BY <2>1, <2>6, Greater
    <3> QED
      BY <2>4, <2>5, <2>6, <3>1
  <2>9. k = i
    BY <2>7, <2>8
  <2> QED
    BY <2>1, <2>4, <2>5, <2>6, <2>9
<1>4. ASSUME NEW y \in 0..(s - 1)
      PROVE  y \div d \in 0..m
  <2>0. y \in Nat
    OBVIOUS
  <2>1. PICK k \in Nat, e \in 0..(d - 1) : k = y \div d /\ y = k * d + e
    BY <2>0, DivFacts
  <2>2. PICK x \in Nat, z \in Nat : x = k * d /\ z = m * d
    BY <1>2
  <2>3. ~(m < k)
    <3> SUFFICES ASSUME m < k PROVE FALSE
      OBVIOUS
    <3>1. z + d <= x
      BY <2>2, Greater
    <3> QED
      BY <1>1, <2>1, <2>2, <3>1
  <2> QED
    BY <2>1, <2>3
<1> QED
  BY <1>1, <1>3, <1>4

LEMMA BlockFields ==
    ASSUME DirAssumption, FilesType, NEW f \in D!Files, NEW i \in Nat
    PROVE  /\ Len(Prefix(f)) = 4 /\ Len(Block(f, i)) = 5
           /\ Block(f, i)[3].value = f /\ Block(f, i)[4].value = files[f].size
           /\ Block(f, i)[5].value = i /\ Block(f, i)[5].len = D!BlockSize(f)
<1> DEFINE sz == D!IntField(files[f].size)
           fld == D!StrField(i, D!BlockSize(f))
<1>1. /\ Users \in Seq(D!Field) /\ Named(f) \in Seq(D!Field) /\ Prefix(f) \in Seq(D!Field)
      /\ D!Name(f) \in D!Field /\ sz \in D!Field /\ fld \in D!Field /\ Recv \in D!Field
      /\ <<Send>> \in Seq(D!Field) /\ Len(<<Send>>) = 1
  BY FileFacts, FieldFacts, GoodData
<1>2. /\ D!Name(f).value = f /\ sz.value = files[f].size
      /\ fld.value = i /\ fld.len = D!BlockSize(f)
  BY DEF D!Name, D!StrField, D!IntField
<1> HIDE DEF sz, fld
<1>3. Len(Users) = 2
  BY <1>1, AppendFacts DEF Users
<1>4. Len(Named(f)) = 3 /\ Named(f)[3] = D!Name(f)
  <2>1. Len(Named(f)) = Len(Users) + 1 /\ Named(f)[Len(Users) + 1] = D!Name(f)
    BY <1>1, AppendFacts DEF Named
  <2> QED
    BY <1>3, <2>1
<1>5. Len(Prefix(f)) = 4 /\ Prefix(f)[3] = D!Name(f) /\ Prefix(f)[4] = sz
  <2>1. /\ Len(Prefix(f)) = Len(Named(f)) + 1 /\ Prefix(f)[Len(Named(f)) + 1] = sz
        /\ \A j \in 1..Len(Named(f)) : Prefix(f)[j] = Named(f)[j]
    BY <1>1, AppendFacts DEF Prefix, sz
  <2>2. 3 \in 1..3
    OBVIOUS
  <2> QED
    BY <1>4, <2>1, <2>2
<1>6. /\ Len(Block(f, i)) = 5 /\ Block(f, i)[3] = D!Name(f) /\ Block(f, i)[4] = sz
      /\ Block(f, i)[5] = fld
  <2>1. /\ Len(Block(f, i)) = Len(Prefix(f)) + 1 /\ Block(f, i)[Len(Prefix(f)) + 1] = fld
        /\ \A j \in 1..Len(Prefix(f)) : Block(f, i)[j] = Prefix(f)[j]
    BY <1>1, AppendFacts DEF Block, fld
  <2>2. 3 \in 1..4 /\ 4 \in 1..4
    OBVIOUS
  <2> QED
    BY <1>5, <2>1, <2>2
<1> QED
  BY <1>2, <1>5, <1>6

BlocksOf(f) == 0..(D!Blocknum(files[f].size, D!BlockSize(f)) - 1)

(* What was written of a file whose length is no multiple of the block is  *)
(* what belongs there.                                                     *)
Correct(f, data) == DOMAIN data \subseteq BlocksOf(f) /\ \A i \in DOMAIN data : data[i] = i

WholeInv ==
    /\ DOMAIN open = D!Files /\ DOMAIN done = D!Files
    /\ \A f \in D!Files : ~D!Multiple(f) =>
        /\ open[f] # NULL => /\ Correct(f, open[f].data)
                             /\ open[f].num = Cardinality(DOMAIN open[f].data)
        /\ done[f] # NULL => Correct(f, done[f]) /\ DOMAIN done[f] = BlocksOf(f)

LEMMA BlocksFacts ==
    ASSUME DirAssumption, FilesType, NEW f \in D!Files
    PROVE  /\ D!Blocknum(files[f].size, D!BlockSize(f)) \in Nat \ {0}
           /\ IsFiniteSet(BlocksOf(f))
           /\ Cardinality(BlocksOf(f)) = D!Blocknum(files[f].size, D!BlockSize(f))
           /\ \A i \in Nat : i * D!BlockSize(f) <= files[f].size =>
                i < D!Blocknum(files[f].size, D!BlockSize(f)) \/ D!Multiple(f)
           /\ \A y \in 0..(files[f].size - 1) : y \div D!BlockSize(f) \in BlocksOf(f)
<1>1. PICK s \in Nat \ {0}, d \in Nat \ {0} : s = files[f].size /\ d = D!BlockSize(f)
  BY FileFacts
<1>2. PICK m \in Nat : m = (s - 1) \div d
  BY BlockCount
<1>3. /\ \A i \in Nat : i * d <= s => i < m + 1 \/ s % d = 0
      /\ \A y \in 0..(s - 1) : y \div d \in 0..m
  BY <1>2, BlockCount
<1>4. D!Blocknum(files[f].size, D!BlockSize(f)) = m + 1
  BY <1>1, <1>2 DEF D!Blocknum
<1>5. BlocksOf(f) = 0..m
  BY <1>4 DEF BlocksOf
<1>6. IsFiniteSet(0..m) /\ Cardinality(0..m) = m + 1
  BY FS_Interval
<1>7. D!Multiple(f) <=> s % d = 0
  BY <1>1 DEF D!Multiple
<1> QED
  BY <1>1, <1>3, <1>4, <1>5, <1>6, <1>7

(* A file that was renamed into place has all its bytes: DoneWhole.        *)
LEMMA WholeDone == DirAssumption /\ FilesType /\ WholeInv => D!DoneWhole
<1> SUFFICES ASSUME DirAssumption, FilesType, WholeInv,
                    NEW f \in D!Files, done[f] # NULL, ~D!Multiple(f),
                    NEW y \in 0..(files[f].size - 1)
             PROVE  /\ (y \div D!BlockSize(f)) \in DOMAIN done[f]
                    /\ done[f][y \div D!BlockSize(f)] = y \div D!BlockSize(f)
  BY DEF D!DoneWhole
<1>1. y \div D!BlockSize(f) \in BlocksOf(f)
  BY BlocksFacts
<1> QED
  BY <1>1 DEF WholeInv, Correct

(* What the first package of the receiver's queue is when it has the five  *)
(* fields of a block.                                                      *)
LEMMA BlockArrived ==
    ASSUME DirAssumption, FilesType, NEW x \in Good, x.type = "data",
           D!Unpacked(x, <<"str", "str", "str", "int", "str">>) # <<>>
    PROVE  LET fields == D!Unpacked(x, <<"str", "str", "str", "int", "str">>) IN
           /\ x.id \in Nat
           /\ fields[3].value \in D!Files /\ fields[4].value = files[fields[3].value].size
           /\ fields[5].value = x.id /\ fields[5].len = D!BlockSize(fields[3].value)
           /\ x.id * D!BlockSize(fields[3].value) <= files[fields[3].value].size
<1> DEFINE fields == D!Unpacked(x, <<"str", "str", "str", "int", "str">>)
<1>1. x \in D!Package /\ DataOK(x)
  BY DEF Good
<1>2. x.id \in Nat
  BY <1>1 DEF D!Package
<1>3. fields = x.fields /\ Len(x.fields) >= 5
  BY DEF D!Unpacked
<1>4. PICK f \in D!Files :
            \/ x.fields = Prefix(f)
            \/ x.fields = Block(f, x.id) /\ x.id * D!BlockSize(f) <= files[f].size
  BY <1>1 DEF DataOK
<1>5. x.fields = Block(f, x.id) /\ x.id * D!BlockSize(f) <= files[f].size
  <2>1. Len(Prefix(f)) = 4
    BY <1>2, BlockFields
  <2>2. x.fields # Prefix(f)
    <3> SUFFICES ASSUME x.fields = Prefix(f) PROVE FALSE
      OBVIOUS
    <3>1. Len(x.fields) = 4
      BY <2>1
    <3> QED
      BY <1>3, <3>1
  <2> QED
    BY <1>4, <2>2
<1>6. /\ Block(f, x.id)[3].value = f /\ Block(f, x.id)[4].value = files[f].size
      /\ Block(f, x.id)[5].value = x.id /\ Block(f, x.id)[5].len = D!BlockSize(f)
  BY <1>2, BlockFields
<1> HIDE DEF fields
<1>7. fields[3].value = f
  BY <1>3, <1>5, <1>6
<1> QED
  BY <1>2, <1>3, <1>4, <1>5, <1>6, <1>7 DEF fields

(* A block that is in the cache or goes there.                             *)
LEMMA WrittenCorrect ==
    ASSUME DirAssumption, FilesType, NEW f \in D!Files, NEW c,
           Correct(f, c.data), c.num = Cardinality(DOMAIN c.data), NEW i \in BlocksOf(f)
    PROVE  LET w == D!Written(c, i, i)
           IN  /\ Correct(f, w.data) /\ w.num = Cardinality(DOMAIN w.data)
               /\ w.num = Cardinality(BlocksOf(f)) => DOMAIN w.data = BlocksOf(f)
<1> DEFINE W == D!Written(c, i, i)
           S == DOMAIN c.data
<1>1. W.num = (IF i \in S THEN c.num ELSE c.num + 1) /\ DOMAIN W.data = S \cup {i}
      /\ \A j \in S \cup {i} : W.data[j] = IF j = i THEN i ELSE c.data[j]
  BY DEF D!Written
<1>2. S \subseteq BlocksOf(f) /\ \A j \in S : c.data[j] = j
  BY DEF Correct
<1> HIDE DEF S, W
<1>3. IsFiniteSet(BlocksOf(f)) /\ S \in SUBSET BlocksOf(f) /\ S \cup {i} \in SUBSET BlocksOf(f)
  BY <1>2, BlocksFacts
<1>4. IsFiniteSet(S)
  BY <1>3, FS_Subset
<1>5. Cardinality(S \cup {i}) = IF i \in S THEN Cardinality(S) ELSE Cardinality(S) + 1
  BY <1>4, FS_AddElement
<1>6. Cardinality(S \cup {i}) = Cardinality(BlocksOf(f)) => S \cup {i} = BlocksOf(f)
  BY <1>3, FS_Subset
<1>7. W.num = Cardinality(S \cup {i})
  BY <1>1, <1>5 DEF S
<1> QED
  BY <1>1, <1>2, <1>3, <1>6, <1>7 DEF Correct, W

(* Steps other than the receiver's of a block leave the caches alone.      *)
LEMMA WholeKept ==
    ASSUME WholeInv, files' = files, open' = open, done' = done
    PROVE  WholeInv'
BY DEF WholeInv, Correct, BlocksOf, D!Multiple, D!BlockSize

LEMMA WholeRecv ==
    ASSUME DirAssumption, DirInv, WholeInv, D!filedata_client_recv
    PROVE  WholeInv'
<1> DEFINE fields == D!Unpacked(Head(q_recv[user]), <<"str", "str", "str", "int", "str">>)
<1>1. PICK x : x = Head(q_recv[user])
  OBVIOUS
<1>2. files' = files /\ user # NULL /\ q_recv[user] # <<>> /\ x.type = "data"
  BY <1>1 DEF D!filedata_client_recv, D!Arrived
<1>3. x \in Good
  <2>1. q_recv[user] \in Seq(Good)
    BY <1>2 DEF DirInv, UserInv, TransitOf
  <2> QED
    BY <1>1, <1>2, <2>1, HeadTail
<1>4. CASE fields = <<>>
  <2>1. open' = open /\ done' = done
    BY <1>4 DEF D!filedata_client_recv
  <2> QED
    BY <1>2, <2>1, WholeKept
<1>5. CASE fields # <<>>
  <2>1. PICK f, i, blocks : f = fields[3].value /\ i = x.id
            /\ blocks = D!Blocknum(fields[4].value, fields[5].len)
    OBVIOUS
  <2>2. /\ f \in D!Files /\ i \in Nat /\ fields[5].value = i
        /\ i * D!BlockSize(f) <= files[f].size
        /\ blocks = D!Blocknum(files[f].size, D!BlockSize(f))
    BY <1>1, <1>2, <1>3, <1>5, <2>1, BlockArrived DEF DirInv
  <2>3. FilesType
    BY DEF DirInv
  <2>4. i < blocks \/ D!Multiple(f)
    BY <2>2, <2>3, BlocksFacts
  <2>5. IF i < blocks
        THEN D!Closed(f, D!Written(D!Opened(f), i, i), blocks)
        ELSE \E count \in {0, 1} : D!Closed(f, [D!Opened(f) EXCEPT !.num = @ + count], blocks)
    BY <1>1, <1>5, <2>1, <2>2 DEF D!filedata_client_recv
  <2>6. PICK c : D!Closed(f, c, blocks) /\ (i < blocks => c = D!Written(D!Opened(f), i, i))
    BY <2>5
  <2>7. /\ DOMAIN open' = D!Files /\ DOMAIN done' = D!Files
        /\ \A g \in D!Files : g # f => open'[g] = open[g] /\ done'[g] = done[g]
        /\ open'[f] = IF c.num = blocks THEN NULL ELSE c
        /\ done'[f] = IF c.num = blocks THEN c.data ELSE done[f]
    BY <2>2, <2>6 DEF D!Closed, WholeInv
  <2>8. ASSUME ~D!Multiple(f)
        PROVE  /\ Correct(f, c.data) /\ c.num = Cardinality(DOMAIN c.data)
               /\ c.num = blocks => DOMAIN c.data = BlocksOf(f)
    <3>1. c = D!Written(D!Opened(f), i, i) /\ i \in BlocksOf(f)
      BY <2>2, <2>3, <2>4, <2>6, <2>8, BlocksFacts DEF BlocksOf
    <3>2. /\ Correct(f, D!Opened(f).data)
          /\ D!Opened(f).num = Cardinality(DOMAIN D!Opened(f).data)
      <4>1. CASE open[f] = NULL
        <5>1. D!Opened(f).num = 0 /\ DOMAIN D!Opened(f).data = {}
          BY <4>1 DEF D!Opened
        <5> QED
          BY <5>1, FS_EmptySet DEF Correct
      <4>2. CASE open[f] # NULL
        <5>1. D!Opened(f) = open[f]
          BY <4>2 DEF D!Opened
        <5> QED
          BY <2>2, <2>8, <4>2, <5>1 DEF WholeInv
      <4> QED
        BY <4>1, <4>2
    <3>3. Cardinality(BlocksOf(f)) = blocks
      BY <2>2, <2>3, BlocksFacts
    <3> QED
      BY <2>2, <2>3, <3>1, <3>2, <3>3, WrittenCorrect
  <2>9. ASSUME NEW g \in D!Files, ~D!Multiple(g)
        PROVE  /\ open'[g] # NULL => /\ Correct(g, open'[g].data)
                                     /\ open'[g].num = Cardinality(DOMAIN open'[g].data)
               /\ done'[g] # NULL => Correct(g, done'[g]) /\ DOMAIN done'[g] = BlocksOf(g)
    <3>1. CASE g # f
      BY <2>7, <2>9, <3>1 DEF WholeInv
    <3>2. CASE g = f
      <4>1. CASE c.num = blocks
        BY <2>2, <2>7, <2>8, <2>9, <3>2, <4>1 DEF WholeInv
      <4>2. CASE c.num # blocks
        BY <2>2, <2>7, <2>8, <2>9, <3>2, <4>2 DEF WholeInv
      <4> QED
        BY <4>1, <4>2
    <3> QED
      BY <3>1, <3>2
  <2> HIDE DEF fields
  <2> QED
    BY <1>2, <2>7, <2>9 DEF WholeInv, Correct, BlocksOf, D!Multiple, D!BlockSize
<1> QED
  BY <1>4, <1>5

LEMMA WholeStep ==
    ASSUME DirAssumption, DirInv, WholeInv, [D!Next]_(D!vars)
    PROVE  WholeInv'
<1>1. D!fileinfo_client_send => WholeInv'
  BY SenderKeeps, WholeKept DEF D!receiver
<1>2. D!filedata_client_send => WholeInv'
  BY SenderKeeps, WholeKept DEF D!receiver
<1>3. D!Lose \/ D!analysis_allocate \/ D!fileinfo_client_recv \/ UNCHANGED D!vars => WholeInv'
  BY WholeKept DEF D!receiver, D!Lose, D!analysis_allocate, D!fileinfo_client_recv, D!vars
<1>4. \A x \in D!Tasks : D!recv_get(x) \/ D!user_get_look(x) \/ D!user_get_make(x)
                            \/ D!recv_put(x) => WholeInv'
  BY WholeKept DEF D!receiver, D!recv_get, D!user_get_look, D!user_get_make, D!recv_put
<1>5. D!filedata_client_recv => WholeInv'
  BY WholeRecv
<1> QED
  BY <1>1, <1>2, <1>3, <1>4, <1>5, DirSteps

(* A file that the receiver renamed into place has every byte of the       *)
(* sender's, whatever was lost and whoever made the user, unless its size  *)
(* is a multiple of the block: DoneWhole of FileData.                      *)
THEOREM DirDoneWhole ==
    ASSUME DirAssumption
    PROVE  D!Spec => []D!DoneWhole
<1>1. D!Init => WholeInv
  BY DEF D!Init, WholeInv
<1>2. DirInv /\ WholeInv /\ [D!Next]_(D!vars) => WholeInv'
  BY WholeStep
<1>3. DirInv /\ WholeInv => D!DoneWhole
  BY WholeDone DEF DirInv
<1> QED
  BY <1>1, <1>2, <1>3, DirInvariance, PTL DEF D!Spec

-----------------------------------------------------------------------------
(* The list of files: the packages of fileinfo.c stay in order             *)

(* s holds files lo up to hi - 1 in order, and all of them if w.           *)
Stage(s, lo, hi, w) ==
    /\ s \in Seq(D!Package) /\ lo <= hi
    /\ \A i \in DOMAIN s : s[i].type = "info" =>
            /\ First(s[i]) \in lo..(hi - 1) /\ Final(s[i]) \in lo..(hi - 1)
            /\ First(s[i]) <= Final(s[i])
    /\ \A i, j \in DOMAIN s : i < j /\ s[i].type = "info" /\ s[j].type = "info" =>
            Final(s[i]) < First(s[j])
    /\ w => \A v \in lo..(hi - 1) : \E i \in DOMAIN s :
                s[i].type = "info" /\ First(s[i]) <= v /\ v <= Final(s[i])

LEMMA StageEmpty ==
    ASSUME NEW lo \in Int, NEW hi \in Int, NEW w
    PROVE  Stage(<<>>, lo, hi, w) <=> lo <= hi /\ (w => lo = hi)
<1>1. <<>> \in Seq(D!Package) /\ DOMAIN <<>> = {}
  OBVIOUS
<1>2. (\A v \in lo..(hi - 1) : FALSE) <=> ~(lo <= hi - 1)
  <2>1. lo <= hi - 1 => lo \in lo..(hi - 1)
    OBVIOUS
  <2> QED
    BY <2>1
<1> QED
  BY <1>1, <1>2 DEF Stage

LEMMA StageWeak ==
    ASSUME NEW s, NEW lo \in Int, NEW hi \in Int, NEW w, Stage(s, lo, hi, w),
           NEW z, z => w
    PROVE  Stage(s, lo, hi, z)
BY DEF Stage

(* Bounds may be moved apart where files may be missing.                   *)
LEMMA StageWider ==
    ASSUME NEW s, NEW lo \in Int, NEW hi \in Int, NEW l \in Int, NEW h \in Int,
           NEW w, l <= lo, hi <= h, Stage(s, lo, hi, w), ~w
    PROVE  Stage(s, l, h, w)
BY DEF Stage

LEMMA StageTail ==
    ASSUME NEW s, NEW lo \in Int, NEW hi \in Int, NEW w, Stage(s, lo, hi, w), s # <<>>
    PROVE  /\ Head(s) \in D!Package
           /\ Head(s).type # "info" => Stage(Tail(s), lo, hi, w)
           /\ Head(s).type = "info" =>
                /\ Stage(Tail(s), Final(Head(s)) + 1, hi, w)
                /\ First(Head(s)) \in lo..(hi - 1) /\ Final(Head(s)) \in lo..(hi - 1)
                /\ First(Head(s)) <= Final(Head(s)) /\ (w => First(Head(s)) = lo)
<1>1. PICK x, t : x = Head(s) /\ t = Tail(s)
  OBVIOUS
<1>2. /\ x = s[1] /\ x \in D!Package /\ t \in Seq(D!Package) /\ 1 \in DOMAIN s
      /\ \A i \in DOMAIN t : i \in Nat \ {0} /\ i + 1 \in DOMAIN s /\ t[i] = s[i + 1]
      /\ \A i \in DOMAIN s : i # 1 => i \in Nat \ {0, 1} /\ i - 1 \in DOMAIN t /\ t[i - 1] = s[i]
  BY <1>1 DEF Stage
<1>3. \A i, j \in DOMAIN t : i < j /\ t[i].type = "info" /\ t[j].type = "info" =>
            Final(t[i]) < First(t[j])
  BY <1>2, SMTT(40) DEF Stage
<1>4. ASSUME x.type # "info"
      PROVE  Stage(t, lo, hi, w)
  <2>1. ASSUME w, NEW v \in lo..(hi - 1)
        PROVE  \E i \in DOMAIN t : t[i].type = "info" /\ First(t[i]) <= v /\ v <= Final(t[i])
    <3>1. PICK i \in DOMAIN s : s[i].type = "info" /\ First(s[i]) <= v /\ v <= Final(s[i])
      BY <2>1 DEF Stage
    <3>2. i # 1
      BY <1>2, <1>4, <3>1
    <3> QED
      BY <1>2, <3>1, <3>2
  <2>2. /\ lo <= hi
        /\ \A i \in DOMAIN t : t[i].type = "info" =>
            /\ First(t[i]) \in lo..(hi - 1) /\ Final(t[i]) \in lo..(hi - 1)
            /\ First(t[i]) <= Final(t[i])
    BY <1>2 DEF Stage
  <2> QED
    BY <1>2, <1>3, <2>1, <2>2 DEF Stage
<1>5. ASSUME x.type = "info"
      PROVE  /\ Stage(t, Final(x) + 1, hi, w)
             /\ First(x) \in lo..(hi - 1) /\ Final(x) \in lo..(hi - 1) /\ First(x) <= Final(x)
             /\ w => First(x) = lo
  <2>1. First(x) \in lo..(hi - 1) /\ Final(x) \in lo..(hi - 1) /\ First(x) <= Final(x)
    BY <1>2, <1>5 DEF Stage
  <2>2. \A i \in DOMAIN s : i # 1 /\ s[i].type = "info" => Final(x) < First(s[i])
    BY <1>2, <1>5, SMTT(40) DEF Stage
  <2>3. \A i \in DOMAIN t : t[i].type = "info" =>
            /\ First(t[i]) \in (Final(x) + 1)..(hi - 1) /\ Final(t[i]) \in (Final(x) + 1)..(hi - 1)
            /\ First(t[i]) <= Final(t[i])
    <3> SUFFICES ASSUME NEW i \in DOMAIN t, t[i].type = "info"
                 PROVE  /\ First(t[i]) \in (Final(x) + 1)..(hi - 1)
                        /\ Final(t[i]) \in (Final(x) + 1)..(hi - 1)
                        /\ First(t[i]) <= Final(t[i])
      OBVIOUS
    <3>1. /\ First(t[i]) \in lo..(hi - 1) /\ Final(t[i]) \in lo..(hi - 1)
          /\ First(t[i]) <= Final(t[i])
      BY <1>2 DEF Stage
    <3>2. Final(x) < First(t[i])
      BY <1>2, <2>2
    <3> QED
      BY <2>1, <3>1, <3>2
  <2>4. ASSUME w, NEW v \in (Final(x) + 1)..(hi - 1)
        PROVE  \E i \in DOMAIN t : t[i].type = "info" /\ First(t[i]) <= v /\ v <= Final(t[i])
    <3>0. v \in lo..(hi - 1)
      BY <2>1
    <3>1. PICK i \in DOMAIN s : s[i].type = "info" /\ First(s[i]) <= v /\ v <= Final(s[i])
      BY <2>4, <3>0 DEF Stage
    <3>2. i # 1
      BY <1>2, <2>1, <3>1
    <3> QED
      BY <1>2, <3>1, <3>2
  <2>5. ASSUME w
        PROVE  First(x) = lo
    <3>1. lo \in lo..(hi - 1)
      BY <2>1
    <3>2. PICK i \in DOMAIN s : s[i].type = "info" /\ First(s[i]) <= lo /\ lo <= Final(s[i])
      BY <2>5, <3>1 DEF Stage
    <3>3. First(s[i]) \in lo..(hi - 1)
      BY <3>2 DEF Stage
    <3>4. i = 1
      BY <2>1, <2>2, <3>2, <3>3
    <3> QED
      BY <1>2, <2>1, <3>2, <3>4
  <2>6. Final(x) + 1 <= hi
    BY <2>1
  <2> QED
    BY <1>2, <1>3, <2>1, <2>3, <2>4, <2>5, <2>6 DEF Stage
<1> QED
  BY <1>1, <1>2, <1>4, <1>5

(* A package without files, or with those that come next, joins s.         *)
LEMMA StageJoin ==
    ASSUME NEW s, NEW x \in D!Package, s \in Seq(D!Package)
    PROVE  /\ Append(s, x) \in Seq(D!Package) /\ Len(s) + 1 \in Nat \ {0}
           /\ DOMAIN s = 1..Len(s) /\ DOMAIN Append(s, x) = 1..(Len(s) + 1)
           /\ Append(s, x)[Len(s) + 1] = x
           /\ \A i \in DOMAIN s : /\ i \in DOMAIN Append(s, x) /\ i < Len(s) + 1
                                 /\ Append(s, x)[i] = s[i]
           /\ \A i \in DOMAIN Append(s, x) : i # Len(s) + 1 => i \in DOMAIN s
<1>1. /\ Append(s, x) \in Seq(D!Package) /\ Len(s) \in Nat /\ DOMAIN s = 1..Len(s)
      /\ DOMAIN Append(s, x) = 1..(Len(s) + 1)
      /\ \A i \in DOMAIN Append(s, x) :
            Append(s, x)[i] = IF i = Len(s) + 1 THEN x ELSE s[i]
  BY AppendOne
<1> QED
  BY <1>1

LEMMA StageOther ==
    ASSUME NEW s, NEW lo \in Int, NEW hi \in Int, NEW w, Stage(s, lo, hi, w),
           NEW x \in D!Package, x.type # "info"
    PROVE  Stage(Append(s, x), lo, hi, w)
<1>1. PICK t, k : t = Append(s, x) /\ k = Len(s) + 1
  OBVIOUS
<1>2. /\ t \in Seq(D!Package) /\ k \in DOMAIN t /\ k \in Nat
      /\ t[k] = x /\ \A i \in DOMAIN s : i \in DOMAIN t /\ i < k /\ t[i] = s[i]
      /\ \A i \in DOMAIN t : i # k => i \in DOMAIN s
      /\ \A i \in DOMAIN t : i \in Nat /\ i <= k
  <2>1. s \in Seq(D!Package)
    BY DEF Stage
  <2> QED
    BY <1>1, <2>1, StageJoin
<1>3. \A i \in DOMAIN t : t[i].type = "info" => i \in DOMAIN s /\ t[i] = s[i]
  BY <1>2
<1>4. ASSUME w, NEW v \in lo..(hi - 1)
      PROVE  \E i \in DOMAIN t : t[i].type = "info" /\ First(t[i]) <= v /\ v <= Final(t[i])
  <2>1. PICK i \in DOMAIN s : s[i].type = "info" /\ First(s[i]) <= v /\ v <= Final(s[i])
    BY <1>4 DEF Stage
  <2> QED
    BY <1>2, <2>1
<1>5. \A i \in DOMAIN t : t[i].type = "info" =>
          /\ First(t[i]) \in lo..(hi - 1) /\ Final(t[i]) \in lo..(hi - 1)
          /\ First(t[i]) <= Final(t[i])
  BY <1>3 DEF Stage
<1>6. \A i, j \in DOMAIN t : i < j /\ t[i].type = "info" /\ t[j].type = "info" =>
          Final(t[i]) < First(t[j])
  BY <1>3 DEF Stage
<1> QED
  BY <1>1, <1>2, <1>4, <1>5, <1>6 DEF Stage

LEMMA StageAppend ==
    ASSUME NEW s, NEW lo \in Int, NEW hi \in Int, NEW w, Stage(s, lo, hi, w),
           NEW x \in D!Package, x.type = "info", First(x) \in Int, Final(x) \in Int,
           hi <= First(x), First(x) <= Final(x), w => First(x) = hi
    PROVE  Stage(Append(s, x), lo, Final(x) + 1, w)
<1>1. PICK t, k : t = Append(s, x) /\ k = Len(s) + 1
  OBVIOUS
<1>2. /\ t \in Seq(D!Package) /\ k \in DOMAIN t /\ k \in Nat
      /\ t[k] = x /\ \A i \in DOMAIN s : i \in DOMAIN t /\ i < k /\ t[i] = s[i]
      /\ \A i \in DOMAIN t : i # k => i \in DOMAIN s
      /\ \A i \in DOMAIN t : i \in Nat /\ i <= k
  <2>1. s \in Seq(D!Package)
    BY DEF Stage
  <2> QED
    BY <1>1, <2>1, StageJoin
<1>3. lo <= hi
  BY DEF Stage
<1>4. ASSUME NEW i \in DOMAIN s, s[i].type = "info"
      PROVE  /\ First(s[i]) \in lo..Final(x) /\ Final(s[i]) \in lo..Final(x)
             /\ First(s[i]) <= Final(s[i]) /\ Final(s[i]) < First(x)
  <2>1. /\ First(s[i]) \in lo..(hi - 1) /\ Final(s[i]) \in lo..(hi - 1)
        /\ First(s[i]) <= Final(s[i])
    BY <1>4 DEF Stage
  <2> QED
    BY <1>4, <2>1
<1>5. First(x) \in lo..Final(x) /\ Final(x) \in lo..Final(x)
  BY <1>3
<1>6. ASSUME w, NEW v \in lo..Final(x)
      PROVE  \E i \in DOMAIN t : t[i].type = "info" /\ First(t[i]) <= v /\ v <= Final(t[i])
  <2>1. CASE v < hi
    <3>1. v \in lo..(hi - 1)
      BY <2>1
    <3>2. PICK i \in DOMAIN s : s[i].type = "info" /\ First(s[i]) <= v /\ v <= Final(s[i])
      BY <1>6, <3>1 DEF Stage
    <3> QED
      BY <1>2, <3>2
  <2>2. CASE ~(v < hi)
    <3>1. First(x) <= v /\ v <= Final(x) /\ k \in DOMAIN t
      BY <1>2, <1>6, <2>2
    <3> QED
      BY <1>2, <3>1
  <2> QED
    BY <2>1, <2>2
<1>7. \A i, j \in DOMAIN s : i < j /\ s[i].type = "info" /\ s[j].type = "info" =>
          Final(s[i]) < First(s[j])
  BY DEF Stage
<1>8. ASSUME NEW i \in DOMAIN t, NEW j \in DOMAIN t, i < j, t[i].type = "info", t[j].type = "info"
      PROVE  Final(t[i]) < First(t[j])
  <2>1. i # k /\ i \in DOMAIN s /\ t[i] = s[i]
    BY <1>2, <1>8
  <2>2. CASE j = k
    BY <1>2, <1>4, <1>8, <2>1, <2>2
  <2>3. CASE j # k
    BY <1>2, <1>7, <1>8, <2>1, <2>3
  <2> QED
    BY <2>2, <2>3
<1>9. \A i \in DOMAIN t : t[i].type = "info" =>
          /\ First(t[i]) \in lo..Final(x) /\ Final(t[i]) \in lo..Final(x)
          /\ First(t[i]) <= Final(t[i])
  BY <1>2, <1>4, <1>5
<1>10. (Final(x) + 1) - 1 = Final(x) /\ lo <= Final(x) + 1
  BY <1>3
<1> QED
  BY <1>1, <1>2, <1>6, <1>8, <1>9, <1>10 DEF Stage

(* What fileinfo_client_recv makes of a package that holds files f to g.   *)
Entries(fl, f, g) == [i \in 1..(g - f + 1) |-> [name |-> f + i - 1, size |-> fl[f + i - 1].size]]

LEMMA InfoFields ==
    ASSUME DirAssumption, FilesType, NEW x \in Good, x.type = "info"
    PROVE  /\ x \in D!Package /\ First(x) \in D!Files /\ Final(x) \in D!Files
           /\ First(x) <= Final(x)
           /\ D!Unpacked(x, <<"str", "str">>) # <<>>
           /\ D!Unpacked(x, <<"str", "str", "int">>) = x.fields /\ x.fields # <<>>
           /\ D!Listed(x.fields) = Entries(files, First(x), Final(x))
<1>0. Number \in Nat
  BY DEF DirAssumption, D!FileDataAssumption
<1>1. x \in D!Package /\ x.fields \in Seq(D!Field)
  BY DEF Good, D!Package
<1>2. PICK lo \in D!Files, m \in 1..Number :
            lo + m <= Number + 1 /\ Len(x.fields) = 3 + 2 * m /\ Pairs(x.fields, lo, m)
  BY DEF Good, InfoOK
<1>3. PICK fs \in Seq(D!Field) : fs = x.fields
  BY <1>1
<1>4. /\ Len(fs) = 3 + 2 * m /\ DOMAIN fs = 1..(3 + 2 * m) /\ lo \in Nat \ {0} /\ m \in Nat \ {0}
      /\ fs[1] = Send /\ fs[2] = Recv /\ fs[3] = D!IntField(Number)
      /\ \A j \in 0..(m - 1) : /\ fs[4 + 2 * j] = D!Name(lo + j)
                               /\ fs[5 + 2 * j] = D!IntField(files[lo + j].size)
  <2>1. /\ Len(fs) = 3 + 2 * m /\ Len(fs) \in Nat /\ DOMAIN fs = 1..Len(fs)
        /\ lo \in Nat \ {0} /\ m \in Nat \ {0}
    BY <1>0, <1>2, <1>3 DEF D!Files
  <2>2. Pairs(fs, lo, m)
    BY <1>2, <1>3
  <2> QED
    BY <2>1, <2>2 DEF Pairs
<1>5. \A j \in 0..(m - 1) : /\ fs[4 + 2 * j].type = "str" /\ fs[4 + 2 * j].value = lo + j
                            /\ fs[5 + 2 * j].type = "int"
                            /\ fs[5 + 2 * j].value = files[lo + j].size
  <2>1. \A v : D!Name(v).type = "str" /\ D!Name(v).value = v
    BY DEF D!Name, D!StrField
  <2>2. \A v : D!IntField(v).type = "int" /\ D!IntField(v).value = v
    BY DEF D!IntField
  <2> QED
    BY <1>4, <2>1, <2>2
<1>6. First(x) = lo /\ Final(x) = lo + m - 1
  <2>1. 0 \in 0..(m - 1) /\ m - 1 \in 0..(m - 1) /\ 4 + 2 * 0 = 4 /\ lo + 0 = lo
        /\ 4 + 2 * (m - 1) = Len(fs) - 1 /\ lo + (m - 1) = lo + m - 1
    BY <1>4
  <2>2. fs[4].value = lo /\ fs[Len(fs) - 1].value = lo + m - 1
    BY <1>5, <2>1
  <2> QED
    BY <1>3, <2>2 DEF First, Final
<1>7. /\ First(x) \in D!Files /\ Final(x) \in D!Files /\ First(x) <= Final(x)
  BY <1>0, <1>2, <1>4, <1>6 DEF D!Files
<1>8. PICK t \in Seq({"int", "str"}) : /\ t = D!Types(fs) /\ Len(t) = 3 + 2 * m
                                       /\ t[1] = "str" /\ t[2] = "str" /\ t[3] = "int"
  <2>1. D!Types(fs) \in [1..(3 + 2 * m) -> {"int", "str"}]
    <3>1. \A i \in 1..(3 + 2 * m) : fs[i] \in D!Field
      BY <1>4
    <3>2. \A fld \in D!Field : fld.type \in {"int", "str"}
      BY DEF D!Field
    <3> QED
      BY <1>4, <3>1, <3>2 DEF D!Types
  <2>2. D!Types(fs) \in Seq({"int", "str"}) /\ Len(D!Types(fs)) = 3 + 2 * m
    BY <1>4, <2>1
  <2>3. /\ D!Types(fs)[1] = "str" /\ D!Types(fs)[2] = "str" /\ D!Types(fs)[3] = "int"
    BY <1>4 DEF D!Types, Send, Recv, D!StrField, D!IntField
  <2> QED
    BY <2>2, <2>3
<1>9. SubSeq(t, 1, 2) = <<"str", "str">> /\ SubSeq(t, 1, 3) = <<"str", "str", "int">>
  <2>1. /\ SubSeq(t, 1, 2) \in Seq({"int", "str"}) /\ Len(SubSeq(t, 1, 2)) = 2
        /\ SubSeq(t, 1, 2)[1] = "str" /\ SubSeq(t, 1, 2)[2] = "str"
        /\ SubSeq(t, 1, 3) \in Seq({"int", "str"}) /\ Len(SubSeq(t, 1, 3)) = 3
        /\ SubSeq(t, 1, 3)[1] = "str" /\ SubSeq(t, 1, 3)[2] = "str"
        /\ SubSeq(t, 1, 3)[3] = "int"
    BY <1>4, <1>8
  <2>2. /\ <<"str", "str">> \in Seq({"int", "str"}) /\ Len(<<"str", "str">>) = 2
        /\ <<"str", "str", "int">> \in Seq({"int", "str"}) /\ Len(<<"str", "str", "int">>) = 3
    OBVIOUS
  <2>3. /\ \A i \in 1..2 : SubSeq(t, 1, 2)[i] = <<"str", "str">>[i]
        /\ \A i \in 1..3 : SubSeq(t, 1, 3)[i] = <<"str", "str", "int">>[i]
    BY <2>1
  <2>4. SubSeq(t, 1, 2) = <<"str", "str">>
    BY <2>1, <2>2, <2>3, SeqEqual
  <2>5. SubSeq(t, 1, 3) = <<"str", "str", "int">>
    BY <2>1, <2>2, <2>3, SeqEqual
  <2> QED
    BY <2>4, <2>5
<1>10. fs # <<>> /\ Len(fs) >= 2 /\ Len(fs) >= 3
  BY <1>4
<1>11. Len(<<"str", "str">>) = 2 /\ Len(<<"str", "str", "int">>) = 3
  OBVIOUS
<1>12. D!Unpacked(x, <<"str", "str">>) = fs /\ D!Unpacked(x, <<"str", "str", "int">>) = fs
  BY <1>3, <1>8, <1>9, <1>10, <1>11 DEF D!Unpacked
<1> DEFINE pairs == { z \in 0..Len(fs) :
                        /\ 3 + 2 * z <= Len(fs)
                        /\ \A i \in 1..z : /\ fs[2 * i + 2].type = "str"
                                           /\ fs[2 * i + 3].type = "int" }
<1>13. \A i \in 1..m : /\ fs[2 * i + 2].type = "str" /\ fs[2 * i + 3].type = "int"
                       /\ fs[2 * i + 2].value = lo + i - 1
                       /\ fs[2 * i + 3].value = files[lo + i - 1].size
  <2> SUFFICES ASSUME NEW i \in 1..m
               PROVE  /\ fs[2 * i + 2].type = "str" /\ fs[2 * i + 3].type = "int"
                      /\ fs[2 * i + 2].value = lo + i - 1
                      /\ fs[2 * i + 3].value = files[lo + i - 1].size
    OBVIOUS
  <2>1. PICK j \in 0..(m - 1) : j = i - 1
    BY <1>4
  <2>2. 2 * i + 2 = 4 + 2 * j /\ 2 * i + 3 = 5 + 2 * j /\ lo + i - 1 = lo + j
    BY <1>4, <2>1
  <2> QED
    BY <1>5, <2>2
<1>14. pairs = 0..m
  <2>1. \A z \in pairs : z \in 0..m
    BY <1>4
  <2>2. \A z \in 0..m : z \in pairs
    BY <1>4, <1>13
  <2> QED
    BY <2>1, <2>2
<1>15. D!Max(0..m) = m
  <2>1. m \in 0..m /\ \A y \in 0..m : m >= y
    BY <1>4
  <2>2. D!Max(0..m) \in 0..m /\ \A y \in 0..m : D!Max(0..m) >= y
    BY <2>1 DEF D!Max
  <2>3. D!Max(0..m) >= m
    BY <2>1, <2>2
  <2> QED
    BY <1>4, <2>2, <2>3
<1>16. D!Listed(fs) = [i \in 1..m |-> [name |-> fs[2 * i + 2].value, size |-> fs[2 * i + 3].value]]
  BY <1>14, <1>15 DEF D!Listed
<1>17. (lo + m - 1) - lo + 1 = m
  BY <1>4
<1>18. D!Listed(fs) = Entries(files, lo, lo + m - 1)
  BY <1>13, <1>16, <1>17 DEF Entries
<1> QED
  BY <1>1, <1>3, <1>6, <1>7, <1>10, <1>12, <1>18

(* The list has files up to b - 1, with their sizes, in order, and all of  *)
(* them if w.                                                              *)
ListTo(l, fl, b, w) ==
    /\ l \in Seq([name: D!Files, size: Nat])
    /\ \A i \in DOMAIN l : l[i].name < b /\ l[i].size = fl[l[i].name].size
    /\ \A i, j \in DOMAIN l : i < j => l[i].name < l[j].name
    /\ w => \A v \in 1..(b - 1) : \E i \in DOMAIN l : l[i].name = v

LEMMA ListNames ==
    ASSUME Number \in Nat, NEW l \in Seq([name: D!Files, size: Nat])
    PROVE  /\ Len(l) \in Nat /\ DOMAIN l = 1..Len(l)
           /\ \A i \in DOMAIN l : l[i].name \in D!Files /\ l[i].name \in 1..Number
<1>1. Len(l) \in Nat /\ DOMAIN l = 1..Len(l)
  OBVIOUS
<1>2. \A i \in DOMAIN l : l[i] \in [name: D!Files, size: Nat]
  BY <1>1, ElementOfSeq
<1>3. \A e \in [name: D!Files, size: Nat] : e.name \in D!Files
  OBVIOUS
<1> QED
  BY <1>1, <1>2, <1>3 DEF D!Files

LEMMA ListWeak ==
    ASSUME NEW l, NEW fl, NEW b, NEW w, ListTo(l, fl, b, w), NEW z, z => w
    PROVE  ListTo(l, fl, b, z)
BY DEF ListTo

LEMMA ListJoin ==
    ASSUME Number \in Nat, NEW fl, \A v \in D!Files : fl[v].size \in Nat,
           NEW l, NEW b \in Int, NEW w, ListTo(l, fl, b, w),
           NEW f \in D!Files, NEW g \in D!Files, b <= f, f <= g, w => f = b
    PROVE  ListTo(l \o Entries(fl, f, g), fl, g + 1, w)
<1>1. f \in Int /\ g \in Int /\ 1 <= f /\ g <= Number
  BY DEF D!Files
<1>2. PICK n \in Nat, k \in Nat : n = Len(l) /\ k = g - f + 1
  BY <1>1, ListNames DEF ListTo
<1>3. n \in Nat /\ k \in Nat
  OBVIOUS
<1>4. PICK E \in Seq([name: D!Files, size: Nat]) :
            /\ E = Entries(fl, f, g) /\ Len(E) = k
            /\ \A i \in 1..k : E[i].name = f + i - 1 /\ E[i].size = fl[f + i - 1].size
  <2>1. \A i \in 1..k : f + i - 1 \in D!Files
    BY <1>1, <1>2, <1>3 DEF D!Files
  <2>2. Entries(fl, f, g) \in [1..k -> [name: D!Files, size: Nat]]
    BY <1>2, <2>1 DEF Entries
  <2>3. \A i \in 1..k : /\ Entries(fl, f, g)[i].name = f + i - 1
                        /\ Entries(fl, f, g)[i].size = fl[f + i - 1].size
    BY <1>2 DEF Entries
  <2>4. Entries(fl, f, g) \in Seq([name: D!Files, size: Nat]) /\ Len(Entries(fl, f, g)) = k
    <3>1. PICK R : R = [name: D!Files, size: Nat]
      OBVIOUS
    <3>2. PICK e : e = Entries(fl, f, g)
      OBVIOUS
    <3>3. e \in [1..k -> R]
      BY <2>2, <3>1, <3>2
    <3>4. e \in Seq(R) /\ Len(e) = k
      BY <1>3, <3>3
    <3> QED
      BY <3>1, <3>2, <3>4
  <2> QED
    BY <2>3, <2>4
<1>5. PICK t : t = l \o E
  OBVIOUS
<1>6. /\ t \in Seq([name: D!Files, size: Nat]) /\ DOMAIN t = 1..(n + k)
      /\ \A i \in 1..(n + k) : t[i] = IF i <= n THEN l[i] ELSE E[i - n]
      /\ DOMAIN l = 1..n
  <2>1. l \in Seq([name: D!Files, size: Nat])
    BY DEF ListTo
  <2> QED
    BY <1>2, <1>3, <1>4, <1>5, <2>1
<1>7. ASSUME NEW i \in 1..n
      PROVE  /\ t[i] = l[i] /\ t[i].name \in D!Files /\ t[i].name < f /\ t[i].name < b
             /\ t[i].size = fl[t[i].name].size
  <2>1. t[i] = l[i] /\ i \in DOMAIN l
    BY <1>3, <1>6
  <2>2. l[i].name \in D!Files /\ l[i].name < b /\ l[i].size = fl[l[i].name].size
    <3>1. l \in Seq([name: D!Files, size: Nat])
      BY DEF ListTo
    <3>2. l[i].name \in D!Files
      BY <2>1, <3>1, ListNames
    <3> QED
      BY <2>1, <3>2 DEF ListTo
  <2>3. l[i].name \in Int
    BY <2>2 DEF D!Files
  <2> QED
    BY <1>1, <2>1, <2>2, <2>3
<1>8. ASSUME NEW i \in (n + 1)..(n + k)
      PROVE  t[i].name = f + (i - n) - 1 /\ t[i].size = fl[t[i].name].size
  <2>1. PICK j \in 1..k : j = i - n
    BY <1>3
  <2>2. t[i] = E[j]
    BY <1>3, <1>6, <2>1, SMTT(40)
  <2> QED
    BY <1>4, <2>1, <2>2
<1>9. \A i \in DOMAIN t : i \in 1..n \/ i \in (n + 1)..(n + k)
  BY <1>3, <1>6
<1>10. \A i \in DOMAIN t : t[i].name < g + 1 /\ t[i].size = fl[t[i].name].size
  <2> SUFFICES ASSUME NEW i \in DOMAIN t
               PROVE  t[i].name < g + 1 /\ t[i].size = fl[t[i].name].size
    OBVIOUS
  <2>1. CASE i \in 1..n
    <3>1. t[i].name \in Int /\ t[i].name < f
      BY <1>7, <2>1 DEF D!Files
    <3> QED
      BY <1>1, <1>7, <2>1, <3>1
  <2>2. CASE i \in (n + 1)..(n + k)
    BY <1>1, <1>2, <1>8, <2>2, SMTT(40)
  <2> QED
    BY <1>9, <2>1, <2>2
<1>11. \A i, j \in DOMAIN t : i < j => t[i].name < t[j].name
  <2> SUFFICES ASSUME NEW i \in DOMAIN t, NEW j \in DOMAIN t, i < j
               PROVE  t[i].name < t[j].name
    OBVIOUS
  <2>1. CASE j \in 1..n
    <3>1. i \in 1..n
      BY <1>6, <2>1
    <3>2. i \in DOMAIN l /\ j \in DOMAIN l
      BY <1>6, <2>1, <3>1
    <3>3. l[i].name < l[j].name
      BY <3>2 DEF ListTo
    <3> QED
      BY <1>7, <2>1, <3>1, <3>3
  <2>2. CASE j \in (n + 1)..(n + k)
    <3>1. t[j].name = f + (j - n) - 1
      BY <1>8, <2>2
    <3>2. CASE i \in 1..n
      <4>1. t[i].name \in Int /\ t[i].name < f
        BY <1>7, <3>2 DEF D!Files
      <4> QED
        BY <1>1, <2>2, <3>1, <4>1
    <3>3. CASE i \in (n + 1)..(n + k)
      <4>1. t[i].name = f + (i - n) - 1
        BY <1>8, <3>3
      <4> QED
        BY <1>1, <2>2, <3>1, <3>3, <4>1
    <3> QED
      BY <1>9, <3>2, <3>3
  <2> QED
    BY <1>9, <2>1, <2>2
<1>12. ASSUME w, NEW v \in 1..((g + 1) - 1)
       PROVE  \E i \in DOMAIN t : t[i].name = v
  <2>1. CASE v < f
    <3>1. v \in 1..(b - 1)
      BY <1>1, <1>12, <2>1
    <3>2. PICK i \in DOMAIN l : l[i].name = v
      BY <1>12, <3>1 DEF ListTo
    <3>3. i \in 1..n /\ i \in DOMAIN t
      BY <1>3, <1>6, <3>2
    <3> QED
      BY <1>7, <3>2, <3>3
  <2>2. CASE ~(v < f)
    <3>1. PICK i \in Int : i = n + (v - f) + 1
      BY <1>1, <2>2
    <3>2. i \in (n + 1)..(n + k) /\ i \in DOMAIN t /\ f + (i - n) - 1 = v
      BY <1>1, <1>2, <1>6, <2>2, <3>1
    <3> QED
      BY <1>8, <3>2
  <2> QED
    BY <2>1, <2>2
<1>13. ListTo(t, fl, g + 1, w)
  BY <1>6, <1>10, <1>11, <1>12 DEF ListTo
<1> QED
  BY <1>4, <1>5, <1>13

(* A list in order and with all the files has each of them once.           *)
LEMMA ListFull ==
    ASSUME Number \in Nat, NEW l, NEW fl, NEW w, ListTo(l, fl, Number + 1, w), w
    PROVE  Len(l) = Number
<1>1. PICK n \in Nat : n = Len(l) /\ DOMAIN l = 1..n
  BY ListNames DEF ListTo
<1>2. \A i \in 1..n : l[i].name \in 1..Number
  BY <1>1, ListNames DEF ListTo
<1>3. \A i, j \in 1..n : i < j => l[i].name < l[j].name
  BY <1>1 DEF ListTo
<1>4. \A v \in 1..Number : \E i \in 1..n : l[i].name = v
  <2>1. (Number + 1) - 1 = Number
    OBVIOUS
  <2> QED
    BY <1>1, <2>1 DEF ListTo
<1> DEFINE name == [i \in 1..n |-> l[i].name]
<1>5. \A i, j \in 1..n : l[i].name = l[j].name => i = j
  <2> SUFFICES ASSUME NEW i \in 1..n, NEW j \in 1..n, l[i].name = l[j].name, i # j
               PROVE  FALSE
    OBVIOUS
  <2>1. i < j \/ j < i
    OBVIOUS
  <2>2. l[i].name \in Int /\ l[j].name \in Int
    BY <1>2
  <2> QED
    BY <1>3, <2>1, <2>2
<1>6. name \in Bijection(1..n, 1..Number)
  BY <1>2, <1>4, <1>5 DEF Bijection, Injection, Surjection, IsInjective
<1>7. IsFiniteSet(1..n) /\ Cardinality(1..n) = n /\ Cardinality(1..Number) = Number
  <2>1. 1 \in Int /\ n \in Int /\ Number \in Int
    OBVIOUS
  <2>2. /\ IsFiniteSet(1..n)
        /\ Cardinality(1..n) = IF 1 > n THEN 0 ELSE n - 1 + 1
        /\ Cardinality(1..Number) = IF 1 > Number THEN 0 ELSE Number - 1 + 1
    BY <2>1, FS_Interval
  <2> QED
    BY <2>2
<1> HIDE DEF name
<1>8. ExistsBijection(1..n, 1..Number)
  BY <1>6 DEF ExistsBijection
<1>9. Cardinality(1..n) = Cardinality(1..Number)
  BY <1>7, <1>8, FS_Bijection
<1> QED
  BY <1>1, <1>7, <1>9

(* The files up to top - 1: on the list, in the queue of the user in d, in *)
(* the hand of the server's thread, in its queue and on the way to it.     *)
Flow(l, fl, q1, q2, q3, q4, top, w) ==
    \E b1, b2, b3, b4 \in 1..(Number + 1) :
        /\ ListTo(l, fl, b1, w) /\ Stage(q1, b1, b2, w) /\ Stage(q2, b2, b3, w)
        /\ Stage(q3, b3, b4, w) /\ Stage(q4, b4, top, w)

LEMMA FlowWeak ==
    ASSUME Number \in Nat, NEW l, NEW fl, NEW q1, NEW q2, NEW q3, NEW q4,
           NEW top \in 1..(Number + 1), NEW w, Flow(l, fl, q1, q2, q3, q4, top, w),
           NEW z, z => w
    PROVE  Flow(l, fl, q1, q2, q3, q4, top, z)
<1>1. PICK b1, b2, b3, b4 \in 1..(Number + 1) :
        /\ ListTo(l, fl, b1, w) /\ Stage(q1, b1, b2, w) /\ Stage(q2, b2, b3, w)
        /\ Stage(q3, b3, b4, w) /\ Stage(q4, b4, top, w)
  BY DEF Flow
<1>2. /\ ListTo(l, fl, b1, z) /\ Stage(q1, b1, b2, z) /\ Stage(q2, b2, b3, z)
      /\ Stage(q3, b3, b4, z) /\ Stage(q4, b4, top, z)
  BY <1>1, ListWeak, StageWeak
<1> QED
  BY <1>2 DEF Flow

(* A package is lost on its way.                                           *)
LEMMA FlowLost ==
    ASSUME Number \in Nat, NEW l, NEW fl, NEW q1, NEW q2, NEW q3, NEW q4,
           NEW top \in 1..(Number + 1), NEW w, Flow(l, fl, q1, q2, q3, q4, top, w),
           q4 # <<>>, ~w
    PROVE  Flow(l, fl, q1, q2, q3, Tail(q4), top, w)
<1>1. PICK b1, b2, b3, b4 \in 1..(Number + 1) :
        /\ ListTo(l, fl, b1, w) /\ Stage(q1, b1, b2, w) /\ Stage(q2, b2, b3, w)
        /\ Stage(q3, b3, b4, w) /\ Stage(q4, b4, top, w)
  BY DEF Flow
<1>2. PICK x : x = Head(q4)
  OBVIOUS
<1>9. b1 \in Int /\ b2 \in Int /\ b3 \in Int /\ b4 \in Int /\ top \in Int
  OBVIOUS
<1>3. Stage(Tail(q4), b4, top, w)
  <2>1. CASE x.type = "info"
    <3>1. Stage(Tail(q4), Final(x) + 1, top, w) /\ Final(x) \in b4..(top - 1)
      BY <1>1, <1>2, <1>9, <2>1, StageTail
    <3>2. Final(x) + 1 \in Int /\ b4 <= Final(x) + 1 /\ top <= top
      BY <3>1
    <3> QED
      BY <1>9, <3>1, <3>2, StageWider
  <2>2. CASE x.type # "info"
    BY <1>1, <1>2, <1>9, <2>2, StageTail
  <2> QED
    BY <2>1, <2>2
<1> QED
  BY <1>1, <1>3 DEF Flow

(* A package is sorted, got, put into the user's queue.                    *)
LEMMA FlowSort ==
    ASSUME Number \in Nat, NEW l, NEW fl, NEW q1, NEW q2, NEW q3, NEW q4,
           NEW top \in 1..(Number + 1), NEW w, Flow(l, fl, q1, q2, q3, q4, top, w), q4 # <<>>
    PROVE  IF Head(q4).type = "info"
           THEN Flow(l, fl, q1, q2, Append(q3, Head(q4)), Tail(q4), top, w)
           ELSE Flow(l, fl, q1, q2, q3, Tail(q4), top, w)
<1>1. PICK b1, b2, b3, b4 \in 1..(Number + 1) :
        /\ ListTo(l, fl, b1, w) /\ Stage(q1, b1, b2, w) /\ Stage(q2, b2, b3, w)
        /\ Stage(q3, b3, b4, w) /\ Stage(q4, b4, top, w)
  BY DEF Flow
<1>2. PICK x : x = Head(q4)
  OBVIOUS
<1>9. b1 \in Int /\ b2 \in Int /\ b3 \in Int /\ b4 \in Int /\ top \in Int
  OBVIOUS
<1>3. CASE x.type = "info"
  <2>1. /\ x \in D!Package /\ Stage(Tail(q4), Final(x) + 1, top, w)
        /\ First(x) \in b4..(top - 1) /\ Final(x) \in b4..(top - 1)
        /\ First(x) <= Final(x) /\ (w => First(x) = b4)
    BY <1>1, <1>2, <1>9, <1>3, StageTail
  <2>2. Stage(Append(q3, x), b3, Final(x) + 1, w)
    BY <1>1, <1>3, <2>1, StageAppend
  <2>3. Final(x) + 1 \in 1..(Number + 1)
    BY <2>1
  <2> QED
    BY <1>1, <1>2, <1>3, <2>1, <2>2, <2>3 DEF Flow
<1>4. CASE x.type # "info"
  <2>1. Stage(Tail(q4), b4, top, w)
    BY <1>1, <1>2, <1>9, <1>4, StageTail
  <2> QED
    BY <1>1, <1>2, <1>4, <2>1 DEF Flow
<1> QED
  BY <1>3, <1>4

LEMMA FlowGot ==
    ASSUME Number \in Nat, NEW l, NEW fl, NEW q1, NEW q3, NEW q4,
           NEW top \in 1..(Number + 1), NEW w, Flow(l, fl, q1, <<>>, q3, q4, top, w),
           q3 # <<>>, Head(q3).type = "info"
    PROVE  Flow(l, fl, q1, <<Head(q3)>>, Tail(q3), q4, top, w)
<1>1. PICK b1, b2, b3, b4 \in 1..(Number + 1) :
        /\ ListTo(l, fl, b1, w) /\ Stage(q1, b1, b2, w) /\ Stage(<<>>, b2, b3, w)
        /\ Stage(q3, b3, b4, w) /\ Stage(q4, b4, top, w)
  BY DEF Flow
<1>2. PICK x : x = Head(q3)
  OBVIOUS
<1>9. b1 \in Int /\ b2 \in Int /\ b3 \in Int /\ b4 \in Int /\ top \in Int
  OBVIOUS
<1>3. /\ x \in D!Package /\ Stage(Tail(q3), Final(x) + 1, b4, w)
      /\ First(x) \in b3..(b4 - 1) /\ Final(x) \in b3..(b4 - 1)
      /\ First(x) <= Final(x) /\ (w => First(x) = b3)
  BY <1>1, <1>2, <1>9, StageTail
<1>4. Stage(Append(<<>>, x), b2, Final(x) + 1, w)
  <2>1. PICK e : e = <<>>
    OBVIOUS
  <2>2. Stage(e, b2, b3, w) /\ x.type = "info"
    BY <1>1, <1>2, <2>1
  <2>3. Stage(Append(e, x), b2, Final(x) + 1, w)
    BY <1>3, <1>9, <2>2, StageAppend
  <2> QED
    BY <2>1, <2>3
<1>5. Append(<<>>, x) = <<x>> /\ Final(x) + 1 \in 1..(Number + 1)
  BY <1>3
<1> QED
  BY <1>1, <1>2, <1>3, <1>4, <1>5 DEF Flow

LEMMA FlowPut ==
    ASSUME Number \in Nat, NEW l, NEW fl, NEW q1, NEW x, NEW q3, NEW q4,
           NEW top \in 1..(Number + 1), NEW w, Flow(l, fl, q1, <<x>>, q3, q4, top, w),
           x.type = "info"
    PROVE  Flow(l, fl, Append(q1, x), <<>>, q3, q4, top, w)
<1>1. PICK b1, b2, b3, b4 \in 1..(Number + 1) :
        /\ ListTo(l, fl, b1, w) /\ Stage(q1, b1, b2, w) /\ Stage(<<x>>, b2, b3, w)
        /\ Stage(q3, b3, b4, w) /\ Stage(q4, b4, top, w)
  BY DEF Flow
<1>2. <<x>> # <<>> /\ Head(<<x>>) = x /\ Tail(<<x>>) = <<>>
  OBVIOUS
<1>9. b1 \in Int /\ b2 \in Int /\ b3 \in Int /\ b4 \in Int /\ top \in Int
  OBVIOUS
<1>3. /\ x \in D!Package /\ Stage(<<>>, Final(x) + 1, b3, w)
      /\ First(x) \in b2..(b3 - 1) /\ Final(x) \in b2..(b3 - 1)
      /\ First(x) <= Final(x) /\ (w => First(x) = b2)
  BY <1>1, <1>2, <1>9, StageTail
<1>4. Stage(Append(q1, x), b1, Final(x) + 1, w) /\ Final(x) + 1 \in 1..(Number + 1)
  BY <1>1, <1>3, StageAppend
<1> QED
  BY <1>1, <1>3, <1>4 DEF Flow

(* A user that is not the one in d any more is forgotten.                  *)
LEMMA FlowDrop ==
    ASSUME Number \in Nat, NEW l, NEW fl, NEW q1, NEW q2, NEW q3, NEW q4,
           NEW top \in 1..(Number + 1), NEW w, Flow(l, fl, q1, q2, q3, q4, top, w), ~w
    PROVE  Flow(l, fl, q1, <<>>, q3, q4, top, w) /\ Flow(l, fl, <<>>, q2, q3, q4, top, w)
<1>1. PICK b1, b2, b3, b4 \in 1..(Number + 1) :
        /\ ListTo(l, fl, b1, w) /\ Stage(q1, b1, b2, w) /\ Stage(q2, b2, b3, w)
        /\ Stage(q3, b3, b4, w) /\ Stage(q4, b4, top, w)
  BY DEF Flow
<1>2. b1 <= b2 /\ b2 <= b3
  BY <1>1 DEF Stage
<1>3. Stage(<<>>, b1, b2, w) /\ Stage(<<>>, b2, b3, w)
  BY <1>2, StageEmpty
<1> QED
  BY <1>1, <1>3 DEF Flow

(* A package of the other type.                                            *)
LEMMA FlowOther ==
    ASSUME Number \in Nat, NEW l, NEW fl, NEW q1, NEW q2, NEW q3, NEW q4,
           NEW top \in 1..(Number + 1), NEW w, Flow(l, fl, q1, q2, q3, q4, top, w),
           NEW x \in D!Package, x.type # "info"
    PROVE  /\ Flow(l, fl, Append(q1, x), q2, q3, q4, top, w)
           /\ Flow(l, fl, q1, q2, q3, Append(q4, x), top, w)
<1>1. PICK b1, b2, b3, b4 \in 1..(Number + 1) :
        /\ ListTo(l, fl, b1, w) /\ Stage(q1, b1, b2, w) /\ Stage(q2, b2, b3, w)
        /\ Stage(q3, b3, b4, w) /\ Stage(q4, b4, top, w)
  BY DEF Flow
<1>2. Stage(Append(q1, x), b1, b2, w) /\ Stage(Append(q4, x), b4, top, w)
  BY <1>1, StageOther
<1> QED
  BY <1>1, <1>2 DEF Flow

(* The sender puts the package that follows.                               *)
LEMMA FlowSent ==
    ASSUME Number \in Nat, NEW l, NEW fl, NEW q1, NEW q2, NEW q3, NEW q4,
           NEW top \in 1..(Number + 1), NEW w, Flow(l, fl, q1, q2, q3, q4, top, w),
           NEW x \in D!Package, x.type = "info", First(x) = top, Final(x) \in D!Files,
           First(x) <= Final(x)
    PROVE  Flow(l, fl, q1, q2, q3, Append(q4, x), Final(x) + 1, w)
<1>1. PICK b1, b2, b3, b4 \in 1..(Number + 1) :
        /\ ListTo(l, fl, b1, w) /\ Stage(q1, b1, b2, w) /\ Stage(q2, b2, b3, w)
        /\ Stage(q3, b3, b4, w) /\ Stage(q4, b4, top, w)
  BY DEF Flow
<1>2. First(x) \in Int /\ Final(x) \in Int /\ top <= First(x)
  BY DEF D!Files
<1>3. Stage(Append(q4, x), b4, Final(x) + 1, w)
  BY <1>1, <1>2, StageAppend
<1> QED
  BY <1>1, <1>3 DEF Flow

(* The receiver takes a package.                                           *)
LEMMA FlowRead ==
    ASSUME Number \in Nat, NEW l, NEW fl, \A v \in D!Files : fl[v].size \in Nat,
           NEW q1, NEW q2, NEW q3, NEW q4,
           NEW top \in 1..(Number + 1), NEW w, Flow(l, fl, q1, q2, q3, q4, top, w), q1 # <<>>
    PROVE  IF Head(q1).type = "info"
           THEN Flow(l \o Entries(fl, First(Head(q1)), Final(Head(q1))), fl, Tail(q1),
                     q2, q3, q4, top, w)
           ELSE Flow(l, fl, Tail(q1), q2, q3, q4, top, w)
<1>1. PICK b1, b2, b3, b4 \in 1..(Number + 1) :
        /\ ListTo(l, fl, b1, w) /\ Stage(q1, b1, b2, w) /\ Stage(q2, b2, b3, w)
        /\ Stage(q3, b3, b4, w) /\ Stage(q4, b4, top, w)
  BY DEF Flow
<1>2. PICK x : x = Head(q1)
  OBVIOUS
<1>9. b1 \in Int /\ b2 \in Int /\ b3 \in Int /\ b4 \in Int /\ top \in Int
  OBVIOUS
<1>3. CASE x.type = "info"
  <2>1. /\ Stage(Tail(q1), Final(x) + 1, b2, w)
        /\ First(x) \in b1..(b2 - 1) /\ Final(x) \in b1..(b2 - 1)
        /\ First(x) <= Final(x) /\ (w => First(x) = b1)
    BY <1>1, <1>2, <1>9, <1>3, StageTail
  <2>2. /\ First(x) \in D!Files /\ Final(x) \in D!Files /\ b1 <= First(x)
        /\ Final(x) + 1 \in 1..(Number + 1)
    BY <2>1 DEF D!Files
  <2>3. ListTo(l \o Entries(fl, First(x), Final(x)), fl, Final(x) + 1, w)
    BY <1>1, <2>1, <2>2, ListJoin
  <2> QED
    BY <1>1, <1>2, <1>3, <2>1, <2>2, <2>3 DEF Flow
<1>4. CASE x.type # "info"
  <2>1. Stage(Tail(q1), b1, b2, w)
    BY <1>1, <1>2, <1>9, <1>4, StageTail
  <2> QED
    BY <1>1, <1>2, <1>4, <2>1 DEF Flow
<1> QED
  BY <1>3, <1>4

-----------------------------------------------------------------------------
(* The list of the receiver                                                *)

Queue == IF user = NULL THEN <<>> ELSE q_recv[user]
Handed == IF place["info"] = "get" THEN <<>> ELSE <<hand["info"]>>

(* Nothing was lost.                                                       *)
Whole == lost = 0 /\ ~twice

ListInv ==
    /\ lost \in Nat
    /\ Flow(list, files, Queue, Handed, sorted["info"], way, Base, Whole)

LEMMA BaseFacts ==
    ASSUME DirAssumption, InfoInv
    PROVE  Base \in 1..(Number + 1) /\ nf["info"] \in 1..(Number + 1)
<1>0. Number \in Nat
  BY DEF DirAssumption, D!FileDataAssumption
<1>1. PICK f \in 1..(Number + 1) : f = nf["info"]
  BY DEF InfoInv
<1>5. PICK A : A = an["info"]
  OBVIOUS
<1>2. CASE call["info"] = "name"
  <2>1. PICK num \in Nat, fs \in Seq(D!Field), len \in 5..PACKAGE_SIZE, m \in 0..Number :
            AtName(A, f, num, fs, len, m)
    BY <1>1, <1>2, <1>5 DEF InfoInv
  <2>2. Base = f - m
    BY <1>1, <1>2, <1>5, <2>1, CarriedFacts DEF Base
  <2>3. m < f
    BY <2>1 DEF AtName
  <2> QED
    BY <1>0, <1>1, <2>2, <2>3
<1>3. CASE call["info"] = "size"
  <2>1. PICK num \in Nat, fs \in Seq(D!Field), len \in Nat, m \in 0..Number :
            AtSize(A, f, num, fs, len, m)
    BY <1>1, <1>3, <1>5 DEF InfoInv
  <2>2. Base = f - m
    BY <1>1, <1>3, <1>5, <2>1, CarriedFacts DEF Base
  <2>3. m < f
    BY <2>1 DEF AtSize
  <2> QED
    BY <1>0, <1>1, <2>2, <2>3
<1>4. CASE call["info"] \notin {"name", "size"}
  BY <1>1, <1>4 DEF Base
<1> QED
  BY <1>2, <1>3, <1>4

LEMMA ListStep ==
    ASSUME DirAssumption, DirInv, ListInv, [D!Next]_(D!vars)
    PROVE  ListInv'
<1>0. Number \in Nat /\ Base \in 1..(Number + 1) /\ FilesType
      /\ \A v \in D!Files : files[v].size \in Nat
  BY BaseFacts, FileFacts DEF DirInv, DirAssumption, D!FileDataAssumption
<1>1. PICK q1, q2, q3, top, w : /\ q1 = Queue /\ q2 = Handed /\ q3 = sorted["info"]
                                /\ top = Base /\ w = Whole
  OBVIOUS
<1>2. Flow(list, files, q1, q2, q3, way, top, w) /\ top \in 1..(Number + 1) /\ lost \in Nat
  BY <1>0, <1>1 DEF ListInv
<1>3. /\ TransitOf(Good) /\ UserInv /\ InfoInv
      /\ \A x \in Good : x \in D!Package
  BY DEF DirInv, Good
<1> DEFINE Lands(l, p1, p2, p3, p4, c, z) ==
             /\ list' = l /\ files' = files /\ Queue' = p1 /\ Handed' = p2 /\ sorted'["info"] = p3
             /\ way' = p4 /\ Base' = c /\ lost' \in Nat /\ Whole' = z
<1>4. ASSUME NEW l, NEW p1, NEW p2, NEW p3, NEW p4, NEW c, NEW z,
             Lands(l, p1, p2, p3, p4, c, z), Flow(l, files, p1, p2, p3, p4, c, z)
      PROVE  ListInv'
  BY <1>4 DEF ListInv
<1> HIDE DEF Lands
<1>5. ASSUME UNCHANGED <<list, files, user, q_recv, place, hand, sorted, lost, twice>>
      PROVE  /\ list' = list /\ files' = files /\ Queue' = q1 /\ Handed' = q2
             /\ sorted'["info"] = q3 /\ lost' \in Nat /\ Whole' = w
  BY <1>1, <1>2, <1>5 DEF Queue, Handed, Whole
<1>6. ASSUME UNCHANGED <<call, nf, an>>
      PROVE  Base' = top
  BY <1>1, <1>6 DEF Base, Carried
<1>7. D!fileinfo_client_send => ListInv'
  <2> SUFFICES ASSUME D!fileinfo_client_send
               PROVE  ListInv'
    OBVIOUS
  <2>1. InfoPut
    BY InfoStep DEF DirInv
  <2>2. /\ list' = list /\ files' = files /\ Queue' = q1 /\ Handed' = q2
        /\ sorted'["info"] = q3 /\ lost' \in Nat /\ Whole' = w
    BY <1>5, SenderKeeps DEF D!server, D!receiver
  <2>3. CASE way' = way /\ Base' = Base
    BY <1>1, <1>2, <1>4, <2>2, <2>3 DEF Lands
  <2>4. ASSUME NEW x \in Good, x.type = "info", way' = Append(way, x),
               First(x) = Base, Final(x) = nf["info"] - 1, Base' = nf["info"]
        PROVE  ListInv'
    <3>1. x \in D!Package /\ Final(x) \in D!Files /\ First(x) <= Final(x)
      BY <1>0, <2>4, InfoFields
    <3>2. Base' = Final(x) + 1
      BY <1>0, <1>3, <2>4, BaseFacts
    <3>3. Flow(list, files, q1, q2, q3, Append(way, x), Final(x) + 1, w)
      BY <1>0, <1>1, <1>2, <2>4, <3>1, FlowSent
    <3> QED
      BY <1>4, <2>2, <2>4, <3>2, <3>3 DEF Lands
  <2> QED
    BY <2>1, <2>3, <2>4 DEF InfoPut
<1>8. D!filedata_client_send => ListInv'
  <2> SUFFICES ASSUME D!filedata_client_send
               PROVE  ListInv'
    OBVIOUS
  <2>1. Put("data") /\ Aside("data")
    BY DataStep DEF DirInv
  <2>2. /\ list' = list /\ files' = files /\ Queue' = q1 /\ Handed' = q2
        /\ sorted'["info"] = q3 /\ lost' \in Nat /\ Whole' = w
    BY <1>5, SenderKeeps DEF D!server, D!receiver
  <2>3. Base' = top
    <3>1. "info" \in D!Tasks /\ "info" # "data"
      BY DEF D!Tasks
    <3> QED
      BY <1>1, <2>1, <3>1 DEF Base, Carried, Aside
  <2>4. CASE way' = way
    BY <1>1, <1>2, <1>4, <2>2, <2>3, <2>4 DEF Lands
  <2>5. ASSUME NEW x \in Good, x.type = "data", way' = Append(way, x)
        PROVE  ListInv'
    <3>1. x \in D!Package /\ x.type # "info"
      BY <1>3, <2>5
    <3>2. Flow(list, files, q1, q2, q3, Append(way, x), top, w)
      BY <1>0, <1>2, <3>1, FlowOther
    <3> QED
      BY <1>4, <2>2, <2>3, <2>5, <3>2 DEF Lands
  <2> QED
    BY <2>1, <2>4, <2>5 DEF Put
<1>9. D!Lose => ListInv'
  <2> SUFFICES ASSUME D!Lose
               PROVE  ListInv'
    OBVIOUS
  <2>1. /\ way # <<>> /\ way' = Tail(way) /\ lost' = lost + 1
        /\ UNCHANGED <<list, files, user, q_recv, place, hand, sorted, twice, call, nf, an>>
    BY DEF D!Lose, D!sender, D!server, D!receiver
  <2>2. lost' \in Nat /\ lost' # 0
    BY <1>2, <2>1
  <2>3. PICK z : z = Whole'
    OBVIOUS
  <2>4. ~z
    BY <2>2, <2>3 DEF Whole
  <2>5. Flow(list, files, q1, q2, q3, way, top, z)
    BY <1>0, <1>2, <2>4, FlowWeak
  <2>6. Flow(list, files, q1, q2, q3, Tail(way), top, z)
    BY <1>0, <1>2, <2>1, <2>4, <2>5, FlowLost
  <2>7. Queue' = q1 /\ Handed' = q2 /\ sorted'["info"] = q3
    BY <1>1, <2>1 DEF Queue, Handed
  <2> QED
    BY <1>4, <1>6, <2>1, <2>2, <2>3, <2>6, <2>7 DEF Lands
<1>10. D!analysis_allocate => ListInv'
  <2> SUFFICES ASSUME D!analysis_allocate
               PROVE  ListInv'
    OBVIOUS
  <2>1. /\ way # <<>> /\ way' = Tail(way)
        /\ sorted' = [sorted EXCEPT ![Head(way).type] = Append(@, Head(way))]
        /\ UNCHANGED <<list, files, user, q_recv, place, hand, lost, twice, call, nf, an>>
    BY DEF D!analysis_allocate, D!sender, D!receiver
  <2>2. /\ Queue' = q1 /\ Handed' = q2 /\ Whole' = w /\ Base' = top
    BY <1>1, <1>6, <2>1 DEF Queue, Handed, Whole
  <2>3. sorted'["info"] = IF Head(way).type = "info" THEN Append(q3, Head(way)) ELSE q3
    BY <1>1, <1>3, <2>1 DEF TransitOf, D!Tasks
  <2>4. IF Head(way).type = "info"
        THEN Flow(list, files, q1, q2, Append(q3, Head(way)), Tail(way), top, w)
        ELSE Flow(list, files, q1, q2, q3, Tail(way), top, w)
    BY <1>0, <1>2, <2>1, FlowSort
  <2> QED
    BY <1>2, <1>4, <2>1, <2>2, <2>3, <2>4 DEF Lands
<1>11. D!recv_get("info") => ListInv'
  <2> SUFFICES ASSUME D!recv_get("info")
               PROVE  ListInv'
    OBVIOUS
  <2>0. "info" \in D!Tasks
    BY DEF D!Tasks
  <2>1. /\ q3 # <<>> /\ place["info"] = "get" /\ sorted' = [sorted EXCEPT !["info"] = Tail(@)]
        /\ hand' = [hand EXCEPT !["info"] = Head(sorted["info"])]
        /\ place'["info"] = IF D!Unpacked(Head(q3), <<"str", "str">>) = <<>> THEN "get" ELSE "user"
        /\ UNCHANGED <<list, files, user, q_recv, way, lost, twice, call, nf, an>>
    BY <1>1, <1>3, <2>0 DEF D!recv_get, D!Goto, D!sender, D!receiver, UserInv
  <2>2. Head(q3) \in Good /\ Head(q3).type = "info"
    <3>1. q3 \in Seq(Good)
      BY <1>1, <1>3, <2>0 DEF TransitOf
    <3>2. Head(q3) = q3[1] /\ Head(q3) \in Good /\ 1 \in DOMAIN q3
      BY <2>1, <3>1, HeadTail
    <3> QED
      BY <1>1, <1>3, <2>0, <3>2 DEF TransitOf
  <2>3. place'["info"] = "user"
    BY <1>0, <2>1, <2>2, InfoFields
  <2>4. /\ Queue' = q1 /\ Handed' = <<Head(q3)>> /\ q2 = <<>> /\ Whole' = w /\ Base' = top
        /\ sorted'["info"] = Tail(q3)
    BY <1>1, <1>3, <1>6, <2>0, <2>1, <2>3 DEF Queue, Handed, Whole, TransitOf
  <2>5. Flow(list, files, q1, <<Head(q3)>>, Tail(q3), way, top, w)
    BY <1>0, <1>2, <2>1, <2>2, <2>4, FlowGot
  <2> QED
    BY <1>2, <1>4, <2>1, <2>4, <2>5 DEF Lands
<1>12. D!recv_get("data") => ListInv'
  <2> SUFFICES ASSUME D!recv_get("data")
               PROVE  ListInv'
    OBVIOUS
  <2>1. /\ sorted'["info"] = sorted["info"] /\ hand'["info"] = hand["info"]
        /\ place'["info"] = place["info"]
        /\ UNCHANGED <<list, files, user, q_recv, way, lost, twice, call, nf, an>>
    BY <1>3 DEF D!recv_get, D!Goto, D!sender, D!receiver, UserInv, TransitOf, D!Tasks
  <2>2. /\ Queue' = q1 /\ Handed' = q2 /\ Whole' = w /\ Base' = top /\ sorted'["info"] = q3
    BY <1>1, <1>6, <2>1 DEF Queue, Handed, Whole
  <2> QED
    BY <1>2, <1>4, <2>1, <2>2 DEF Lands
<1>13. ASSUME NEW x \in D!Tasks, D!user_get_look(x)
       PROVE  ListInv'
  <2>1. /\ place'["info"] = "get" <=> place["info"] = "get"
        /\ UNCHANGED <<list, files, user, q_recv, hand, sorted, way, lost, twice, call, nf, an>>
    BY <1>3, <1>13 DEF D!user_get_look, D!Goto, D!sender, D!receiver, UserInv, D!Tasks
  <2>2. /\ Queue' = q1 /\ Handed' = q2 /\ Whole' = w /\ Base' = top /\ sorted'["info"] = q3
    BY <1>1, <1>6, <2>1 DEF Queue, Handed, Whole
  <2> QED
    BY <1>2, <1>4, <2>1, <2>2 DEF Lands
<1>14. ASSUME NEW x \in D!Tasks, D!user_get_make(x)
       PROVE  ListInv'
  <2>1. /\ place'["info"] = "get" <=> place["info"] = "get"
        /\ place[x] = "make" /\ user' = x /\ twice' = (user # NULL)
        /\ UNCHANGED <<list, files, q_recv, hand, sorted, way, lost, call, nf, an>>
    BY <1>3, <1>14 DEF D!user_get_make, D!Goto, D!sender, D!receiver, UserInv, D!Tasks
  <2>2. Queue' = <<>>
    <3>1. x # NULL
      BY DEF DirAssumption, D!FileDataAssumption
    <3> QED
      BY <1>3, <2>1, <3>1 DEF Queue, UserInv
  <2>3. /\ Handed' = q2 /\ Base' = top /\ sorted'["info"] = q3
    BY <1>1, <1>6, <2>1 DEF Handed
  <2>4. PICK z : z = Whole'
    OBVIOUS
  <2>5. CASE user = NULL
    <3>1. q1 = <<>> /\ (z => w)
      BY <1>1, <1>3, <2>1, <2>4, <2>5 DEF Queue, Whole, UserInv
    <3>2. Flow(list, files, q1, q2, q3, way, top, z)
      BY <1>0, <1>2, <3>1, FlowWeak
    <3> QED
      BY <1>2, <1>4, <2>1, <2>2, <2>3, <2>4, <3>1, <3>2 DEF Lands
  <2>6. CASE user # NULL
    <3>1. ~z
      BY <2>1, <2>4, <2>6 DEF Whole
    <3>2. Flow(list, files, q1, q2, q3, way, top, z)
      BY <1>0, <1>2, <3>1, FlowWeak
    <3>3. Flow(list, files, <<>>, q2, q3, way, top, z)
      BY <1>0, <1>2, <3>1, <3>2, FlowDrop
    <3> QED
      BY <1>2, <1>4, <2>1, <2>2, <2>3, <2>4, <3>3 DEF Lands
  <2> QED
    BY <2>5, <2>6
<1>15. ASSUME NEW x \in D!Tasks, D!recv_put(x)
       PROVE  ListInv'
  <2>1. /\ place[x] = "put" /\ q_recv' = [q_recv EXCEPT ![found[x]] = Append(@, hand[x])]
        /\ place' = [place EXCEPT ![x] = "get"]
        /\ UNCHANGED <<list, files, user, hand, sorted, way, lost, twice, call, nf, an>>
    BY <1>15 DEF D!recv_put, D!Goto, D!sender, D!receiver
  <2>2. /\ user \in D!Tasks /\ user # NULL /\ found[x] \in D!Tasks
        /\ found[x] # user => twice
    BY <1>3, <2>1 DEF UserInv
  <2>3. hand[x] \in Good /\ hand[x].type = x
    BY <1>3, <2>1 DEF TransitOf
  <2>4. Queue' = IF found[x] = user THEN Append(q1, hand[x]) ELSE q1
    BY <1>1, <1>3, <2>1, <2>2 DEF Queue, UserInv
  <2>5. Whole' = w /\ Base' = top /\ sorted'["info"] = q3
    BY <1>1, <1>6, <2>1 DEF Whole
  <2>6. CASE x = "info"
    <3>1. Handed' = <<>> /\ q2 = <<hand[x]>>
      BY <1>1, <1>3, <2>1, <2>6 DEF Handed, UserInv
    <3>2. CASE found[x] = user
      <4>1. Flow(list, files, Append(q1, hand[x]), <<>>, q3, way, top, w)
        BY <1>0, <1>2, <2>3, <2>6, <3>1, FlowPut
      <4> QED
        BY <1>2, <1>4, <2>1, <2>4, <2>5, <3>1, <3>2, <4>1 DEF Lands
    <3>3. CASE found[x] # user
      <4>1. ~w
        BY <1>1, <2>2, <3>3 DEF Whole
      <4>2. Flow(list, files, q1, <<>>, q3, way, top, w)
        BY <1>0, <1>2, <4>1, FlowDrop
      <4> QED
        BY <1>2, <1>4, <2>1, <2>4, <2>5, <3>1, <3>3, <4>2 DEF Lands
    <3> QED
      BY <3>2, <3>3
  <2>7. CASE x # "info"
    <3>1. Handed' = q2
      BY <1>1, <1>3, <2>1, <2>7 DEF Handed, UserInv
    <3>2. hand[x] \in D!Package /\ hand[x].type # "info"
      BY <1>3, <2>3, <2>7
    <3>3. Flow(list, files, Append(q1, hand[x]), q2, q3, way, top, w)
      BY <1>0, <1>2, <3>2, FlowOther
    <3>4. CASE found[x] = user
      BY <1>2, <1>4, <2>1, <2>4, <2>5, <3>1, <3>3, <3>4 DEF Lands
    <3>5. CASE found[x] # user
      BY <1>2, <1>4, <2>1, <2>4, <2>5, <3>1, <3>5 DEF Lands
    <3> QED
      BY <3>4, <3>5
  <2> QED
    BY <2>6, <2>7
<1>16. ASSUME NEW y, D!Arrived(y), D!Taken,
              UNCHANGED <<files, user, place, hand, sorted, way, lost, twice, call, nf, an>>
       PROVE  /\ q1 = q_recv[user] /\ q1 # <<>> /\ Head(q1).type = y /\ Head(q1) \in Good
              /\ Queue' = Tail(q1) /\ Handed' = q2
              /\ Whole' = w /\ Base' = top /\ sorted'["info"] = q3 /\ lost' \in Nat
  <2>1. /\ user # NULL /\ user \in D!Tasks /\ q_recv[user] # <<>>
        /\ Head(q_recv[user]).type = y /\ q_recv' = [q_recv EXCEPT ![user] = Tail(@)]
    BY <1>3, <1>16 DEF D!Arrived, D!Taken, UserInv
  <2>2. q1 = q_recv[user] /\ Queue' = Tail(q1)
    BY <1>1, <1>3, <1>16, <2>1 DEF Queue, UserInv
  <2>3. Head(q1) \in Good
    <3>1. q1 \in Seq(Good)
      BY <1>3, <2>1, <2>2 DEF TransitOf
    <3> QED
      BY <2>1, <2>2, <3>1, HeadTail
  <2>4. Handed' = q2 /\ Whole' = w /\ Base' = top /\ sorted'["info"] = q3 /\ lost' \in Nat
    BY <1>1, <1>2, <1>6, <1>16 DEF Handed, Whole
  <2> QED
    BY <2>1, <2>2, <2>3, <2>4
<1>17. D!fileinfo_client_recv => ListInv'
  <2> SUFFICES ASSUME D!fileinfo_client_recv
               PROVE  ListInv'
    OBVIOUS
  <2>1. /\ D!Arrived("info") /\ D!Taken
        /\ UNCHANGED <<files, user, place, hand, sorted, way, lost, twice, call, nf, an>>
    BY DEF D!fileinfo_client_recv, D!sender
  <2>2. /\ q1 = q_recv[user] /\ q1 # <<>> /\ Head(q1).type = "info" /\ Head(q1) \in Good
        /\ Queue' = Tail(q1) /\ Handed' = q2
        /\ Whole' = w /\ Base' = top /\ sorted'["info"] = q3 /\ lost' \in Nat
    BY <1>16, <2>1
  <2>3. list' = IF D!Unpacked(Head(q1), <<"str", "str", "int">>) = <<>> THEN list
                ELSE list \o D!Listed(D!Unpacked(Head(q1), <<"str", "str", "int">>))
    BY <2>2 DEF D!fileinfo_client_recv
  <2>4. PICK x : x = Head(q1)
    OBVIOUS
  <2>5. list' = list \o Entries(files, First(x), Final(x))
    BY <1>0, <2>2, <2>3, <2>4, InfoFields
  <2>6. Flow(list \o Entries(files, First(x), Final(x)), files, Tail(q1), q2, q3, way, top, w)
    BY <1>0, <1>2, <2>2, <2>4, FlowRead
  <2> QED
    BY <1>4, <2>1, <2>2, <2>5, <2>6 DEF Lands
<1>18. D!filedata_client_recv => ListInv'
  <2> SUFFICES ASSUME D!filedata_client_recv
               PROVE  ListInv'
    OBVIOUS
  <2>1. /\ D!Arrived("data") /\ D!Taken /\ list' = list
        /\ UNCHANGED <<files, user, place, hand, sorted, way, lost, twice, call, nf, an>>
    BY DEF D!filedata_client_recv, D!sender
  <2>2. /\ q1 = q_recv[user] /\ q1 # <<>> /\ Head(q1).type = "data" /\ Head(q1) \in Good
        /\ Queue' = Tail(q1) /\ Handed' = q2
        /\ Whole' = w /\ Base' = top /\ sorted'["info"] = q3 /\ lost' \in Nat
    BY <1>16, <2>1
  <2>3. Head(q1).type # "info"
    BY <2>2
  <2>4. Flow(list, files, Tail(q1), q2, q3, way, top, w)
    BY <1>0, <1>2, <2>2, <2>3, FlowRead
  <2> QED
    BY <1>4, <2>1, <2>2, <2>4 DEF Lands
<1>19. UNCHANGED D!vars => ListInv'
  <2> SUFFICES ASSUME UNCHANGED D!vars
               PROVE  ListInv'
    OBVIOUS
  <2>1. UNCHANGED <<list, files, user, q_recv, place, hand, sorted, way, lost, twice, call, nf, an>>
    BY DEF D!vars, D!sender, D!server, D!receiver
  <2> QED
    BY <1>1, <1>2, <1>4, <1>5, <1>6, <2>1 DEF Lands
<1>20. \A x \in D!Tasks : D!recv_get(x) => ListInv'
  BY <1>11, <1>12 DEF D!Tasks
<1> QED
  BY <1>7, <1>8, <1>9, <1>10, <1>13, <1>14, <1>15, <1>17, <1>18, <1>19, <1>20, DirSteps

LEMMA ListDone == DirAssumption /\ DirInv /\ ListInv => D!ListRight
<1> SUFFICES ASSUME DirAssumption, DirInv, ListInv
             PROVE  D!ListRight
  OBVIOUS
<1>0. Number \in Nat
  BY DEF DirAssumption, D!FileDataAssumption
<1>1. PICK w : w = Whole
  OBVIOUS
<1>2. PICK b1, b2, b3, b4 \in 1..(Number + 1) :
        /\ ListTo(list, files, b1, w) /\ Stage(Queue, b1, b2, w) /\ Stage(Handed, b2, b3, w)
        /\ Stage(sorted["info"], b3, b4, w) /\ Stage(way, b4, Base, w)
  BY <1>1 DEF ListInv, Flow
<1>3. /\ \A i \in DOMAIN list : list[i].size = files[list[i].name].size
      /\ \A i, j \in DOMAIN list : i < j => list[i].name < list[j].name
  BY <1>2 DEF ListTo
<1>4. ASSUME D!Come("info")
      PROVE  Len(list) = Number
  <2>1. /\ call["info"] = "over" /\ place["info"] = "get" /\ D!Under("info") = {}
        /\ lost = 0 /\ ~twice
    BY <1>4 DEF D!Come
  <2>2. w
    BY <1>1, <2>1 DEF Whole
  <2>3. Base = Number + 1
    BY <1>0, <2>1 DEF Base, DirInv, InfoInv
  <2>4. ASSUME NEW s, NEW lo \in Int, NEW hi \in Int, Stage(s, lo, hi, w),
               \A i \in DOMAIN s : s[i] \in D!Packages
        PROVE  lo = hi
    <3>1. \A i \in DOMAIN s : s[i].type # "info"
      BY <2>1, <2>4 DEF D!Under
    <3>2. lo <= hi /\ \A v \in lo..(hi - 1) : FALSE
      BY <2>2, <2>4, <3>1 DEF Stage
    <3>3. ~(lo < hi)
      <4>1. lo < hi => lo \in lo..(hi - 1)
        OBVIOUS
      <4> QED
        BY <3>2, <4>1
    <3> QED
      BY <3>2, <3>3
  <2>5. b1 = b2
    <3>1. \A i \in DOMAIN Queue : Queue[i] \in D!Packages
      BY DEF Queue, D!Packages, D!ToSet, DirInv, UserInv
    <3> QED
      BY <1>2, <2>4, <3>1
  <2>6. b2 = b3
    <3>1. Handed = <<>>
      BY <2>1 DEF Handed
    <3>2. b2 <= b3 /\ (w => b2 = b3)
      BY <1>2, <3>1, StageEmpty
    <3> QED
      BY <2>2, <3>2
  <2>7. b3 = b4
    <3>1. \A i \in DOMAIN sorted["info"] : sorted["info"][i] \in D!Packages
      BY DEF D!Packages, D!ToSet, D!Tasks
    <3> QED
      BY <1>2, <2>4, <3>1
  <2>8. b4 = Base
    <3>1. \A i \in DOMAIN way : way[i] \in D!Packages
      BY DEF D!Packages, D!ToSet
    <3> QED
      BY <1>0, <1>2, <2>3, <2>4, <3>1
  <2>9. ListTo(list, files, Number + 1, w)
    BY <1>2, <2>3, <2>5, <2>6, <2>7, <2>8
  <2> QED
    BY <1>0, <2>2, <2>9, ListFull
<1> QED
  BY <1>3, <1>4 DEF D!ListRight

(* Each name comes to the receiver with its size, in order and once,       *)
(* whatever was lost and whatever fitted into a package; and all of them   *)
(* when nothing was lost: ListRight of FileData.                           *)
THEOREM DirListRight ==
    ASSUME DirAssumption
    PROVE  D!Spec => []D!ListRight
<1>1. D!Init => ListInv
  <2> SUFFICES ASSUME D!Init
               PROVE  ListInv
    OBVIOUS
  <2>1. /\ lost = 0 /\ list = <<>> /\ Queue = <<>> /\ Handed = <<>> /\ sorted["info"] = <<>>
        /\ way = <<>> /\ Base = 1
    BY DEF D!Init, Queue, Handed, Base, D!Tasks
  <2>2. PICK w : w = Whole
    OBVIOUS
  <2>3. Stage(<<>>, 1, 1, w)
    BY StageEmpty
  <2>4. ListTo(<<>>, files, 1, w)
    <3>1. <<>> \in Seq([name: D!Files, size: Nat]) /\ DOMAIN <<>> = {}
      OBVIOUS
    <3>2. \A v \in 1..(1 - 1) : FALSE
      OBVIOUS
    <3> QED
      BY <3>1, <3>2 DEF ListTo
  <2>5. 1 \in 1..(Number + 1) /\ lost \in Nat
    BY <2>1 DEF DirAssumption, D!FileDataAssumption
  <2>6. Flow(<<>>, files, <<>>, <<>>, <<>>, <<>>, 1, w)
    BY <2>3, <2>4, <2>5 DEF Flow
  <2> QED
    BY <2>1, <2>2, <2>5, <2>6 DEF ListInv
<1>2. DirInv /\ ListInv /\ [D!Next]_(D!vars) => ListInv'
  BY ListStep
<1>3. DirInv /\ ListInv => D!ListRight
  BY ListDone
<1> QED
  BY <1>1, <1>2, <1>3, DirInvariance, PTL DEF D!Spec

-----------------------------------------------------------------------------
(* The block cache of fastcache.c                                          *)

CONSTANTS Nodes, File, block, level, Packets, Writers, Restarts

VARIABLES nodes, num, q, w, wp, d, dp, dn, nq, count, index_s, data, hash, pos,
          t, tp, ti, c, cp, cn, ci, crossed

F == INSTANCE FastCache

(* The cardinality of the instance is the one the library is about.        *)
LEMMA SameCardinality == \A S : F!Cardinality(S) = Cardinality(S)
BY DEF F!Cardinality, Cardinality

(* The types of what the properties are about.                             *)
QueueType ==
    /\ nodes \subseteq Nodes
    /\ q \in Seq(Packets) /\ nq \in [Nodes -> Seq(Packets)] /\ count \in [Nodes -> Int]
    /\ w \in [Writers -> {"idle", "add", "put"}] /\ wp \in [Writers -> Packets \cup {NULL}]
    /\ \A x \in Writers : w[x] # "idle" => wp[x] \in Packets
    /\ d \in {"get", "choose", "count"}
    /\ d = "choose" => dp \in Packets
    /\ d = "count" => dn \in Nodes

Places == {"get", "scan", "seek", "data", "index", "hash"}

ThreadType ==
    /\ t \in [Nodes -> Places] /\ tp \in [Nodes -> Packets \cup {NULL}] /\ ti \in [Nodes -> Nat]
    /\ \A n \in Nodes : /\ ti[n] \in F!Slots(n)
                        /\ t[n] # "get" => tp[n] \in Packets
                        /\ t[n] = "seek" => n \in File

StoreType ==
    /\ DOMAIN index_s = Nodes /\ DOMAIN data = Nodes /\ DOMAIN hash = Nodes
    /\ pos \in [Nodes -> Nat]
    /\ \A n \in Nodes : /\ index_s[n] \in [F!Slots(n) -> Packets \cup {NULL}]
                        /\ data[n] \in [0..block[n] -> Packets \cup {NULL}]
                        /\ hash[n] \in [Packets -> 0..block[n]]

ClientType ==
    /\ c \in {"idle", "read_seek", "read", "del", "index", "count", "num"}
    /\ c # "idle" => cp \in Packets /\ cn \in Nodes /\ ci \in F!Slots(cn)

FCType == QueueType /\ ThreadType /\ StoreType /\ ClientType

(* What the dispatcher has dealt and not counted yet.                      *)
Dealt(n) == IF d = "count" /\ dn = n THEN 1 ELSE 0

(* The count of a node is exact, and the dispatcher tested it before it    *)
(* dealt the packet it has still to count.                                 *)
NodeCounts ==
    \A n \in Nodes : count[n] = F!CountOf(n) /\ count[n] + Dealt(n) <= block[n]

(* The hash and the indexes of the slots agree, but for the slot that the  *)
(* thread of the node fills and the one that the client frees.             *)
IndexInv ==
    /\ \A n \in Nodes, p \in Packets : hash[n][p] # 0 => index_s[n][hash[n][p] - 1] = p
    /\ \A n \in Nodes : t[n] \in {"seek", "data", "index"} => index_s[n][ti[n]] = NULL
    /\ \A n \in Nodes : t[n] = "hash" =>
            index_s[n][ti[n]] = tp[n] /\ \A p \in Packets : hash[n][p] # ti[n] + 1
    /\ c \in {"read_seek", "read", "del", "index"} =>
            index_s[cn][ci] = cp /\ (t[cn] = "hash" => ti[cn] # ci)
    /\ c = "index" => \A p \in Packets : hash[cn][p] # ci + 1

(* What a slot that is used holds, and where the files stand, as long as   *)
(* nobody moved the position of a file under another.                      *)
DataInv ==
    /\ \A n \in Nodes, p \in Packets : hash[n][p] # 0 => data[n][hash[n][p] - 1] = p
    /\ \A n \in Nodes : t[n] \in {"index", "hash"} => data[n][ti[n]] = tp[n]
    /\ \A n \in File : t[n] = "data" => pos[n] = ti[n] /\ ~(c = "read" /\ cn = n)
    /\ c \in {"read_seek", "read"} => data[cn][ci] = cp
    /\ c = "read" /\ cn \in File => pos[cn] = ci

FCInv == FCType /\ NodeCounts /\ IndexInv /\ (crossed \/ DataInv)

-----------------------------------------------------------------------------
(* The search for a free slot wraps around the end of the node.            *)
LEMMA SlotsFacts ==
    ASSUME F!FastCacheAssumption, NEW n \in Nodes
    PROVE  /\ block[n] \in Nat \ {0} /\ 0 \in F!Slots(n) /\ F!Slots(n) \subseteq 0..block[n]
           /\ IsFiniteSet(F!Slots(n)) /\ Cardinality(F!Slots(n)) = block[n]
           /\ \A i \in Nat : i % block[n] \in F!Slots(n)
<1>1. block[n] \in Nat \ {0}
    BY DEF F!FastCacheAssumption
<1>2. IsFiniteSet(F!Slots(n)) /\ Cardinality(F!Slots(n)) = block[n]
    <2>1. block[n] - 1 \in Int /\ ~(0 > block[n] - 1) /\ block[n] - 1 - 0 + 1 = block[n]
        BY <1>1
    <2> QED BY <2>1, FS_Interval, SMTT(40) DEF F!Slots
<1>3. \A i \in Nat : i % block[n] \in F!Slots(n)
    BY <1>1 DEF F!Slots
<1>4. 0 \in F!Slots(n) /\ F!Slots(n) \subseteq 0..block[n]
    BY <1>1 DEF F!Slots
<1> QED BY <1>1, <1>2, <1>3, <1>4

(* Taking from and adding to the queues.                                   *)
LEMMA QueueFacts ==
    ASSUME NEW s \in Seq(Packets)
    PROVE  /\ \A p \in Packets : /\ Append(s, p) \in Seq(Packets)
                                  /\ Len(Append(s, p)) = Len(s) + 1
           /\ s # <<>> => /\ Head(s) \in Packets /\ Tail(s) \in Seq(Packets)
                          /\ Len(Tail(s)) = Len(s) - 1
           /\ Len(s) \in Nat /\ <<>> \in Seq(Packets) /\ Len(<<>>) = 0
    OBVIOUS

LEMMA TypeInit ==
    ASSUME F!FastCacheAssumption, F!Init
    PROVE  FCType
<1>1. \A n \in Nodes : 0 \in F!Slots(n) /\ F!Slots(n) \subseteq Nat /\ block[n] \in Nat
    BY SlotsFacts DEF F!Slots
<1>2. QueueType
    BY DEF F!Init, QueueType
<1>3. ThreadType
    BY <1>1 DEF F!Init, ThreadType, Places
<1>4. StoreType
    BY <1>1 DEF F!Init, StoreType
<1>5. ClientType
    BY DEF F!Init, ClientType
<1> QED BY <1>2, <1>3, <1>4, <1>5 DEF FCType

(* The writers and the dispatcher touch queues and counts only.            *)
LEMMA QueueTypeStep ==
    ASSUME F!FastCacheAssumption, FCType,
           (\E x \in Writers : F!fastcache_write(x)) \/ F!_fastcache_write
    PROVE  QueueType' /\ UNCHANGED <<index_s, data, hash, pos, t, tp, ti, c, cp, cn, ci, crossed>>
<1> USE DEF FCType, QueueType
<1>1. ASSUME NEW x \in Writers, NEW p \in Packets, F!fastcache_write_test(x, p)
      PROVE  QueueType'
    BY <1>1 DEF F!fastcache_write_test, F!dispatcher, F!counters
<1>2. ASSUME NEW x \in Writers, F!fastcache_write_add(x)
      PROVE  QueueType'
    BY <1>2 DEF F!fastcache_write_add, F!dispatcher
<1>3. ASSUME NEW x \in Writers, F!fastcache_write_put(x)
      PROVE  QueueType'
    BY <1>3, QueueFacts DEF F!fastcache_write_put, F!dispatcher, F!counters
<1>4. ASSUME F!_fastcache_write_get PROVE QueueType'
    BY <1>4, QueueFacts DEF F!_fastcache_write_get, F!writers, F!counters
<1>5. ASSUME F!_fastcache_write_choose PROVE QueueType'
    <2>1. PICK n \in Nodes : dn' = n /\ nq' = [nq EXCEPT ![n] = Append(nq[n], dp)]
        BY <1>5 DEF F!_fastcache_write_choose, F!Shortest
    <2>2. nq' \in [Nodes -> Seq(Packets)]
        BY <1>5, <2>1, QueueFacts DEF F!_fastcache_write_choose
    <2> QED BY <1>5, <2>1, <2>2 DEF F!_fastcache_write_choose, F!writers, F!counters
<1>6. ASSUME F!_fastcache_write_count PROVE QueueType'
    <2>1. count' \in [Nodes -> Int]
        BY <1>6 DEF F!_fastcache_write_count
    <2> QED BY <1>6, <2>1 DEF F!_fastcache_write_count, F!writers
<1>7. UNCHANGED <<index_s, data, hash, pos, t, tp, ti, c, cp, cn, ci, crossed>>
    BY DEF F!fastcache_write, F!fastcache_write_test, F!fastcache_write_add, F!fastcache_write_put,
           F!_fastcache_write, F!_fastcache_write_get, F!_fastcache_write_choose,
           F!_fastcache_write_count, F!store, F!threads, F!client
<1> QED BY <1>1, <1>2, <1>3, <1>4, <1>5, <1>6, <1>7 DEF F!fastcache_write, F!_fastcache_write

LEMMA ThreadTypeStep ==
    ASSUME F!FastCacheAssumption, FCType, NEW n \in Nodes, F!__fastcache_write(n)
    PROVE  FCType'
<1> USE DEF FCType
<1>0. block[n] \in Nat \ {0} /\ F!Slots(n) \subseteq 0..block[n] /\ \A i \in Nat : i % block[n] \in F!Slots(n)
    BY SlotsFacts
<1>1. CASE F!__fastcache_write_get(n)
    <2>1. QueueType'
        BY <1>1, QueueFacts DEF F!__fastcache_write_get, QueueType, F!writers, F!dispatcher, F!counters
    <2>2. ThreadType'
        BY <1>1, QueueFacts DEF F!__fastcache_write_get, QueueType, ThreadType, F!Thread, Places
    <2> QED BY <1>1, <2>1, <2>2 DEF F!__fastcache_write_get, F!store, F!client, StoreType, ClientType
<1>2. CASE F!__fastcache_write_scan(n)
    <2>1. ThreadType'
        BY <1>0, <1>2 DEF F!__fastcache_write_scan, ThreadType, F!Thread, Places, F!Slots
    <2> QED BY <1>2, <2>1 DEF F!__fastcache_write_scan, F!store, F!client, StoreType, ClientType,
            QueueType, F!writers, F!dispatcher, F!counters
<1>3. CASE F!__fastcache_write_seek(n)
    <2>1. ThreadType'
        BY <1>3 DEF F!__fastcache_write_seek, ThreadType, F!Thread, Places
    <2>2. StoreType'
        BY <1>3 DEF F!__fastcache_write_seek, ThreadType, StoreType
    <2> QED BY <1>3, <2>1, <2>2 DEF F!__fastcache_write_seek, F!client, ClientType,
            QueueType, F!writers, F!dispatcher, F!counters
<1>4. CASE F!__fastcache_write_data(n)
    <2>1. ThreadType'
        BY <1>4 DEF F!__fastcache_write_data, ThreadType, F!Thread, Places
    <2>2. tp[n] \in Packets
        BY <1>4 DEF F!__fastcache_write_data, ThreadType, F!Thread
    <2> DEFINE j == IF n \in File THEN pos[n] ELSE ti[n]
               i == IF j > block[n] THEN block[n] ELSE j
    <2>3. i \in 0..block[n]
        <3>1. pos[n] \in Nat /\ ti[n] \in Nat /\ block[n] \in Nat
            BY <1>0 DEF StoreType, ThreadType
        <3>2. j \in Nat
            BY <3>1
        <3> HIDE DEF j
        <3> QED BY <3>1, <3>2
    <2>4. data' = [data EXCEPT ![n][i] = tp[n]]
        BY <1>4 DEF F!__fastcache_write_data
    <2>5. pos' \in [Nodes -> Nat]
        BY <1>4 DEF F!__fastcache_write_data, StoreType
    <2> HIDE DEF i
    <2>6. \A m \in Nodes : data'[m] \in [0..block[m] -> Packets \cup {NULL}]
        BY <2>2, <2>3, <2>4 DEF StoreType
    <2>7. StoreType'
        BY <1>4, <2>4, <2>5, <2>6 DEF F!__fastcache_write_data, StoreType
    <2> QED BY <1>4, <2>1, <2>7 DEF F!__fastcache_write_data, F!client, ClientType,
            QueueType, F!writers, F!dispatcher, F!counters
<1>5. CASE F!__fastcache_write_index(n)
    <2>1. ThreadType'
        BY <1>5 DEF F!__fastcache_write_index, ThreadType, F!Thread, Places
    <2>2. tp[n] \in Packets
        BY <1>5 DEF F!__fastcache_write_index, ThreadType, F!Thread
    <2>3. StoreType'
        BY <1>5, <2>2 DEF F!__fastcache_write_index, StoreType
    <2> QED BY <1>5, <2>1, <2>3 DEF F!__fastcache_write_index, F!client, ClientType,
            QueueType, F!writers, F!dispatcher, F!counters
<1>6. CASE F!__fastcache_write_hash(n)
    <2>1. ThreadType'
        BY <1>6 DEF F!__fastcache_write_hash, ThreadType, F!Thread, Places
    <2>2. ti[n] + 1 \in 0..block[n]
        BY <1>0 DEF ThreadType, F!Slots
    <2>3. StoreType'
        BY <1>6, <2>2 DEF F!__fastcache_write_hash, StoreType
    <2> QED BY <1>6, <2>1, <2>3 DEF F!__fastcache_write_hash, F!client, ClientType,
            QueueType, F!writers, F!dispatcher, F!counters
<1> QED BY <1>1, <1>2, <1>3, <1>4, <1>5, <1>6 DEF F!__fastcache_write

LEMMA ClientTypeStep ==
    ASSUME F!FastCacheAssumption, FCType, F!ClientCalls \/ F!ClientGoesOn
    PROVE  FCType'
<1> USE DEF FCType
<1>1. ASSUME NEW p \in Packets, NEW n \in nodes, F!fastcache_read_find(p, n) \/ F!fastcache_clean_find(p, n)
      PROVE  FCType'
    <2>1. n \in Nodes /\ block[n] \in Nat
        BY SlotsFacts DEF QueueType
    <2>2. hash[n][p] - 1 \in F!Slots(n)
        BY <1>1, <2>1 DEF F!fastcache_read_find, F!fastcache_clean_find, F!Find, StoreType, F!Slots
    <2>3. ClientType'
        BY <1>1, <2>1, <2>2 DEF F!fastcache_read_find, F!fastcache_clean_find, F!Find, F!Client, ClientType
    <2> QED BY <1>1, <2>3 DEF F!fastcache_read_find, F!fastcache_clean_find, F!store, F!threads, StoreType,
            ThreadType, QueueType, F!writers, F!dispatcher, F!counters
<1>2. CASE F!fastcache_read_seek
    <2>1. pos' \in [Nodes -> Nat]
        BY <1>2 DEF F!fastcache_read_seek, F!Client, ClientType, StoreType, F!Slots
    <2> QED BY <1>2, <2>1 DEF F!fastcache_read_seek, F!Client, ClientType, F!threads, StoreType,
            ThreadType, QueueType, F!writers, F!dispatcher, F!counters
<1>3. CASE F!fastcache_read_data
    <2>1. pos' \in [Nodes -> Nat]
        BY <1>3 DEF F!fastcache_read_data, F!Client, ClientType, StoreType
    <2> QED BY <1>3, <2>1 DEF F!fastcache_read_data, F!Client, ClientType, F!threads, StoreType,
            ThreadType, QueueType, F!writers, F!dispatcher, F!counters
<1>4. CASE F!fastcache_clean_del
    <2>0. block[cn] \in Nat
        BY <1>4, SlotsFacts DEF F!fastcache_clean_del, F!Client, ClientType
    <2>1. StoreType'
        BY <1>4, <2>0 DEF F!fastcache_clean_del, F!Client, ClientType, StoreType
    <2> QED BY <1>4, <2>1 DEF F!fastcache_clean_del, F!Client, ClientType, F!threads,
            ThreadType, QueueType, F!writers, F!dispatcher, F!counters
<1>5. CASE F!fastcache_clean_index
    <2>1. StoreType'
        BY <1>5 DEF F!fastcache_clean_index, F!Client, ClientType, StoreType
    <2> QED BY <1>5, <2>1 DEF F!fastcache_clean_index, F!Client, ClientType, F!threads,
            ThreadType, QueueType, F!writers, F!dispatcher, F!counters
<1>6. CASE F!fastcache_clean_count
    BY <1>6 DEF F!fastcache_clean_count, F!Client, ClientType, F!threads, F!store, StoreType,
            ThreadType, QueueType, F!writers, F!dispatcher
<1>7. CASE F!fastcache_clean_num
    BY <1>7 DEF F!fastcache_clean_num, F!Client, ClientType, F!threads, F!store, StoreType,
            ThreadType, QueueType, F!writers, F!dispatcher
<1> QED BY <1>1, <1>2, <1>3, <1>4, <1>5, <1>6, <1>7 DEF F!ClientCalls, F!ClientGoesOn

LEMMA UsedFinite ==
    ASSUME F!FastCacheAssumption, NEW n \in Nodes
    PROVE  /\ IsFiniteSet(F!Used(n)) /\ Cardinality(F!Used(n)) \in 0..block[n]
<1>1. F!Used(n) \in SUBSET F!Slots(n)
    BY DEF F!Used
<1> QED BY <1>1, SlotsFacts, FS_Subset, FS_CardinalityType

LEMMA RestartType ==
    ASSUME F!FastCacheAssumption, FCType, F!Restart
    PROVE  FCType'
<1> USE DEF FCType
<1>1. \A n \in Nodes : block[n] \in Nat /\ 0 \in F!Slots(n) /\ F!Slots(n) \subseteq Nat
    BY SlotsFacts DEF F!Slots
<1>2. count' \in [Nodes -> Int]
    <2>1. \A n \in Nodes : Cardinality(F!Used(n)) \in Int
        BY UsedFinite, <1>1
    <2> QED BY SameCardinality, <2>1 DEF F!Restart
<1>3. QueueType'
    BY <1>2 DEF F!Restart, QueueType
<1>4. ThreadType'
    BY <1>1 DEF F!Restart, ThreadType, Places
<1>5. StoreType'
    BY <1>1 DEF F!Restart, StoreType
<1>6. ClientType'
    BY DEF F!Restart, ClientType
<1> QED BY <1>3, <1>4, <1>5, <1>6

-----------------------------------------------------------------------------
(* The counts of the nodes.                                                *)
Cleared(n) == IF c = "count" /\ cn = n THEN 1 ELSE 0

LEMMA CountParts ==
    ASSUME F!FastCacheAssumption, FCType, NEW n \in Nodes
    PROVE  /\ Cardinality(F!Used(n)) \in Nat /\ Len(nq[n]) \in Nat /\ count[n] \in Int
           /\ F!InHand(n) \in {0, 1} /\ Dealt(n) \in {0, 1} /\ Cleared(n) \in {0, 1}
           /\ F!CountOf(n) = Cardinality(F!Used(n)) + Len(nq[n]) + F!InHand(n) - Dealt(n) + Cleared(n)
           /\ block[n] \in Nat
<1>1. Cardinality(F!Used(n)) \in Nat /\ block[n] \in Nat
    BY UsedFinite, SlotsFacts
<1>2. nq[n] \in Seq(Packets) /\ count[n] \in Int
    BY DEF FCType, QueueType
<1>3. Len(nq[n]) \in Nat
    BY <1>2, QueueFacts
<1> QED BY SameCardinality, <1>1, <1>2, <1>3 DEF F!InHand, Dealt, Cleared, F!CountOf

LEMMA CountOfNext ==
    ASSUME NEW n \in Nodes
    PROVE  F!CountOf(n)' = Cardinality(F!Used(n)') + Len(nq'[n]) + F!InHand(n)' - Dealt(n)' + Cleared(n)'
BY SameCardinality DEF F!CountOf, Dealt, Cleared

(* A step that leaves the queue, the slots in use and every step that is   *)
(* still to be counted alone.                                              *)
LEMMA CountsStay ==
    ASSUME NodeCounts, UNCHANGED <<count, nq, index_s>>,
           \A n \in Nodes : /\ F!InHand(n)' = F!InHand(n) /\ Dealt(n)' = Dealt(n)
                            /\ Cleared(n)' = Cleared(n)
    PROVE  NodeCounts'
<1> SUFFICES ASSUME NEW n \in Nodes
             PROVE  count'[n] = F!CountOf(n)' /\ count'[n] + Dealt(n)' <= block[n]
    BY DEF NodeCounts
<1>1. F!Used(n)' = F!Used(n)
    BY DEF F!Used
<1>2. F!CountOf(n)' = F!CountOf(n)
    BY <1>1 DEF F!CountOf, Dealt, Cleared
<1> QED BY <1>2 DEF NodeCounts

LEMMA CountsQueueStep ==
    ASSUME F!FastCacheAssumption, FCType, NodeCounts,
           (\E x \in Writers : F!fastcache_write(x)) \/ F!_fastcache_write
    PROVE  NodeCounts'
<1>0. UNCHANGED <<index_s, t, c, cn>>
    BY QueueTypeStep
<1>i. \A n \in Nodes : /\ F!InHand(n)' = F!InHand(n) /\ Cleared(n)' = Cleared(n)
                       /\ F!Used(n)' = F!Used(n)
    BY <1>0 DEF F!InHand, Cleared, F!Used
<1>1. CASE \E x \in Writers : F!fastcache_write(x)
    <2>1. UNCHANGED <<count, nq, d, dn>>
        BY <1>1 DEF F!fastcache_write, F!fastcache_write_test, F!fastcache_write_add,
            F!fastcache_write_put, F!dispatcher, F!counters
    <2>2. \A n \in Nodes : Dealt(n)' = Dealt(n)
        BY <2>1 DEF Dealt
    <2> QED BY <1>0, <1>i, <2>1, <2>2, CountsStay
<1>2. CASE F!_fastcache_write_get
    <2>1. UNCHANGED <<count, nq, dn>> /\ d = "get" /\ d' = "choose"
        BY <1>2 DEF F!_fastcache_write_get, F!counters
    <2>2. \A n \in Nodes : Dealt(n)' = Dealt(n)
        BY <2>1 DEF Dealt
    <2> QED BY <1>0, <1>i, <2>1, <2>2, CountsStay
<1>3. CASE F!_fastcache_write_choose
    <2>1. PICK n \in Nodes : /\ dn' = n /\ nq' = [nq EXCEPT ![n] = Append(nq[n], dp)]
                             /\ count[n] < block[n]
        BY <1>3 DEF F!_fastcache_write_choose, F!Shortest, FCType, QueueType
    <2>2. d = "choose" /\ d' = "count" /\ count' = count /\ dp \in Packets
        BY <1>3 DEF F!_fastcache_write_choose, F!counters, FCType, QueueType
    <2> SUFFICES ASSUME NEW m \in Nodes
                 PROVE  count'[m] = F!CountOf(m)' /\ count'[m] + Dealt(m)' <= block[m]
        BY DEF NodeCounts
    <2>3. nq[n] \in Seq(Packets) /\ Len(Append(nq[n], dp)) = Len(nq[n]) + 1
        BY <2>2, QueueFacts DEF FCType, QueueType
    <2>4. IF m = n THEN Len(nq'[m]) = Len(nq[m]) + 1 /\ Dealt(m)' = 1 /\ Dealt(m) = 0
                   ELSE nq'[m] = nq[m] /\ Dealt(m)' = 0 /\ Dealt(m) = 0
        BY <2>1, <2>2, <2>3 DEF Dealt, FCType, QueueType
    <2> QED BY <1>i, <2>1, <2>2, <2>4, CountParts, CountOfNext DEF NodeCounts
<1>4. CASE F!_fastcache_write_count
    <2>1. /\ d = "count" /\ d' = "get" /\ count' = [count EXCEPT ![dn] = count[dn] + 1]
          /\ dn \in Nodes /\ nq' = nq
        BY <1>4 DEF F!_fastcache_write_count, FCType, QueueType
    <2> SUFFICES ASSUME NEW m \in Nodes
                 PROVE  count'[m] = F!CountOf(m)' /\ count'[m] + Dealt(m)' <= block[m]
        BY DEF NodeCounts
    <2>2. Dealt(m)' = 0 /\ count'[m] = count[m] + Dealt(m)
        BY <2>1 DEF Dealt, FCType, QueueType
    <2> QED BY <1>i, <2>1, <2>2, CountParts, CountOfNext DEF NodeCounts
<1> QED BY <1>1, <1>2, <1>3, <1>4 DEF F!_fastcache_write

LEMMA CountsThreadStep ==
    ASSUME F!FastCacheAssumption, FCType, NodeCounts, IndexInv, NEW n \in Nodes, F!__fastcache_write(n)
    PROVE  NodeCounts'
<1>0. UNCHANGED <<count, d, dn, c, cn>>
    BY DEF F!__fastcache_write, F!__fastcache_write_get, F!__fastcache_write_scan, F!__fastcache_write_seek,
           F!__fastcache_write_data, F!__fastcache_write_index, F!__fastcache_write_hash, F!counters,
           F!dispatcher, F!client
<1>i. \A m \in Nodes : Dealt(m)' = Dealt(m) /\ Cleared(m)' = Cleared(m)
    BY <1>0 DEF Dealt, Cleared
<1>1. CASE F!__fastcache_write_get(n)
    <2>1. /\ t[n] = "get" /\ t' = [t EXCEPT ![n] = "scan"] /\ nq[n] # <<>>
          /\ nq' = [nq EXCEPT ![n] = Tail(nq[n])] /\ index_s' = index_s
        BY <1>1 DEF F!__fastcache_write_get, F!Thread, F!store
    <2> SUFFICES ASSUME NEW m \in Nodes
                 PROVE  count'[m] = F!CountOf(m)' /\ count'[m] + Dealt(m)' <= block[m]
        BY DEF NodeCounts
    <2>2. nq[n] \in Seq(Packets) /\ Len(Tail(nq[n])) = Len(nq[n]) - 1
        BY <2>1, QueueFacts DEF FCType, QueueType
    <2>3. IF m = n THEN Len(nq'[m]) = Len(nq[m]) - 1 /\ F!InHand(m)' = 1 /\ F!InHand(m) = 0
                   ELSE nq'[m] = nq[m] /\ F!InHand(m)' = F!InHand(m)
        BY <2>1, <2>2 DEF F!InHand, FCType, QueueType, ThreadType
    <2>4. F!Used(m)' = F!Used(m)
        BY <2>1 DEF F!Used
    <2>5. CASE m = n
        <3>1. F!CountOf(m)' = Cardinality(F!Used(m)) + (Len(nq[m]) - 1) + 1 - Dealt(m) + Cleared(m)
            BY <1>i, <2>3, <2>4, <2>5, CountOfNext
        <3>2. F!CountOf(m) = Cardinality(F!Used(m)) + Len(nq[m]) + 0 - Dealt(m) + Cleared(m)
            BY <2>3, <2>5, CountParts
        <3>3. /\ Cardinality(F!Used(m)) \in Int /\ Len(nq[m]) \in Int
              /\ Dealt(m) \in Int /\ Cleared(m) \in Int
            BY CountParts
        <3>4. F!CountOf(m)' = F!CountOf(m)
            BY <3>1, <3>2, <3>3, SMTT(40)
        <3> QED BY <1>0, <1>i, <3>4 DEF NodeCounts
    <2>6. CASE m # n
        BY <1>0, <1>i, <2>3, <2>4, <2>6, CountParts, CountOfNext DEF NodeCounts
    <2> QED BY <2>5, <2>6
<1>2. CASE F!__fastcache_write_scan(n) \/ F!__fastcache_write_seek(n) \/ F!__fastcache_write_data(n)
           \/ F!__fastcache_write_hash(n)
    <2>1. UNCHANGED <<nq, index_s>>
        BY <1>2 DEF F!__fastcache_write_scan, F!__fastcache_write_seek, F!__fastcache_write_data,
            F!__fastcache_write_hash, F!store
    <2> DEFINE holds == {"scan", "seek", "data", "index"}
    <2>2. \E to : t' = [t EXCEPT ![n] = to] /\ (to \in holds <=> t[n] \in holds)
        BY <1>2 DEF F!__fastcache_write_scan, F!__fastcache_write_seek, F!__fastcache_write_data,
            F!__fastcache_write_hash, F!Thread
    <2>3. \A m \in Nodes : F!InHand(m)' = F!InHand(m)
        BY <2>2 DEF F!InHand, FCType, ThreadType
    <2> QED BY <1>0, <1>i, <2>1, <2>3, CountsStay
<1>3. CASE F!__fastcache_write_index(n)
    <2>1. /\ t[n] = "index" /\ t' = [t EXCEPT ![n] = "hash"] /\ nq' = nq
          /\ index_s' = [index_s EXCEPT ![n][ti[n]] = tp[n]]
          /\ tp[n] \in Packets /\ ti[n] \in F!Slots(n) /\ index_s[n][ti[n]] = NULL
        BY <1>3 DEF F!__fastcache_write_index, F!Thread, FCType, ThreadType, IndexInv
    <2>2. tp[n] # NULL
        BY <2>1 DEF F!FastCacheAssumption
    <2>3. F!Used(n)' = F!Used(n) \cup {ti[n]} /\ ti[n] \notin F!Used(n)
        BY <2>1, <2>2 DEF F!Used, FCType, StoreType
    <2>4. Cardinality(F!Used(n)') = Cardinality(F!Used(n)) + 1
        BY <2>3, UsedFinite, FS_AddElement
    <2> SUFFICES ASSUME NEW m \in Nodes
                 PROVE  count'[m] = F!CountOf(m)' /\ count'[m] + Dealt(m)' <= block[m]
        BY DEF NodeCounts
    <2>5. IF m = n THEN F!InHand(m)' = 0 /\ F!InHand(m) = 1
                   ELSE F!Used(m)' = F!Used(m) /\ F!InHand(m)' = F!InHand(m)
        BY <2>1 DEF F!InHand, F!Used, FCType, ThreadType, StoreType
    <2>6. CASE m = n
        <3>1. F!CountOf(m)' = (Cardinality(F!Used(m)) + 1) + Len(nq[m]) + 0 - Dealt(m) + Cleared(m)
            BY <1>i, <2>1, <2>4, <2>5, <2>6, CountOfNext
        <3>2. F!CountOf(m) = Cardinality(F!Used(m)) + Len(nq[m]) + 1 - Dealt(m) + Cleared(m)
            BY <2>5, <2>6, CountParts
        <3>3. /\ Cardinality(F!Used(m)) \in Int /\ Len(nq[m]) \in Int
              /\ Dealt(m) \in Int /\ Cleared(m) \in Int
            BY CountParts
        <3>4. F!CountOf(m)' = F!CountOf(m)
            BY <3>1, <3>2, <3>3, SMTT(40)
        <3> QED BY <1>0, <1>i, <3>4 DEF NodeCounts
    <2>7. CASE m # n
        BY <1>0, <1>i, <2>1, <2>5, <2>7, CountParts, CountOfNext DEF NodeCounts
    <2> QED BY <2>6, <2>7
<1> QED BY <1>1, <1>2, <1>3 DEF F!__fastcache_write

LEMMA CountsClientStep ==
    ASSUME F!FastCacheAssumption, FCType, NodeCounts, IndexInv, F!ClientCalls \/ F!ClientGoesOn
    PROVE  NodeCounts'
<1>0. UNCHANGED <<nq, t, d, dn>>
    BY DEF F!ClientCalls, F!ClientGoesOn, F!fastcache_read_find, F!fastcache_clean_find,
           F!fastcache_read_seek, F!fastcache_read_data, F!fastcache_clean_del, F!fastcache_clean_index,
           F!fastcache_clean_count, F!fastcache_clean_num, F!threads, F!dispatcher
<1>i. \A m \in Nodes : Dealt(m)' = Dealt(m) /\ F!InHand(m)' = F!InHand(m)
    BY <1>0 DEF Dealt, F!InHand
<1>1. CASE F!ClientCalls \/ F!fastcache_read_seek \/ F!fastcache_read_data \/ F!fastcache_clean_del
           \/ F!fastcache_clean_num
    <2>1. UNCHANGED <<count, index_s>> /\ c # "count" /\ c' # "count"
        BY <1>1 DEF F!ClientCalls, F!fastcache_read_find, F!fastcache_clean_find,
            F!fastcache_read_seek, F!fastcache_read_data, F!fastcache_clean_del, F!fastcache_clean_num,
            F!Client, F!store, F!counters
    <2>2. \A m \in Nodes : Cleared(m)' = Cleared(m)
        BY <2>1 DEF Cleared
    <2> QED BY <1>0, <1>i, <2>1, <2>2, CountsStay
<1>2. CASE F!fastcache_clean_index
    <2>1. /\ c = "index" /\ c' = "count" /\ cn \in Nodes /\ ci \in F!Slots(cn) /\ UNCHANGED <<count, cn>>
          /\ index_s' = [index_s EXCEPT ![cn][ci] = NULL] /\ index_s[cn][ci] = cp /\ cp \in Packets
        BY <1>2 DEF F!fastcache_clean_index, F!Client, F!counters, FCType, ClientType, IndexInv
    <2>2. cp # NULL
        BY <2>1 DEF F!FastCacheAssumption
    <2>3. F!Used(cn)' = F!Used(cn) \ {ci} /\ ci \in F!Used(cn)
        BY <2>1, <2>2 DEF F!Used, FCType, StoreType
    <2>4. Cardinality(F!Used(cn) \ {ci}) = Cardinality(F!Used(cn)) - 1
        BY <2>1, <2>3, UsedFinite, FS_RemoveElement
    <2> SUFFICES ASSUME NEW m \in Nodes
                 PROVE  count'[m] = F!CountOf(m)' /\ count'[m] + Dealt(m)' <= block[m]
        BY DEF NodeCounts
    <2>5. IF m = cn THEN Cardinality(F!Used(m)') = Cardinality(F!Used(m)) - 1 /\ Cleared(m)' = 1
                    ELSE F!Used(m)' = F!Used(m) /\ Cleared(m)' = 0
        <3>1. CASE m = cn
            BY <2>1, <2>3, <2>4, <3>1 DEF Cleared
        <3>2. CASE m # cn
            BY <2>1, <3>2 DEF Cleared, F!Used, FCType, StoreType
        <3> QED BY <3>1, <3>2
    <2>6. Cleared(m) = 0
        BY <2>1 DEF Cleared
    <2> QED BY <1>0, <1>i, <2>1, <2>5, <2>6, CountParts, CountOfNext, SMTT(40) DEF NodeCounts
<1>3. CASE F!fastcache_clean_count
    <2>1. /\ c = "count" /\ c' = "num" /\ cn \in Nodes /\ index_s' = index_s
          /\ count' = [count EXCEPT ![cn] = count[cn] - 1]
        BY <1>3 DEF F!fastcache_clean_count, F!Client, F!store, FCType, ClientType
    <2> SUFFICES ASSUME NEW m \in Nodes
                 PROVE  count'[m] = F!CountOf(m)' /\ count'[m] + Dealt(m)' <= block[m]
        BY DEF NodeCounts
    <2>2. count'[m] = count[m] - Cleared(m) /\ Cleared(m)' = 0
        BY <2>1 DEF Cleared, FCType, QueueType
    <2>3. F!Used(m)' = F!Used(m)
        BY <2>1 DEF F!Used
    <2> QED BY <1>0, <1>i, <2>2, <2>3, CountParts, CountOfNext, SMTT(40) DEF NodeCounts
<1> QED BY <1>1, <1>2, <1>3 DEF F!ClientGoesOn

LEMMA CountsRestart ==
    ASSUME F!FastCacheAssumption, FCType, F!Restart
    PROVE  NodeCounts'
<1> SUFFICES ASSUME NEW m \in Nodes
             PROVE  count'[m] = F!CountOf(m)' /\ count'[m] + Dealt(m)' <= block[m]
    BY DEF NodeCounts
<1>1. /\ count'[m] = IF m \in File THEN Cardinality(F!Used(m)) ELSE 0
      /\ index_s'[m] = IF m \in File THEN index_s[m] ELSE [i \in F!Slots(m) |-> NULL]
      /\ nq'[m] = <<>> /\ t'[m] = "get" /\ d' = "get" /\ c' = "idle"
    BY SameCardinality DEF F!Restart
<1>2. F!Used(m)' = IF m \in File THEN F!Used(m) ELSE {}
    BY <1>1 DEF F!Used
<1>3. Cardinality(F!Used(m)') = count'[m]
    BY <1>1, <1>2, FS_EmptySet
<1>4. F!InHand(m)' = 0 /\ Dealt(m)' = 0 /\ Cleared(m)' = 0 /\ Len(nq'[m]) = 0
    BY <1>1 DEF F!InHand, Dealt, Cleared
<1>5. count'[m] \in 0..block[m] /\ block[m] \in Nat
    BY <1>1, UsedFinite, SlotsFacts
<1> QED BY <1>3, <1>4, <1>5, CountOfNext

-----------------------------------------------------------------------------
(* The hash and the indexes of the slots.                                  *)
LEMMA IndexThreadStep ==
    ASSUME F!FastCacheAssumption, FCType, IndexInv, NEW n \in Nodes, F!__fastcache_write(n)
    PROVE  IndexInv'
<1> USE DEF FCType
<1>1. CASE F!__fastcache_write_get(n)
    BY <1>1 DEF F!__fastcache_write_get, F!Thread, F!store, F!client, IndexInv, ThreadType
<1>2. CASE F!__fastcache_write_scan(n)
    BY <1>2 DEF F!__fastcache_write_scan, F!Thread, F!store, F!client, IndexInv, ThreadType
<1>3. CASE F!__fastcache_write_seek(n)
    BY <1>3 DEF F!__fastcache_write_seek, F!Thread, F!client, IndexInv, ThreadType
<1>4. CASE F!__fastcache_write_data(n)
    BY <1>4 DEF F!__fastcache_write_data, F!Thread, F!client, IndexInv, ThreadType
<1>5. CASE F!__fastcache_write_index(n)
    <2> DEFINE i == ti[n]
    <2>1. /\ t[n] = "index" /\ t' = [t EXCEPT ![n] = "hash"] /\ index_s[n][i] = NULL
          /\ index_s' = [index_s EXCEPT ![n][i] = tp[n]] /\ UNCHANGED <<hash, ti, tp, c, cp, cn, ci>>
        BY <1>5 DEF F!__fastcache_write_index, F!Thread, F!client, IndexInv
    <2>2. NULL \notin Packets /\ tp[n] \in Packets /\ i \in F!Slots(n)
        BY <2>1 DEF F!FastCacheAssumption, ThreadType
    <2>3. /\ index_s'[n][i] = tp[n]
          /\ \A k \in F!Slots(n) \ {i} : index_s'[n][k] = index_s[n][k]
          /\ \A m \in Nodes \ {n} : index_s'[m] = index_s[m]
        BY <2>1, <2>2 DEF StoreType
    <2>0. i \in Nat /\ block[n] \in Nat /\ \A p \in Packets : hash[n][p] \in 0..block[n]
        BY SlotsFacts DEF ThreadType, StoreType
    <2> HIDE DEF i
    <2>4. ASSUME NEW p \in Packets, hash[n][p] = i + 1
          PROVE  FALSE
        <3>1. hash[n][p] # 0 /\ hash[n][p] - 1 = i
            BY <2>0, <2>4
        <3>2. index_s[n][hash[n][p] - 1] = p
            BY <3>1 DEF IndexInv
        <3> QED BY <2>1, <2>2, <3>1, <3>2
    <2>5. ASSUME NEW m \in Nodes, NEW p \in Packets, hash[m][p] # 0
          PROVE  index_s'[m][hash[m][p] - 1] = p
        <3>1. CASE m = n
            <4>1. hash[n][p] - 1 \in F!Slots(n) \ {i}
                BY <2>0, <2>4, <2>5, <3>1 DEF F!Slots
            <4> QED BY <2>3, <2>5, <3>1, <4>1 DEF IndexInv
        <3>2. CASE m # n
            BY <2>3, <2>5, <3>2 DEF IndexInv
        <3> QED BY <3>1, <3>2
    <2>6. ASSUME NEW m \in Nodes
          PROVE  /\ t'[m] \in {"seek", "data", "index"} => index_s'[m][ti[m]] = NULL
                 /\ t'[m] = "hash" => /\ index_s'[m][ti[m]] = tp[m]
                                      /\ \A p \in Packets : hash[m][p] # ti[m] + 1
        BY <2>1, <2>3, <2>4 DEF IndexInv, ThreadType, i
    <2>7. ASSUME c \in {"read_seek", "read", "del", "index"}
          PROVE  index_s'[cn][ci] = cp /\ (t'[cn] = "hash" => ti[cn] # ci)
        <3>1. cn = n => ci # i
            BY <2>1, <2>2, <2>7 DEF IndexInv, ClientType
        <3> QED BY <2>1, <2>3, <2>7, <3>1 DEF IndexInv, ClientType, ThreadType, i
    <2> QED BY <2>1, <2>5, <2>6, <2>7 DEF IndexInv
<1>6. CASE F!__fastcache_write_hash(n)
    <2> DEFINE i == ti[n]
               e == tp[n]
    <2>1. /\ t[n] = "hash" /\ t' = [t EXCEPT ![n] = "get"] /\ UNCHANGED <<index_s, ti, c, cp, cn, ci>>
          /\ hash' = [hash EXCEPT ![n][e] = i + 1] /\ tp' = [tp EXCEPT ![n] = NULL]
          /\ index_s[n][i] = e /\ e \in Packets /\ i \in F!Slots(n)
        BY <1>6 DEF F!__fastcache_write_hash, F!Thread, F!client, IndexInv, ThreadType
    <2>2. /\ hash'[n][e] = i + 1
          /\ \A p \in Packets \ {e} : hash'[n][p] = hash[n][p]
          /\ \A m \in Nodes \ {n} : hash'[m] = hash[m]
        BY <2>1 DEF StoreType
    <2>3. i \in Nat
        BY DEF ThreadType
    <2> HIDE DEF i, e
    <2>4. ASSUME NEW m \in Nodes, NEW p \in Packets, hash'[m][p] # 0
          PROVE  index_s[m][hash'[m][p] - 1] = p
        <3>1. CASE m = n /\ p = e
            BY <2>1, <2>2, <2>3, <3>1
        <3>2. CASE ~(m = n /\ p = e)
            BY <2>2, <2>4, <3>2 DEF IndexInv
        <3> QED BY <3>1, <3>2
    <2>5. ASSUME NEW m \in Nodes, t'[m] = "hash"
          PROVE  m # n /\ t[m] = "hash" /\ tp'[m] = tp[m] /\ hash'[m] = hash[m]
        BY <2>1, <2>2, <2>5 DEF ThreadType
    <2>6. ASSUME NEW m \in Nodes, t'[m] \in {"seek", "data", "index"}
          PROVE  index_s[m][ti[m]] = NULL
        BY <2>1, <2>6 DEF IndexInv, ThreadType
    <2>7. ASSUME c \in {"read_seek", "read", "del", "index"}
          PROVE  index_s[cn][ci] = cp /\ (t'[cn] = "hash" => ti[cn] # ci)
        BY <2>5, <2>7 DEF IndexInv, ClientType
    <2>8. ASSUME c = "index", NEW p \in Packets
          PROVE  hash'[cn][p] # ci + 1
        <3>1. cn \in Nodes /\ ci \in Int /\ (cn = n => i # ci)
            BY <2>1, <2>8 DEF IndexInv, ClientType, F!Slots, i
        <3> QED BY <2>2, <2>3, <2>8, <3>1 DEF IndexInv
    <2> QED BY <2>1, <2>4, <2>5, <2>6, <2>7, <2>8 DEF IndexInv
<1> QED BY <1>1, <1>2, <1>3, <1>4, <1>5, <1>6 DEF F!__fastcache_write

LEMMA IndexClientStep ==
    ASSUME F!FastCacheAssumption, FCType, IndexInv, F!ClientCalls \/ F!ClientGoesOn
    PROVE  IndexInv'
<1> USE DEF FCType
<1>1. ASSUME NEW p \in Packets, NEW n \in nodes, F!fastcache_read_find(p, n) \/ F!fastcache_clean_find(p, n)
      PROVE  IndexInv'
    <2>1. /\ n \in Nodes /\ hash[n][p] # 0 /\ cp' = p /\ cn' = n /\ ci' = hash[n][p] - 1
          /\ c' \in {"read_seek", "read", "del"} /\ UNCHANGED <<index_s, hash, t, ti, tp>>
        BY <1>1 DEF F!fastcache_read_find, F!fastcache_clean_find, F!Find, F!Client, F!store, F!threads, QueueType
    <2>2. t[n] = "hash" => ti[n] # hash[n][p] - 1
        BY <2>1, SlotsFacts DEF IndexInv, StoreType, ThreadType
    <2> QED BY <2>1, <2>2 DEF IndexInv
<1>2. CASE F!fastcache_read_seek
    BY <1>2 DEF F!fastcache_read_seek, F!Client, F!threads, IndexInv
<1>3. CASE F!fastcache_read_data
    BY <1>3 DEF F!fastcache_read_data, F!Client, F!threads, IndexInv
<1>4. CASE F!fastcache_clean_del
    <2>1. /\ c = "del" /\ c' = "index" /\ hash' = [hash EXCEPT ![cn][cp] = 0]
          /\ UNCHANGED <<index_s, t, ti, tp, cp, cn, ci>>
          /\ cn \in Nodes /\ cp \in Packets /\ ci \in F!Slots(cn) /\ index_s[cn][ci] = cp
        BY <1>4 DEF F!fastcache_clean_del, F!Client, F!threads, ClientType, IndexInv
    <2>2. /\ hash'[cn][cp] = 0
          /\ \A p \in Packets \ {cp} : hash'[cn][p] = hash[cn][p]
          /\ \A m \in Nodes \ {cn} : hash'[m] = hash[m]
        BY <2>1 DEF StoreType
    <2>3. \A m \in Nodes, p \in Packets : hash'[m][p] \in {0, hash[m][p]}
        BY <2>1, <2>2
    <2>4. ASSUME NEW m \in Nodes, t[m] = "hash", NEW p \in Packets
          PROVE  hash'[m][p] # ti[m] + 1
        BY <2>3, <2>4 DEF IndexInv, ThreadType
    <2>5. ASSUME NEW p \in Packets
          PROVE  hash'[cn][p] # ci + 1
        <3>1. ci \in Nat
            BY <2>1 DEF F!Slots
        <3>2. CASE p = cp
            BY <2>2, <3>1, <3>2
        <3>3. CASE p # cp
            <4>1. hash[cn][p] = ci + 1 => index_s[cn][hash[cn][p] - 1] = p /\ hash[cn][p] - 1 = ci
                BY <2>1, <3>1 DEF IndexInv
            <4> QED BY <2>1, <2>2, <3>3, <4>1
        <3> QED BY <3>2, <3>3
    <2> QED BY <2>1, <2>3, <2>4, <2>5 DEF IndexInv
<1>5. CASE F!fastcache_clean_index
    <2>1. /\ c = "index" /\ c' = "count" /\ index_s' = [index_s EXCEPT ![cn][ci] = NULL]
          /\ UNCHANGED <<hash, t, ti, tp, cp, cn, ci>> /\ cn \in Nodes /\ ci \in F!Slots(cn)
        BY <1>5 DEF F!fastcache_clean_index, F!Client, F!threads, ClientType
    <2>2. /\ index_s'[cn][ci] = NULL
          /\ \A k \in F!Slots(cn) \ {ci} : index_s'[cn][k] = index_s[cn][k]
          /\ \A m \in Nodes \ {cn} : index_s'[m] = index_s[m]
        BY <2>1 DEF StoreType
    <2>3. ASSUME NEW m \in Nodes, NEW p \in Packets, hash[m][p] # 0
          PROVE  index_s'[m][hash[m][p] - 1] = p
        <3>1. CASE m = cn
            <4>1. hash[m][p] - 1 \in F!Slots(cn) \ {ci}
                <5>1. hash[cn][p] # ci + 1 /\ hash[cn][p] # 0
                    BY <2>1, <2>3, <3>1 DEF IndexInv
                <5>2. block[cn] \in Nat /\ ci \in Int /\ hash[cn][p] \in 0..block[cn]
                    <6>1. block[cn] \in Nat
                        BY <2>1, SlotsFacts
                    <6>2. ci \in Int
                        BY <2>1 DEF F!Slots
                    <6> QED BY <2>1, <6>1, <6>2 DEF StoreType
                <5> QED BY <3>1, <5>1, <5>2 DEF F!Slots
            <4> QED BY <2>2, <2>3, <3>1, <4>1 DEF IndexInv
        <3>2. CASE m # cn
            BY <2>2, <2>3, <3>2 DEF IndexInv
        <3> QED BY <3>1, <3>2
    <2>4. ASSUME NEW m \in Nodes
          PROVE  /\ t[m] \in {"seek", "data", "index"} => index_s'[m][ti[m]] = NULL
                 /\ t[m] = "hash" => index_s'[m][ti[m]] = tp[m]
        <3>1. t[m] = "hash" => ~(m = cn /\ ti[m] = ci)
            BY <2>1 DEF IndexInv
        <3> QED BY <2>1, <2>2, <3>1 DEF IndexInv, ThreadType
    <2> QED BY <2>1, <2>3, <2>4 DEF IndexInv
<1>6. CASE F!fastcache_clean_count
    BY <1>6 DEF F!fastcache_clean_count, F!Client, F!store, F!threads, IndexInv
<1>7. CASE F!fastcache_clean_num
    BY <1>7 DEF F!fastcache_clean_num, F!Client, F!store, F!threads, IndexInv
<1> QED BY <1>1, <1>2, <1>3, <1>4, <1>5, <1>6, <1>7 DEF F!ClientCalls, F!ClientGoesOn

LEMMA IndexRestart ==
    ASSUME FCType, F!Restart
    PROVE  IndexInv'
    BY DEF F!Restart, IndexInv

-----------------------------------------------------------------------------
(* What the slots hold.                                                    *)
LEMMA DataThreadStep ==
    ASSUME F!FastCacheAssumption, FCType, IndexInv, DataInv, NEW n \in Nodes, F!__fastcache_write(n),
           ~crossed'
    PROVE  DataInv'
<1> USE DEF FCType
<1>f. File \subseteq Nodes
    BY DEF F!FastCacheAssumption
<1>1. CASE F!__fastcache_write_get(n)
    BY <1>1, <1>f DEF F!__fastcache_write_get, F!Thread, F!store, F!client, DataInv, ThreadType
<1>2. CASE F!__fastcache_write_scan(n)
    BY <1>2, <1>f DEF F!__fastcache_write_scan, F!Thread, F!store, F!client, DataInv, ThreadType
<1>3. CASE F!__fastcache_write_seek(n)
    <2>1. /\ t[n] = "seek" /\ t' = [t EXCEPT ![n] = "data"] /\ pos' = [pos EXCEPT ![n] = ti[n]]
          /\ UNCHANGED <<hash, data, ti, tp, c, cp, cn, ci>> /\ n \in File
          /\ ~(c = "read" /\ cn = n)
        BY <1>3 DEF F!__fastcache_write_seek, F!ClientSought, F!Thread, F!client, ThreadType
    <2>2. \A m \in File : t'[m] = "data" => pos'[m] = ti[m] /\ ~(c = "read" /\ cn = m)
        BY <1>f, <2>1 DEF DataInv, StoreType, ThreadType
    <2>3. c = "read" /\ cn \in File => pos'[cn] = ci
        BY <1>f, <2>1 DEF DataInv, StoreType
    <2>4. \A m \in Nodes : t'[m] \in {"index", "hash"} => data[m][ti[m]] = tp[m]
        BY <2>1 DEF DataInv, ThreadType
    <2> QED BY <2>1, <2>2, <2>3, <2>4 DEF DataInv
<1>4. CASE F!__fastcache_write_data(n)
    <2> DEFINE j == IF n \in File THEN pos[n] ELSE ti[n]
    <2>1. /\ t[n] = "data" /\ t' = [t EXCEPT ![n] = "index"]
          /\ data' = [data EXCEPT ![n][IF j > block[n] THEN block[n] ELSE j] = tp[n]]
          /\ UNCHANGED <<hash, index_s, ti, tp, c, cp, cn, ci>>
          /\ \A m \in Nodes \ {n} : pos'[m] = pos[m]
          /\ n \notin File => pos' = pos
        BY <1>4 DEF F!__fastcache_write_data, F!Thread, F!client, StoreType
    <2>2. j = ti[n] /\ ti[n] \in F!Slots(n) /\ ti[n] \in Nat /\ index_s[n][ti[n]] = NULL
        BY <2>1 DEF DataInv, ThreadType, IndexInv
    <2>3. block[n] \in Nat /\ ti[n] \in 0..block[n] /\ ~(ti[n] > block[n])
        BY <2>2, SlotsFacts DEF F!Slots
    <2> HIDE DEF j
    <2>4. data' = [data EXCEPT ![n][ti[n]] = tp[n]]
        BY <2>1, <2>2, <2>3
    <2>5. /\ data'[n][ti[n]] = tp[n]
          /\ \A k \in F!Slots(n) \ {ti[n]} : data'[n][k] = data[n][k]
          /\ \A m \in Nodes \ {n} : data'[m] = data[m]
        BY <2>3, <2>4, SlotsFacts DEF StoreType
    <2>6. ASSUME NEW k \in F!Slots(n), index_s[n][k] # NULL
          PROVE  data'[n][k] = data[n][k]
        BY <2>2, <2>5, <2>6
    <2>7. ASSUME NEW m \in Nodes, NEW p \in Packets, hash[m][p] # 0
          PROVE  data'[m][hash[m][p] - 1] = p
        <3>1. hash[m][p] - 1 \in F!Slots(m)
            <4>1. hash[m][p] \in 0..block[m] /\ block[m] \in Nat
                BY SlotsFacts DEF StoreType
            <4> QED BY <2>7, <4>1 DEF F!Slots
        <3>2. index_s[m][hash[m][p] - 1] # NULL
            BY <2>7 DEF IndexInv, F!FastCacheAssumption
        <3> QED BY <2>5, <2>6, <2>7, <3>1, <3>2 DEF DataInv
    <2>8. \A m \in Nodes : t'[m] \in {"index", "hash"} => data'[m][ti[m]] = tp[m]
        BY <2>1, <2>5 DEF DataInv, ThreadType
    <2>9. \A m \in File : t'[m] = "data" => pos'[m] = ti[m] /\ ~(c = "read" /\ cn = m)
        BY <1>f, <2>1 DEF DataInv, ThreadType
    <2>10. ASSUME c \in {"read_seek", "read"}
           PROVE  data'[cn][ci] = cp
        <3>1. cn \in Nodes /\ ci \in F!Slots(cn) /\ index_s[cn][ci] = cp /\ cp # NULL
            BY <2>10 DEF IndexInv, ClientType, F!FastCacheAssumption
        <3> QED BY <2>5, <2>6, <2>10, <3>1 DEF DataInv
    <2>11. c = "read" /\ cn \in File => pos'[cn] = ci
        BY <1>f, <2>1 DEF DataInv
    <2> QED BY <2>1, <2>7, <2>8, <2>9, <2>10, <2>11 DEF DataInv
<1>5. CASE F!__fastcache_write_index(n)
    BY <1>5, <1>f DEF F!__fastcache_write_index, F!Thread, F!client, DataInv, ThreadType
<1>6. CASE F!__fastcache_write_hash(n)
    <2>1. /\ t[n] = "hash" /\ t' = [t EXCEPT ![n] = "get"]
          /\ hash' = [hash EXCEPT ![n][tp[n]] = ti[n] + 1] /\ tp' = [tp EXCEPT ![n] = NULL]
          /\ UNCHANGED <<data, pos, ti, c, cp, cn, ci>>
        BY <1>6 DEF F!__fastcache_write_hash, F!Thread, F!client
    <2>2. data[n][ti[n]] = tp[n] /\ ti[n] \in Nat
        BY <2>1 DEF DataInv, ThreadType
    <2>3. \A m \in Nodes, p \in Packets :
                hash'[m][p] = IF m = n /\ p = tp[n] THEN ti[n] + 1 ELSE hash[m][p]
        BY <2>1 DEF StoreType
    <2>4. ASSUME NEW m \in Nodes, NEW p \in Packets, hash'[m][p] # 0
          PROVE  data[m][hash'[m][p] - 1] = p
        BY <2>2, <2>3, <2>4 DEF DataInv
    <2>5. ASSUME NEW m \in Nodes, t'[m] \in {"index", "hash"}
          PROVE  data[m][ti[m]] = tp'[m]
        BY <2>1, <2>5 DEF DataInv, ThreadType
    <2>6. \A m \in Nodes : t'[m] = "data" => t[m] = "data"
        BY <2>1 DEF ThreadType
    <2> QED BY <1>f, <2>1, <2>4, <2>5, <2>6 DEF DataInv
<1> QED BY <1>1, <1>2, <1>3, <1>4, <1>5, <1>6 DEF F!__fastcache_write

LEMMA DataClientStep ==
    ASSUME F!FastCacheAssumption, FCType, DataInv, F!ClientCalls \/ F!ClientGoesOn, ~crossed'
    PROVE  DataInv'
<1> USE DEF FCType
<1>f. File \subseteq Nodes
    BY DEF F!FastCacheAssumption
<1>1. ASSUME NEW p \in Packets, NEW n \in nodes, F!fastcache_read_find(p, n) \/ F!fastcache_clean_find(p, n)
      PROVE  DataInv'
    <2>1. /\ n \in Nodes /\ hash[n][p] # 0 /\ cp' = p /\ cn' = n /\ ci' = hash[n][p] - 1
          /\ c' \in {"read_seek", "del"} \/ (c' = "read" /\ n \notin File)
          /\ UNCHANGED <<data, pos, hash, t, ti, tp>>
        BY <1>1 DEF F!fastcache_read_find, F!fastcache_clean_find, F!Find, F!Client, F!store, F!threads, QueueType
    <2> QED BY <2>1 DEF DataInv
<1>2. CASE F!fastcache_read_seek
    <2>1. /\ pos' = [pos EXCEPT ![cn] = ci] /\ t[cn] # "data" /\ c = "read_seek" /\ c' = "read"
          /\ UNCHANGED <<data, hash, t, ti, tp, cp, cn, ci>> /\ cn \in Nodes
        BY <1>2 DEF F!fastcache_read_seek, F!Client, F!threads, ClientType
    <2>2. pos'[cn] = ci /\ \A m \in Nodes \ {cn} : pos'[m] = pos[m]
        BY <2>1 DEF StoreType
    <2> QED BY <1>f, <2>1, <2>2 DEF DataInv
<1>3. CASE F!fastcache_read_data
    <2>1. /\ \A m \in Nodes : pos'[m] = pos[m] \/ (m = cn /\ cn \in File)
          /\ c = "read" /\ c' = "idle" /\ UNCHANGED <<data, hash, t, ti, tp>>
        BY <1>3 DEF F!fastcache_read_data, F!Client, F!threads, StoreType
    <2> QED BY <1>f, <2>1 DEF DataInv
<1>4. CASE F!fastcache_clean_del
    <2>1. /\ c = "del" /\ c' = "index" /\ hash' = [hash EXCEPT ![cn][cp] = 0]
          /\ UNCHANGED <<data, pos, t, ti, tp>>
        BY <1>4 DEF F!fastcache_clean_del, F!Client, F!threads
    <2>2. \A m \in Nodes, p \in Packets : hash'[m][p] \in {0, hash[m][p]}
        BY <2>1 DEF StoreType
    <2> QED BY <2>1, <2>2 DEF DataInv
<1>5. CASE F!fastcache_clean_index
    BY <1>5 DEF F!fastcache_clean_index, F!Client, F!threads, DataInv
<1>6. CASE F!fastcache_clean_count
    BY <1>6 DEF F!fastcache_clean_count, F!Client, F!store, F!threads, DataInv
<1>7. CASE F!fastcache_clean_num
    BY <1>7 DEF F!fastcache_clean_num, F!Client, F!store, F!threads, DataInv
<1> QED BY <1>1, <1>2, <1>3, <1>4, <1>5, <1>6, <1>7 DEF F!ClientCalls, F!ClientGoesOn

LEMMA DataRestart ==
    ASSUME F!FastCacheAssumption, F!Restart
    PROVE  DataInv'
    BY DEF F!Restart, DataInv, F!FastCacheAssumption

-----------------------------------------------------------------------------
(* Everything together.                                                    *)
LEMMA FCInit ==
    ASSUME F!FastCacheAssumption, F!Init
    PROVE  FCInv
<1>1. FCType
    BY TypeInit
<1>2. NodeCounts
    <2> SUFFICES ASSUME NEW n \in Nodes
                 PROVE  count[n] = F!CountOf(n) /\ count[n] + Dealt(n) <= block[n]
        BY DEF NodeCounts
    <2>1. F!Used(n) = {} /\ Len(nq[n]) = 0 /\ F!InHand(n) = 0 /\ Dealt(n) = 0 /\ Cleared(n) = 0
          /\ count[n] = 0
        BY DEF F!Init, F!Used, F!InHand, Dealt, Cleared
    <2>2. Cardinality(F!Used(n)) = 0
        BY <2>1, FS_EmptySet
    <2>3. F!CountOf(n) = 0 + 0 + 0 - 0 + 0 /\ block[n] \in Nat
        BY <1>1, <2>1, <2>2, CountParts
    <2> QED BY <2>1, <2>3
<1>3. IndexInv
    BY DEF F!Init, IndexInv
<1>4. DataInv
    BY DEF F!Init, DataInv, F!FastCacheAssumption
<1> QED BY <1>1, <1>2, <1>3, <1>4 DEF FCInv

LEMMA FCStep ==
    ASSUME F!FastCacheAssumption, FCInv, [F!Next]_(F!vars)
    PROVE  FCInv'
<1> USE DEF FCInv
<1>c. crossed => crossed'
    BY DEF F!Next, F!vars, F!store, F!fastcache_write, F!fastcache_write_test, F!fastcache_write_add,
           F!fastcache_write_put, F!_fastcache_write, F!_fastcache_write_get, F!_fastcache_write_choose,
           F!_fastcache_write_count, F!__fastcache_write, F!__fastcache_write_get,
           F!__fastcache_write_scan, F!__fastcache_write_seek, F!__fastcache_write_data,
           F!__fastcache_write_index, F!__fastcache_write_hash, F!ClientCalls, F!ClientGoesOn,
           F!fastcache_read_find, F!fastcache_clean_find, F!fastcache_read_seek, F!fastcache_read_data,
           F!fastcache_clean_del, F!fastcache_clean_index, F!fastcache_clean_count,
           F!fastcache_clean_num, F!Restart
<1>1. CASE (\E x \in Writers : F!fastcache_write(x)) \/ F!_fastcache_write
    <2>1. QueueType' /\ UNCHANGED <<index_s, data, hash, pos, t, tp, ti, c, cp, cn, ci, crossed>>
        BY <1>1, QueueTypeStep
    <2>2. FCType'
        BY <2>1 DEF FCType, ThreadType, StoreType, ClientType
    <2>3. IndexInv' /\ (crossed \/ DataInv)'
        BY <2>1 DEF IndexInv, DataInv
    <2> QED BY <1>1, <2>2, <2>3, CountsQueueStep
<1>2. ASSUME NEW n \in Nodes, F!__fastcache_write(n) PROVE FCInv'
    BY <1>2, <1>c, ThreadTypeStep, CountsThreadStep, IndexThreadStep, DataThreadStep
<1>3. CASE F!ClientCalls \/ F!ClientGoesOn
    BY <1>3, <1>c, ClientTypeStep, CountsClientStep, IndexClientStep, DataClientStep
<1>4. CASE F!Restart
    BY <1>4, RestartType, CountsRestart, IndexRestart, DataRestart
<1>5. CASE UNCHANGED F!vars
    <2>1. UNCHANGED <<nodes, count, q, nq, w, wp, d, dp, dn, index_s, data, hash, pos, crossed,
                      t, tp, ti, c, cp, cn, ci>>
        BY <1>5 DEF F!vars, F!counters, F!writers, F!dispatcher, F!store, F!threads, F!client
    <2>2. \A n \in Nodes : /\ F!InHand(n)' = F!InHand(n) /\ Dealt(n)' = Dealt(n)
                            /\ Cleared(n)' = Cleared(n)
        BY <2>1 DEF F!InHand, Dealt, Cleared
    <2>3. NodeCounts'
        BY <2>1, <2>2, CountsStay
    <2>4. FCType'
        BY <2>1 DEF FCType, QueueType, ThreadType, StoreType, ClientType
    <2>5. IndexInv' /\ (crossed \/ DataInv)'
        BY <2>1 DEF IndexInv, DataInv
    <2> QED BY <2>3, <2>4, <2>5
<1> QED BY <1>1, <1>2, <1>3, <1>4, <1>5 DEF F!Next

(* The counts of the nodes are exact between the steps of all threads, and *)
(* the slots, the indexes and the hash agree (fastcache.c), with one client*)
(* that reads and cleans.                                                  *)
THEOREM FastCacheInvariance ==
    ASSUME F!FastCacheAssumption
    PROVE  F!Spec => []FCInv
<1>1. F!Init => FCInv
    BY FCInit
<1>2. FCInv /\ [F!Next]_(F!vars) => FCInv'
    BY FCStep
<1> QED BY <1>1, <1>2, PTL DEF F!Spec

(* The thread of a node finds a free slot for each packet dealt to it: the *)
(* dispatcher tests fn->count before it deals (_fastcache_write).  One     *)
(* client cleans: two that clean one index both count it off               *)
(* (fastcache_clean), and the node is dealt a packet too many.             *)
THEOREM FastCacheSlots ==
    ASSUME F!FastCacheAssumption
    PROVE  F!Spec => []F!SlotForEach
<1>1. ASSUME FCInv PROVE F!SlotForEach
    <2> SUFFICES ASSUME NEW n \in Nodes
                 PROVE  Cardinality(F!Used(n)) + Len(nq[n]) + F!InHand(n) <= block[n]
        BY SameCardinality DEF F!SlotForEach
    <2>1. FCType /\ count[n] = F!CountOf(n) /\ count[n] + Dealt(n) <= block[n]
        BY <1>1 DEF FCInv, NodeCounts
    <2> QED BY <2>1, CountParts
<1> QED BY <1>1, FastCacheInvariance, PTL

(* A client that asks for an index gets the packet of that index, while    *)
(* slots are freed by itself and filled beside it, as long as no two       *)
(* threads use the position of one file at once (fastcache_read).  Nobody  *)
(* else cleans between its hash_get and its read: there is one client.     *)
THEOREM FastCacheReads ==
    ASSUME F!FastCacheAssumption
    PROVE  F!Spec => []F!ReadsRight
<1>1. ASSUME FCInv, c = "read", ~crossed PROVE F!Read = cp
    <2>1. /\ cn \in Nodes /\ ci \in F!Slots(cn) /\ data[cn][ci] = cp
          /\ cn \in File => pos[cn] = ci
        BY <1>1 DEF FCInv, FCType, ClientType, DataInv
    <2>2. ~(ci > block[cn])
        BY <2>1, SlotsFacts DEF F!Slots
    <2> QED BY <2>1, <2>2 DEF F!Read
<1>2. FCInv => F!ReadsRight
    BY <1>1 DEF F!ReadsRight
<1> QED BY <1>2, FastCacheInvariance, PTL
=============================================================================
