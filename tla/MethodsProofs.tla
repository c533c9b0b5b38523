---------------------------- MODULE MethodsProofs ----------------------------
(***************************************************************************)
(* The safety of the calls, for any number of threads, addresses and       *)
(* sizes.  What the clients see is not inductive: it needs to be known how *)
(* far each call is (Shape), which sizes it may rely on (SizesKnown) and   *)
(* where the client's data are (DataSafe).  These three, CallOK together,  *)
(* are about one thread and the blocks it has in flight, so that a step of *)
(* another thread cannot disturb them (Combine); one lemma per step shows  *)
(* that the stepping thread keeps its own.                                 *)
(*                                                                         *)
(* With the invariant, each step is shown to be seen by the clients as one *)
(* of MallocAPI, or not at all: the calls are atomic.                      *)
(***************************************************************************)
EXTENDS Methods, TLAPS

Allocating == {"m_lock", "m_find", "m_add", "m_unlock"}
Sizing == {"r_size", "s_lock", "s_shrink", "e_lock", "e_expand"}

(* How far the call is, and which of its variables are set. *)
Shape(t) ==
  LET r == req[t] IN
  /\ pc[t] = "idle" => r = NoReq
  /\ pc[t] # "idle" => r.op # "none"
  /\ r.op \in {"malloc", "calloc"} => r.ptr = nullptr
  /\ r.op = "free" => r.new_a = nullptr /\ r.result = nullptr
  /\ r.op = "realloc" /\ r.result = nullptr => r.ptr # nullptr
  /\ r.ptr = r.new_a => r.ptr = nullptr
  /\ r.result \in {r.ptr, r.new_a, nullptr}
  /\ pc[t] \in Allocating =>
       r.op \in {"malloc", "calloc", "realloc"} /\ r.size > 0 /\ r.result = nullptr
  /\ pc[t] \in {"m_lock", "m_find", "m_add"} => r.new_a = nullptr
  /\ pc[t] = "m_add" => r.place # nullptr
  /\ pc[t] = "c_zero" => r.op = "calloc" /\ r.new_a # nullptr /\ r.result = nullptr
  /\ pc[t] = "r_copy" => r.op = "realloc" /\ r.new_a # nullptr /\ r.result = nullptr
  /\ pc[t] \in {"f_lock", "f_remove"} => r.ptr # nullptr
  /\ pc[t] = "f_unlock" => r.ptr = nullptr
  /\ pc[t] \in {"f_lock", "f_remove", "f_unlock"} =>
       r.op = "free" \/ (r.op = "realloc" /\ r.new_a # nullptr /\ r.result = r.new_a)
  /\ pc[t] \in Sizing =>
       r.op = "realloc" /\ r.size > 0 /\ r.new_a = nullptr /\ r.result = nullptr
  /\ pc[t] \in {"s_unlock", "e_unlock"} =>
       r.op = "realloc" /\ r.size > 0 /\ r.new_a = nullptr /\ r.result \in {r.ptr, nullptr}
  /\ pc[t] = "s_unlock" => r.result # nullptr
  /\ pc[t] = "ret" =>
       /\ r.op \in {"malloc", "calloc"} => r.result = r.new_a
       /\ r.op = "free" => r.ptr = nullptr
       /\ r.op = "realloc" => InFlight(t) = {IF r.result = nullptr THEN r.ptr ELSE r.result}

(* The sizes of the blocks it works on. *)
SizesKnown(t) ==
  LET r == req[t] IN
  /\ r.new_a # nullptr => blocks[r.new_a] = r.size
  /\ pc[t] \in {"s_lock", "s_shrink"} => blocks[r.ptr] = r.old_size /\ r.size < r.old_size
  /\ /\ r.op = "realloc" /\ r.result = nullptr
     /\ \/ pc[t] \in Allocating \cup {"e_lock", "e_expand", "e_unlock", "r_copy"}
        \/ pc[t] = "ret" /\ r.size # 0
     => blocks[r.ptr] = r.old_size /\ r.old_size < r.size

(* Where the data are that the client will rely on. *)
DataSafe(t) ==
  LET r == req[t] IN
  /\ r.op = "realloc" /\ r.result = nullptr =>
       /\ r.trust.count <= blocks[r.ptr]
       /\ \A i \in 1..r.trust.count : mem[r.ptr][i] = r.trust.tag
  /\ r.op = "realloc" /\ r.result # nullptr =>
       /\ blocks[r.result] = r.size
       /\ \A i \in 1..r.trust.count : i <= r.size => mem[r.result][i] = r.trust.tag
  /\ r.op = "calloc" /\ r.result # nullptr =>
       \A i \in 1..r.size : mem[r.result][i] = Zero

CallOK(t) == Shape(t) /\ SizesKnown(t) /\ DataSafe(t)

MIInv ==
  /\ MTypeOK /\ LockDiscipline /\ EveryBlockAccounted /\ PlaceStillFree /\ DataIntact
  /\ \A t \in Threads : CallOK(t)

-----------------------------------------------------------------------------
(* Frames.                                                                 *)

(* A step of t leaves the other threads where they are. *)
Others(t) == \A u \in Threads \ {t} : pc'[u] = pc[u] /\ req'[u] = req[u]

(* The block at p stays as it is. *)
Kept(p) == p \in DOMAIN blocks' /\ blocks'[p] = blocks[p] /\ mem'[p] = mem[p]

(* A call that works on the same blocks, unchanged, keeps its invariant.   *)
LEMMA CallFrame ==
  ASSUME NEW t, CallOK(t), pc'[t] = pc[t], req'[t] = req[t], MTypeOK, t \in Threads,
         \A p \in InFlight(t) : Kept(p)
  PROVE  CallOK(t)'
<1>1. InFlight(t)' = InFlight(t)
  BY DEF InFlight
<1>2. Shape(t)'
  BY <1>1 DEF CallOK, Shape
<1>3. /\ req[t].ptr # nullptr => Kept(req[t].ptr)
      /\ req[t].new_a # nullptr => Kept(req[t].new_a)
  BY DEF InFlight
<1>4. /\ req[t].op = "realloc" /\ req[t].result = nullptr => req[t].ptr # nullptr
      /\ pc[t] \in {"s_lock", "s_shrink"} => req[t].ptr # nullptr
  BY DEF CallOK, Shape, Sizing
<1>5. SizesKnown(t)'
  BY <1>3, <1>4 DEF CallOK, SizesKnown, Kept
<1>6. req[t].result # nullptr /\ req[t].op \in {"realloc", "calloc"} => Kept(req[t].result)
  <2>1. req[t].result # nullptr /\ req[t].op \in {"realloc", "calloc"}
          => req[t].result \in InFlight(t)
    BY DEF CallOK, Shape, InFlight
  <2>2. QED
    BY <2>1
<1>7. DataSafe(t)'
  BY <1>3, <1>4, <1>6 DEF CallOK, DataSafe, Kept
<1>8. QED
  BY <1>2, <1>5, <1>7 DEF CallOK

(* What a step of t must show for the invariant to be kept.                *)
LEMMA Combine ==
  ASSUME MIInv, NEW t \in Threads, Others(t),
         MTypeOK', LockDiscipline', EveryBlockAccounted', DataIntact', CallOK(t)',
         \A u \in Threads \ {t} : \A p \in InFlight(u) : Kept(p),
         pc'[t] = "m_add" => req'[t].place \notin DOMAIN blocks',
         DOMAIN blocks' \subseteq DOMAIN blocks \/ pc[t] \in Critical
  PROVE  MIInv'
<1>1. ASSUME NEW u \in Threads \ {t} PROVE CallOK(u)'
  BY <1>1, CallFrame DEF MIInv, Others
<1>2. ASSUME NEW u \in Threads, pc'[u] = "m_add" PROVE req'[u].place \notin DOMAIN blocks'
  <2>1. CASE u = t
    BY <2>1, <1>2
  <2>2. CASE u # t
    <3>1. pc[u] = "m_add" /\ req'[u] = req[u]
      BY <1>2, <2>2 DEF Others
    <3>2. pc[t] \notin Critical
      BY <2>2, <3>1 DEF MIInv, LockDiscipline, Critical
    <3>3. QED
      BY <3>1, <3>2 DEF MIInv, PlaceStillFree
  <2>3. QED
    BY <2>1, <2>2
<1>3. QED
  BY <1>1, <1>2 DEF MIInv, PlaceStillFree

(* The blocks of a step of t: A is allocated, D freed.                     *)
LEMMA AccountStep ==
  ASSUME EveryBlockAccounted, NEW t \in Threads, Others(t), NEW A, NEW D,
         D \subseteq InFlight(t), A \cap DOMAIN blocks = {},
         DOMAIN blocks' = (DOMAIN blocks \ D) \cup A,
         DOMAIN held' \cup InFlight(t)' = ((DOMAIN held \cup InFlight(t)) \ D) \cup A,
         InFlight(t)' \cap DOMAIN held' = {}
  PROVE  EveryBlockAccounted'
<1> DEFINE Rest == UNION {InFlight(u) : u \in Threads \ {t}}
<1>1. \A u \in Threads \ {t} : InFlight(u)' = InFlight(u)
  BY DEF Others, InFlight
<1>2. Rest' = Rest
  BY <1>1
<1>3. /\ UNION {InFlight(u) : u \in Threads} = InFlight(t) \cup Rest
      /\ UNION {InFlight(u)' : u \in Threads} = InFlight(t)' \cup Rest
  BY <1>1
<1>4. /\ DOMAIN blocks = DOMAIN held \cup InFlight(t) \cup Rest
      /\ Rest \cap InFlight(t) = {} /\ Rest \cap DOMAIN held = {}
  BY <1>3 DEF EveryBlockAccounted
<1>5. DOMAIN blocks' = DOMAIN held' \cup InFlight(t)' \cup Rest
  BY <1>4
<1>6. Rest \cap InFlight(t)' = {} /\ Rest \cap DOMAIN held' = {}
  BY <1>4
<1>7. \A u \in Threads : InFlight(u)' \cap DOMAIN held' = {}
  BY <1>1, <1>6
<1>8. \A u, v \in Threads : u # v => InFlight(u)' \cap InFlight(v)' = {}
  <2>1. \A u \in Threads \ {t} : InFlight(u) \cap InFlight(t)' = {}
    BY <1>6
  <2>2. QED
    BY <1>1, <2>1 DEF EveryBlockAccounted
<1>9. QED
  BY <1>3, <1>5, <1>7, <1>8 DEF EveryBlockAccounted

(* Another thread's blocks are neither t's nor a client's.                 *)
LEMMA Separate ==
  ASSUME EveryBlockAccounted, NEW t \in Threads, NEW u \in Threads \ {t}, NEW p \in InFlight(u)
  PROVE  p \in DOMAIN blocks /\ p \notin InFlight(t) /\ p \notin DOMAIN held
BY DEF EveryBlockAccounted

(* Who holds the lock, after a step of t that leaves it alone, takes it or  *)
(* gives it back.                                                          *)
LEMMA LockKept ==
  ASSUME LockDiscipline, NEW t \in Threads, Others(t), lock' = lock,
         pc'[t] \in Critical <=> pc[t] \in Critical
  PROVE  LockDiscipline'
BY DEF LockDiscipline, Others

(* A step that takes the free lock on its way into the list.               *)
LEMMA LockTaken ==
  ASSUME LockDiscipline, NEW t \in Threads, Others(t), lock = NoThread, lock' = t,
         pc'[t] \in Critical
  PROVE  LockDiscipline'
BY CallsAssumption DEF LockDiscipline, Others

(* A step that leaves the list and frees the lock.                          *)
LEMMA LockGiven ==
  ASSUME LockDiscipline, NEW t \in Threads, Others(t), pc[t] \in Critical, lock' = NoThread,
         pc'[t] \notin Critical
  PROVE  LockDiscipline'
BY CallsAssumption DEF LockDiscipline, Others

(* The clients' data, when no client's block is touched.                   *)
LEMMA DataKept ==
  ASSUME DataIntact, held' = held, \A p \in DOMAIN held : Kept(p)
  PROVE  DataIntact'
BY DEF DataIntact, Kept

(* A step of t that changes nothing but t's place and variables, and       *)
(* perhaps who holds the lock.                                             *)
LEMMA Quiet ==
  ASSUME MIInv, NEW t \in Threads, Others(t), MTypeOK', LockDiscipline',
         UNCHANGED <<blocks, mem, held>>, InFlight(t)' = InFlight(t), CallOK(t)',
         pc'[t] = "m_add" => req'[t].place \notin DOMAIN blocks
  PROVE  MIInv'
<1>1. \A p \in DOMAIN blocks : Kept(p)
  BY DEF Kept
<1>2. EveryBlockAccounted'
  <2>1. /\ DOMAIN blocks' = (DOMAIN blocks \ {}) \cup {} /\ {} \cap DOMAIN blocks = {}
        /\ DOMAIN held' \cup InFlight(t)' = ((DOMAIN held \cup InFlight(t)) \ {}) \cup {}
        /\ InFlight(t)' \cap DOMAIN held' = {} /\ {} \subseteq InFlight(t)
    BY DEF MIInv, EveryBlockAccounted
  <2>2. QED
    BY <2>1, AccountStep DEF MIInv
<1>3. DataIntact'
  BY <1>1, DataKept DEF MIInv, DataIntact
<1>4. \A u \in Threads \ {t} : \A p \in InFlight(u) : Kept(p)
  BY <1>1, Separate DEF MIInv
<1>5. QED
  BY <1>2, <1>3, <1>4, Combine

(* A step of t that works on its own blocks, without a change of the lock:  *)
(* A is allocated, D freed.                                                *)
LEMMA Working ==
  ASSUME MIInv, NEW t \in Threads, Others(t), MTypeOK', lock' = lock, held' = held,
         pc'[t] \in Critical <=> pc[t] \in Critical, pc'[t] # "m_add", CallOK(t)',
         NEW A, NEW D, D \subseteq InFlight(t), A \cap DOMAIN blocks = {},
         DOMAIN blocks' = (DOMAIN blocks \ D) \cup A, A # {} => pc[t] \in Critical,
         InFlight(t)' = (InFlight(t) \ D) \cup A,
         \A p \in DOMAIN blocks \ InFlight(t) : Kept(p)
  PROVE  MIInv'
<1>1. EveryBlockAccounted'
  <2>1. DOMAIN held \subseteq DOMAIN blocks /\ InFlight(t) \cap DOMAIN held = {}
    BY DEF MIInv, EveryBlockAccounted
  <2>2. /\ DOMAIN held' \cup InFlight(t)' = ((DOMAIN held \cup InFlight(t)) \ D) \cup A
        /\ InFlight(t)' \cap DOMAIN held' = {}
    BY <2>1
  <2>3. QED
    BY <2>2, AccountStep DEF MIInv
<1>2. DataIntact'
  BY DataKept DEF MIInv, EveryBlockAccounted
<1>3. \A u \in Threads \ {t} : \A p \in InFlight(u) : Kept(p)
  BY Separate DEF MIInv
<1>4. LockDiscipline'
  BY LockKept DEF MIInv
<1>5. DOMAIN blocks' \subseteq DOMAIN blocks \/ pc[t] \in Critical
  OBVIOUS
<1>6. QED
  BY <1>1, <1>2, <1>3, <1>4, <1>5, Combine

(* The variables of a call.                                                *)
Request ==
  [op : {"none", "malloc", "calloc", "free", "realloc"}, ptr : Pointers, size : Sizes,
   old_size : Sizes, place : Pointers, new_a : Pointers, result : Pointers, trust : Trust]

(* t goes to x with the variables r.                                       *)
Moves(t, x, r) ==
  /\ pc'[t] = x /\ req'[t] = r /\ Others(t)
  /\ pc' \in [Threads -> Places] /\ req' \in [Threads -> Request]

(* A step that goes on and changes variables is such a move.              *)
LEMMA Moving ==
  ASSUME MTypeOK, NEW t \in Threads, NEW x \in Places, NEW r \in Request,
         pc' = [pc EXCEPT ![t] = x], req' = [req EXCEPT ![t] = r]
  PROVE  Moves(t, x, r)
BY DEF MTypeOK, Moves, Others, Request

(* So is one that only goes on.                                           *)
LEMMA MovingOnly ==
  ASSUME MTypeOK, NEW t \in Threads, NEW x \in Places, pc' = [pc EXCEPT ![t] = x], req' = req
  PROVE  Moves(t, x, req[t])
BY DEF MTypeOK, Moves, Others, Request

(* The types of the heap and of the clients.                               *)
HeapTypes ==
  /\ DOMAIN blocks \subseteq Ptrs /\ \A p \in DOMAIN blocks : blocks[p] \in Sizes \ {0}
  /\ mem \in [Ptrs -> [1..MaxSize -> Bytes]]
  /\ listed \in BOOLEAN
  /\ DOMAIN held \subseteq Ptrs
  /\ \A p \in DOMAIN held : held[p] \in [by : Threads, trust : Trust]
  /\ status \in {"running", "exited"}

(* The type invariant has these parts ...                                 *)
LEMMA TypesNow ==
  ASSUME MTypeOK
  PROVE  HeapTypes /\ req \in [Threads -> Request] /\ pc \in [Threads -> Places]
BY DEF MTypeOK, HeapTypes, Request

(* ... and follows from them after a move.                                *)
LEMMA TypesNext ==
  ASSUME NEW t, NEW x, NEW r, Moves(t, x, r), lock' \in Threads \cup {NoThread}, HeapTypes'
  PROVE  MTypeOK'
BY DEF Moves, MTypeOK, HeapTypes, Request

(* The types of a heap that does not change.                              *)
LEMMA HeapTypesKept ==
  ASSUME HeapTypes, UNCHANGED <<blocks, mem, listed, held, status>>
  PROVE  HeapTypes'
BY DEF HeapTypes

-----------------------------------------------------------------------------
(* The steps that leave the heap alone.                                    *)

(* A quiet step with the same blocks in flight.                            *)
LEMMA QuietStep ==
  ASSUME MIInv, NEW t \in Threads, NEW x, NEW r, Moves(t, x, r),
         UNCHANGED <<blocks, mem, listed, held, status>> \/
           (listed' \in BOOLEAN /\ UNCHANGED <<blocks, mem, held, status>>),
         LockDiscipline', lock' \in Threads \cup {NoThread},
         r.ptr = req[t].ptr, r.new_a = req[t].new_a, CallOK(t)',
         x = "m_add" => r.place \notin DOMAIN blocks
  PROVE  MIInv'
<1>1. HeapTypes'
  BY TypesNow DEF MIInv, HeapTypes
<1>2. MTypeOK'
  BY <1>1, TypesNext
<1>3. InFlight(t)' = InFlight(t)
  BY DEF Moves, InFlight
<1>4. QED
  BY <1>2, <1>3, Quiet DEF Moves

(* malloc gives the lock back: to its caller, to calloc's zeroing or to    *)
(* realloc's copying.                                                      *)
LEMMA MallocUnlockInv ==
  ASSUME MIInv, NEW t \in Threads, malloc_unlock(t), HeapUntouched
  PROVE  MIInv'
<1> DEFINE r == req[t]
<1>1. /\ pc[t] = "m_unlock" /\ lock' = NoThread /\ UNCHANGED <<held, status>>
      /\ UNCHANGED <<blocks, mem, listed>>
  BY DEF malloc_unlock, Unlock, At, HeapUntouched
<1>2. /\ CallOK(t) /\ MTypeOK /\ r \in Request /\ r.new_a \in Pointers
  BY TypesNow DEF MIInv, Request
<1>3. [r EXCEPT !.result = r.new_a] \in Request
  BY <1>2 DEF Request
<1>4. ASSUME NEW x \in {"ret", "c_zero", "r_copy"}, NEW s, Moves(t, x, s),
             s.ptr = r.ptr, s.new_a = r.new_a, CallOK(t)'
      PROVE  MIInv'
  <2>1. LockDiscipline'
    BY <1>1, <1>4, LockGiven DEF MIInv, Critical, Moves
  <2>2. QED
    BY <1>1, <1>4, <2>1, QuietStep
<1>5. CASE r.new_a = nullptr /\ Unlock(t, "m_unlock", "ret") /\ UNCHANGED req
  <2>1. Moves(t, "ret", r)
    BY <1>2, <1>5, MovingOnly DEF Unlock, Goto, Places
  <2>2. Shape(t)'
    BY <1>1, <1>2, <1>5, <2>1 DEF CallOK, Shape, Moves, Allocating, Sizing, InFlight
  <2>3. SizesKnown(t)' /\ DataSafe(t)'
    BY <1>1, <1>2, <1>5, <2>1 DEF CallOK, SizesKnown, DataSafe, Moves, Allocating
  <2>4. QED
    BY <1>4, <2>1, <2>2, <2>3 DEF CallOK
<1>6. CASE r.new_a # nullptr /\ r.op = "malloc" /\ Unlock(t, "m_unlock", "ret")
             /\ Result(t, r.new_a)
  <2>1. Moves(t, "ret", [r EXCEPT !.result = r.new_a])
    BY <1>2, <1>3, <1>6, Moving DEF Unlock, Goto, Places, Result
  <2>2. Shape(t)'
    BY <1>1, <1>2, <1>6, <2>1 DEF CallOK, Shape, Moves, Allocating, Sizing, InFlight, Request
  <2>3. SizesKnown(t)' /\ DataSafe(t)'
    BY <1>1, <1>2, <1>6, <2>1 DEF CallOK, SizesKnown, DataSafe, Moves, Allocating, Request
  <2>4. QED
    BY <1>2, <1>4, <2>1, <2>2, <2>3 DEF CallOK, Request
<1>7. CASE r.new_a # nullptr /\ r.op = "calloc" /\ Unlock(t, "m_unlock", "c_zero") /\ UNCHANGED req
  <2>1. Moves(t, "c_zero", r)
    BY <1>2, <1>7, MovingOnly DEF Unlock, Goto, Places
  <2>2. Shape(t)'
    BY <1>1, <1>2, <1>7, <2>1 DEF CallOK, Shape, Moves, Allocating, Sizing, InFlight
  <2>3. SizesKnown(t)' /\ DataSafe(t)'
    BY <1>1, <1>2, <1>7, <2>1 DEF CallOK, SizesKnown, DataSafe, Moves, Allocating
  <2>4. QED
    BY <1>4, <2>1, <2>2, <2>3 DEF CallOK
<1>8. CASE r.new_a # nullptr /\ r.op = "realloc" /\ Unlock(t, "m_unlock", "r_copy") /\ UNCHANGED req
  <2>1. Moves(t, "r_copy", r)
    BY <1>2, <1>8, MovingOnly DEF Unlock, Goto, Places
  <2>2. Shape(t)'
    BY <1>1, <1>2, <1>8, <2>1 DEF CallOK, Shape, Moves, Allocating, Sizing, InFlight
  <2>3. SizesKnown(t)' /\ DataSafe(t)'
    BY <1>1, <1>2, <1>8, <2>1 DEF CallOK, SizesKnown, DataSafe, Moves, Allocating
  <2>4. QED
    BY <1>4, <2>1, <2>2, <2>3 DEF CallOK
<1>9. QED
  BY <1>5, <1>6, <1>7, <1>8 DEF malloc_unlock

(* free and realloc give the lock back and return, or realloc goes on to    *)
(* malloc.                                                                 *)
LEMMA OtherUnlockInv ==
  ASSUME MIInv, NEW t \in Threads, HeapUntouched, UNCHANGED req,
         NEW from \in {"f_unlock", "s_unlock", "e_unlock"}, NEW to \in {"ret", "m_lock"},
         Unlock(t, from, to),
         to = "m_lock" <=> from = "e_unlock" /\ req[t].result = nullptr
  PROVE  MIInv'
<1>1. /\ pc[t] = from /\ lock' = NoThread /\ UNCHANGED <<held, status>>
      /\ UNCHANGED <<blocks, mem, listed>>
  BY DEF Unlock, At, HeapUntouched
<1>2. CallOK(t) /\ MTypeOK /\ req[t] \in Request
  BY TypesNow DEF MIInv
<1>3. Moves(t, to, req[t])
  BY <1>2, MovingOnly DEF Unlock, Goto, Places
<1>4. Shape(t)'
  BY <1>1, <1>2, <1>3 DEF CallOK, Shape, Moves, Allocating, Sizing, InFlight, Request
<1>5. SizesKnown(t)' /\ DataSafe(t)'
  <2>1. from \in {"f_unlock", "s_unlock"} /\ req[t].op = "realloc" => req[t].result # nullptr
    BY <1>1, <1>2 DEF CallOK, Shape
  <2>2. QED
    BY <1>1, <1>2, <1>3, <2>1 DEF CallOK, SizesKnown, DataSafe, Moves, Allocating
<1>6. LockDiscipline'
  BY <1>1, <1>3, LockGiven DEF MIInv, Critical, Moves
<1>7. QED
  BY <1>1, <1>3, <1>4, <1>5, <1>6, QuietStep DEF CallOK

(* realloc reads the size of the segment, which stays true: the block is    *)
(* its own until it returns.                                               *)
LEMMA ReadSizeInv ==
  ASSUME MIInv, NEW t \in Threads, ReadSize(t)
  PROVE  MIInv'
<1> DEFINE r == req[t]
           n == blocks[r.ptr]
           s == [r EXCEPT !.old_size = n]
<1>1. /\ pc[t] = "r_size" /\ UNCHANGED <<lock, held, status, blocks, mem, listed>>
      /\ \/ r.size = n /\ pc' = [pc EXCEPT ![t] = "ret"]
              /\ req' = [req EXCEPT ![t].old_size = n, ![t].result = r.ptr]
         \/ r.size < n /\ pc' = [pc EXCEPT ![t] = "s_lock"] /\ req' = [req EXCEPT ![t] = s]
         \/ r.size > n /\ pc' = [pc EXCEPT ![t] = "e_lock"] /\ req' = [req EXCEPT ![t] = s]
  BY DEF ReadSize, SizeKnown, At, Goto, ControlElsewhere, HeapUntouched
<1>2. CallOK(t) /\ MTypeOK /\ r \in Request
  BY TypesNow DEF MIInv
<1>3. r.ptr \in DOMAIN blocks /\ r.ptr # nullptr /\ n \in Sizes
  <2>1. r.ptr # nullptr
    BY <1>1, <1>2 DEF CallOK, Shape, Sizing
  <2>2. QED
    BY <2>1, <1>2, TypesNow DEF MIInv, EveryBlockAccounted, InFlight, HeapTypes
<1>4. s \in Request /\ [s EXCEPT !.result = r.ptr] \in Request
  BY <1>2, <1>3 DEF Request
<1>5. ASSUME NEW x \in {"ret", "s_lock", "e_lock"}, NEW q, Moves(t, x, q),
             q.ptr = r.ptr, q.new_a = r.new_a, CallOK(t)'
      PROVE  MIInv'
  <2>1. LockDiscipline'
    BY <1>1, <1>5, LockKept DEF MIInv, Critical, Moves
  <2>2. lock' \in Threads \cup {NoThread}
    BY <1>1, <1>2 DEF MTypeOK
  <2>3. QED
    BY <1>1, <1>5, <2>1, <2>2, QuietStep
<1>6. CASE r.size = n /\ pc' = [pc EXCEPT ![t] = "ret"]
             /\ req' = [req EXCEPT ![t].old_size = n, ![t].result = r.ptr]
  <2>1. Moves(t, "ret", [s EXCEPT !.result = r.ptr])
    BY <1>2, <1>4, <1>6, Moving DEF Places
  <2>2. Shape(t)'
    BY <1>1, <1>2, <1>3, <2>1 DEF CallOK, Shape, Moves, Allocating, Sizing, InFlight, Request
  <2>3. SizesKnown(t)'
    BY <1>1, <1>2, <1>6, <2>1 DEF CallOK, Shape, SizesKnown, Moves, Allocating, Sizing, Request
  <2>4. DataSafe(t)'
    BY <1>1, <1>2, <1>3, <1>6, <2>1 DEF CallOK, Shape, DataSafe, Moves, Sizing, Request
  <2>5. QED
    BY <1>2, <1>5, <2>1, <2>2, <2>3, <2>4 DEF CallOK, Request
<1>7. ASSUME NEW x \in {"s_lock", "e_lock"}, pc' = [pc EXCEPT ![t] = x],
             req' = [req EXCEPT ![t] = s], x = "s_lock" => r.size < n, x = "e_lock" => r.size > n
      PROVE  MIInv'
  <2>1. Moves(t, x, s)
    BY <1>2, <1>4, <1>7, Moving DEF Places
  <2>2. Shape(t)'
    BY <1>1, <1>2, <1>3, <2>1 DEF CallOK, Shape, Moves, Allocating, Sizing, InFlight, Request
  <2>3. SizesKnown(t)' /\ DataSafe(t)'
    BY <1>1, <1>2, <1>7, <2>1 DEF CallOK, SizesKnown, DataSafe, Shape, Moves, Allocating, Sizing, Request
  <2>4. QED
    BY <1>2, <1>5, <2>1, <2>2, <2>3 DEF CallOK, Request
<1>8. QED
  BY <1>1, <1>6, <1>7

(* expand_segment finds no room.                                           *)
LEMMA NoRoomInv ==
  ASSUME MIInv, NEW t \in Threads, NoRoom(t), HeapUntouched, UNCHANGED status
  PROVE  MIInv'
<1>1. pc[t] = "e_expand" /\ UNCHANGED <<lock, held, status, blocks, mem, listed>>
  BY DEF NoRoom, At, ControlElsewhere, HeapUntouched
<1>2. CallOK(t) /\ MTypeOK /\ req[t] \in Request
  BY TypesNow DEF MIInv
<1>3. Moves(t, "e_unlock", req[t])
  BY <1>2, MovingOnly DEF NoRoom, Goto, Places
<1>4. Shape(t)'
  BY <1>1, <1>2, <1>3 DEF CallOK, Shape, Moves, Allocating, Sizing, InFlight, Request
<1>5. SizesKnown(t)' /\ DataSafe(t)'
  BY <1>1, <1>2, <1>3 DEF CallOK, SizesKnown, DataSafe, Moves, Allocating
<1>6. LockDiscipline' /\ lock' \in Threads \cup {NoThread}
  BY <1>1, <1>2, <1>3, LockKept DEF MIInv, MTypeOK, Critical, Moves
<1>7. QED
  BY <1>1, <1>3, <1>4, <1>5, <1>6, QuietStep DEF CallOK

(* find_free_seg: a free place, no list, or exit().                        *)
LEMMA FindInv ==
  ASSUME MIInv, NEW t \in Threads, find_free_seg(t)
  PROVE  MIInv'
<1> DEFINE r == req[t]
<1>1. pc[t] = "m_find" /\ UNCHANGED <<blocks, mem, lock, held>>
  BY DEF find_free_seg, FoundPlace, NoPlace, At, ControlElsewhere
<1>2. CallOK(t) /\ MTypeOK /\ r \in Request
  BY TypesNow DEF MIInv
<1>3. ASSUME NEW x \in {"m_add", "m_unlock"}, NEW q, Moves(t, x, q), listed' \in BOOLEAN,
             status' = status, q.ptr = r.ptr, q.new_a = r.new_a, CallOK(t)',
             x = "m_add" => q.place \notin DOMAIN blocks
      PROVE  MIInv'
  <2>1. LockDiscipline' /\ lock' \in Threads \cup {NoThread}
    BY <1>1, <1>2, <1>3, LockKept DEF MIInv, MTypeOK, Critical, Moves
  <2>2. QED
    BY <1>1, <1>3, <2>1, QuietStep
<1>4. ASSUME NEW p \in Ptrs \ DOMAIN blocks, FoundPlace(t, p), listed' = TRUE, UNCHANGED status
      PROVE  MIInv'
  <2>1. [r EXCEPT !.place = p] \in Request /\ p # nullptr
    BY <1>2, <1>4, MethodsAssumption DEF Request, Pointers
  <2>2. Moves(t, "m_add", [r EXCEPT !.place = p])
    BY <1>2, <1>4, <2>1, Moving DEF Places, FoundPlace, Goto
  <2>3. Shape(t)'
    BY <1>1, <1>2, <2>1, <2>2 DEF CallOK, Shape, Moves, Allocating, Sizing, InFlight, Request
  <2>4. SizesKnown(t)' /\ DataSafe(t)'
    BY <1>1, <1>2, <2>2 DEF CallOK, SizesKnown, DataSafe, Moves, Allocating, Request
  <2>5. QED
    BY <1>2, <1>3, <1>4, <2>2, <2>3, <2>4 DEF CallOK, Request
<1>5. CASE NoPlace(t) /\ UNCHANGED <<listed, status>>
  <2>1. Moves(t, "m_unlock", r)
    BY <1>2, <1>5, MovingOnly DEF Places, NoPlace, Goto
  <2>2. Shape(t)'
    BY <1>1, <1>2, <2>1 DEF CallOK, Shape, Moves, Allocating, Sizing, InFlight, Request
  <2>3. SizesKnown(t)' /\ DataSafe(t)'
    BY <1>1, <1>2, <2>1 DEF CallOK, SizesKnown, DataSafe, Moves, Allocating
  <2>4. listed' \in BOOLEAN
    BY <1>2, <1>5, TypesNow DEF HeapTypes
  <2>5. QED
    BY <1>2, <1>3, <1>5, <2>1, <2>2, <2>3, <2>4 DEF CallOK
<1>6. CASE status' = "exited" /\ UNCHANGED <<lock, pc, req, held, listed>>
  <2>1. Moves(t, pc[t], r)
    BY <1>2, <1>6, TypesNow DEF Moves, Others
  <2>2. HeapTypes' /\ lock' \in Threads \cup {NoThread}
    BY <1>1, <1>2, <1>6, TypesNow DEF HeapTypes, MTypeOK
  <2>3. MTypeOK'
    BY <2>1, <2>2, TypesNext
  <2>4. \A p \in InFlight(t) : Kept(p)
    BY <1>1 DEF MIInv, EveryBlockAccounted, Kept
  <2>5. CallOK(t)'
    BY <1>2, <1>6, <2>4, CallFrame
  <2>6. LockDiscipline' /\ InFlight(t)' = InFlight(t)
    BY <1>6, <1>1, <2>1, LockKept DEF MIInv, Moves, InFlight
  <2>7. QED
    BY <1>1, <1>6, <2>1, <2>3, <2>5, <2>6, Quiet DEF Moves
<1>7. QED
  BY <1>1, <1>4, <1>5, <1>6, <1>2, TypesNow DEF find_free_seg, HeapTypes

(* storage_lock is free and t takes it.                                    *)
LEMMA AcquireInv ==
  ASSUME MIInv, NEW t \in Threads, Acquire(t)
  PROVE  MIInv'
<1>1. ASSUME NEW x \in Places, NEW y \in Places, Lock(t, x, y),
             <<x, y>> \in {<<"m_lock", "m_find">>, <<"f_lock", "f_remove">>,
                           <<"s_lock", "s_shrink">>, <<"e_lock", "e_expand">>},
             UNCHANGED <<blocks, mem, listed>>
      PROVE  MIInv'
  <2>1. Moves(t, y, req[t])
    BY <1>1, MovingOnly DEF Lock, Goto, MIInv
  <2>2. pc[t] = x /\ lock = NoThread /\ lock' = t /\ y \in Critical
    BY <1>1 DEF Lock, At, Critical
  <2>3. MTypeOK' /\ LockDiscipline'
    <3>1. HeapTypes'
      BY <1>1, TypesNow, HeapTypesKept DEF MIInv, Lock
    <3>2. QED
      BY <2>1, <2>2, <3>1, TypesNext, LockTaken DEF MIInv, Moves
  <2>4. InFlight(t)' = InFlight(t)
    BY <2>1 DEF Moves, InFlight
  <2>5. CallOK(t)'
    <3>1. CallOK(t)
      BY DEF MIInv
    <3>2. Shape(t)'
      BY <1>1, <2>1, <2>2, <3>1 DEF CallOK, Shape, Moves, Allocating, Sizing
    <3>3. SizesKnown(t)' /\ DataSafe(t)'
      BY <1>1, <2>1, <2>2, <3>1 DEF CallOK, SizesKnown, DataSafe, Moves, Allocating
    <3>4. QED
      BY <3>2, <3>3 DEF CallOK
  <2>6. QED
    BY <1>1, <2>1, <2>3, <2>4, <2>5, Quiet DEF Moves, Lock
<1>2. QED
  BY <1>1 DEF Acquire, TakeLock, HeapUntouched, Places

-----------------------------------------------------------------------------
(* The steps that work on the caller's own blocks.                         *)

(* Outside p the memory stays as it is.                                    *)
LEMMA FillTypes ==
  ASSUME HeapTypes, NEW p \in Ptrs, NEW n, NEW tag \in Bytes, Fill(p, n, tag)
  PROVE  /\ mem' \in [Ptrs -> [1..MaxSize -> Bytes]]
         /\ \A q \in Ptrs : q # p => mem'[q] = mem[q]
         /\ \A i \in 1..MaxSize : mem'[p][i] = IF i <= n THEN tag ELSE mem[p][i]
BY DEF HeapTypes, Fill

(* Scribbling over p from byte n on keeps the first n and the other blocks. *)
LEMMA ScribbleTypes ==
  ASSUME HeapTypes, NEW p \in Ptrs, NEW n, Scribble(p, n)
  PROVE  /\ mem' \in [Ptrs -> [1..MaxSize -> Bytes]]
         /\ \A q \in Ptrs : q # p => mem'[q] = mem[q]
         /\ \A i \in 1..MaxSize : i <= n => mem'[p][i] = mem[p][i]
BY DEF HeapTypes, Scribble, Bytes

(* What a thread in a call knows about its own blocks.                     *)
LEMMA OwnBlocks ==
  ASSUME MIInv, NEW t \in Threads
  PROVE  /\ CallOK(t) /\ MTypeOK /\ HeapTypes /\ req[t] \in Request
         /\ req[t].ptr # nullptr => req[t].ptr \in DOMAIN blocks /\ req[t].ptr \in Ptrs
         /\ req[t].new_a # nullptr => req[t].new_a \in DOMAIN blocks /\ req[t].new_a \in Ptrs
         /\ req[t].size \in Nat /\ req[t].size <= MaxSize
         /\ \A p \in DOMAIN blocks : p # nullptr /\ p \in Ptrs /\ blocks[p] \in 1..MaxSize
         /\ req[t].trust.count \in Nat /\ req[t].trust.count <= MaxSize
<1>1. CallOK(t) /\ MTypeOK /\ HeapTypes /\ req[t] \in Request
  BY TypesNow DEF MIInv
<1>2. /\ req[t].ptr # nullptr => req[t].ptr \in DOMAIN blocks
      /\ req[t].new_a # nullptr => req[t].new_a \in DOMAIN blocks
  BY DEF MIInv, EveryBlockAccounted, InFlight
<1>3. \A p \in DOMAIN blocks : p # nullptr /\ p \in Ptrs /\ blocks[p] \in 1..MaxSize
  BY <1>1, MethodsAssumption, CallsAssumption DEF HeapTypes, Sizes
<1>4. /\ req[t].size \in Nat /\ req[t].size <= MaxSize
      /\ req[t].trust.count \in Nat /\ req[t].trust.count <= MaxSize
  BY <1>1, CallsAssumption DEF Request, Sizes, Trust
<1>5. QED
  BY <1>1, <1>2, <1>3, <1>4

(* add_entry: the new block is the caller's.                               *)
LEMMA AddInv ==
  ASSUME MIInv, NEW t \in Threads, add_entry(t)
  PROVE  MIInv'
<1> DEFINE r == req[t]
           p == req[t].place
           s == [r EXCEPT !.new_a = p]
<1>1. /\ pc[t] = "m_add" /\ UNCHANGED <<lock, held, listed, status>>
      /\ blocks' = Put(blocks, p, r.size) /\ Scribble(p, 0)
      /\ pc' = [pc EXCEPT ![t] = "m_unlock"] /\ req' = [req EXCEPT ![t] = s]
  BY DEF add_entry, EntryAdded, At, Goto, ControlElsewhere
<1>2. CallOK(t) /\ MTypeOK /\ HeapTypes /\ r \in Request
  BY OwnBlocks
<1>3. /\ p \in Ptrs /\ p # nullptr /\ p \notin DOMAIN blocks
      /\ r.size \in Sizes \ {0} /\ r.new_a = nullptr /\ r.result = nullptr
  BY <1>1, <1>2 DEF CallOK, Shape, Allocating, MIInv, PlaceStillFree, Request, Pointers, Sizes
<1>4. Moves(t, "m_unlock", s)
  <2>1. s \in Request
    BY <1>2, <1>3 DEF Request, Pointers
  <2>2. QED
    BY <1>1, <1>2, <2>1, Moving DEF Places
<1>5. /\ DOMAIN blocks' = DOMAIN blocks \cup {p} /\ blocks'[p] = r.size
      /\ \A q \in DOMAIN blocks : Kept(q)
  BY <1>1, <1>2, <1>3, ScribbleTypes DEF Put, Kept, HeapTypes
<1>6. HeapTypes'
  <2>1. mem' \in [Ptrs -> [1..MaxSize -> Bytes]]
    BY <1>1, <1>2, <1>3, ScribbleTypes
  <2>2. QED
    BY <1>1, <1>2, <1>3, <1>5, <2>1 DEF HeapTypes, Kept
<1>7. MTypeOK'
  BY <1>1, <1>2, <1>4, <1>6, TypesNext DEF MTypeOK
<1>8. /\ s.op = r.op /\ s.ptr = r.ptr /\ s.size = r.size /\ s.old_size = r.old_size
      /\ s.new_a = p /\ s.result = r.result /\ s.trust = r.trust
  BY <1>2 DEF Request
<1>9. r.ptr # nullptr => r.ptr # p /\ Kept(r.ptr)
  BY <1>3, <1>5, OwnBlocks
<1>10. Shape(t)'
  BY <1>1, <1>2, <1>3, <1>4, <1>8, <1>9 DEF CallOK, Shape, Moves, Allocating, Sizing, InFlight
<1>11. SizesKnown(t)' /\ DataSafe(t)'
  <2>1. r.op = "realloc" => r.ptr # nullptr
    BY <1>2, <1>3 DEF CallOK, Shape
  <2>2. QED
    BY <1>1, <1>2, <1>3, <1>4, <1>5, <1>8, <1>9, <2>1
       DEF CallOK, SizesKnown, DataSafe, Moves, Allocating, Kept
<1>12. /\ InFlight(t)' = (InFlight(t) \ {}) \cup {p}
       /\ DOMAIN blocks' = (DOMAIN blocks \ {}) \cup {p} /\ {p} \cap DOMAIN blocks = {}
  BY <1>3, <1>4, <1>5, <1>8 DEF InFlight, Moves
<1>13. pc[t] \in Critical /\ pc'[t] \in Critical /\ pc'[t] # "m_add" /\ Others(t)
  BY <1>1, <1>4 DEF Critical, Moves
<1>14. QED
  BY <1>1, <1>5, <1>7, <1>10, <1>11, <1>12, <1>13, Working DEF CallOK

(* calloc zeroes its block.                                                *)
LEMMA ZeroInv ==
  ASSUME MIInv, NEW t \in Threads, set_mem_zero(t)
  PROVE  MIInv'
<1> DEFINE r == req[t]
           p == req[t].new_a
           s == [r EXCEPT !.result = p]
<1>1. /\ pc[t] = "c_zero" /\ UNCHANGED <<lock, held, blocks, listed, status>>
      /\ Fill(p, r.size, Zero)
      /\ pc' = [pc EXCEPT ![t] = "ret"] /\ req' = [req EXCEPT ![t] = s]
  BY DEF set_mem_zero, MemZeroed, At, Goto, ControlElsewhere, Result
<1>2. CallOK(t) /\ MTypeOK /\ HeapTypes /\ r \in Request
  BY OwnBlocks
<1>3. r.op = "calloc" /\ p # nullptr /\ p \in DOMAIN blocks /\ p \in Ptrs /\ blocks[p] = r.size
  BY <1>1, <1>2, OwnBlocks DEF CallOK, Shape, SizesKnown
<1>4. Moves(t, "ret", s)
  <2>1. s \in Request
    BY <1>2 DEF Request
  <2>2. QED
    BY <1>1, <1>2, <2>1, Moving DEF Places
<1>5. /\ \A q \in DOMAIN blocks \ {p} : Kept(q)
      /\ \A i \in 1..r.size : mem'[p][i] = Zero
      /\ mem' \in [Ptrs -> [1..MaxSize -> Bytes]]
  <2>1. /\ mem' \in [Ptrs -> [1..MaxSize -> Bytes]]
        /\ \A q \in Ptrs : q # p => mem'[q] = mem[q]
        /\ \A i \in 1..MaxSize : mem'[p][i] = IF i <= r.size THEN Zero ELSE mem[p][i]
    BY <1>1, <1>2, <1>3, FillTypes DEF Bytes
  <2>2. r.size \in Nat /\ r.size <= MaxSize /\ MaxSize \in Nat
    BY OwnBlocks, CallsAssumption
  <2>3. \A q \in DOMAIN blocks : q \in Ptrs
    BY OwnBlocks
  <2>4. QED
    BY <1>1, <2>1, <2>2, <2>3 DEF Kept
<1>6. HeapTypes' /\ MTypeOK'
  <2>1. HeapTypes'
    BY <1>1, <1>2, <1>5 DEF HeapTypes
  <2>2. QED
    BY <1>1, <1>2, <1>4, <2>1, TypesNext DEF MTypeOK
<1>7. /\ s.op = r.op /\ s.ptr = r.ptr /\ s.size = r.size /\ s.new_a = r.new_a /\ s.result = p
  BY <1>2 DEF Request
<1>8. Shape(t)'
  BY <1>1, <1>2, <1>3, <1>4, <1>7 DEF CallOK, Shape, Moves, Allocating, Sizing
<1>9. SizesKnown(t)' /\ DataSafe(t)'
  BY <1>1, <1>2, <1>3, <1>4, <1>5, <1>7 DEF CallOK, SizesKnown, DataSafe, Moves
<1>10. /\ InFlight(t)' = InFlight(t) /\ p \in InFlight(t)
  BY <1>3, <1>4, <1>7 DEF InFlight, Moves
<1>11. pc[t] \notin Critical /\ pc'[t] \notin Critical /\ pc'[t] # "m_add" /\ Others(t)
  BY <1>1, <1>4 DEF Critical, Moves
<1>12. /\ {} \subseteq InFlight(t) /\ {} \cap DOMAIN blocks = {}
       /\ DOMAIN blocks' = (DOMAIN blocks \ {}) \cup {}
       /\ InFlight(t)' = (InFlight(t) \ {}) \cup {}
       /\ \A q \in DOMAIN blocks \ InFlight(t) : Kept(q)
  BY <1>1, <1>5, <1>10
<1>13. QED
  BY <1>1, <1>6, <1>8, <1>9, <1>11, <1>12, Working DEF CallOK

(* remove_segment: the block is nobody's any more.                         *)
LEMMA RemoveInv ==
  ASSUME MIInv, NEW t \in Threads, remove_segment(t)
  PROVE  MIInv'
<1> DEFINE r == req[t]
           p == req[t].ptr
           s == [r EXCEPT !.ptr = nullptr]
<1>1. /\ pc[t] = "f_remove" /\ UNCHANGED <<lock, held, listed, status>>
      /\ blocks' = Drop(blocks, p) /\ Scribble(p, 0)
      /\ pc' = [pc EXCEPT ![t] = "f_unlock"] /\ req' = [req EXCEPT ![t] = s]
  BY DEF remove_segment, SegmentRemoved, At, Goto, ControlElsewhere
<1>2. CallOK(t) /\ MTypeOK /\ HeapTypes /\ r \in Request
  BY OwnBlocks
<1>3. /\ p # nullptr /\ p \in DOMAIN blocks /\ p \in Ptrs /\ p # r.new_a
      /\ r.op = "free" \/ (r.op = "realloc" /\ r.new_a # nullptr /\ r.result = r.new_a)
  BY <1>1, <1>2, OwnBlocks DEF CallOK, Shape
<1>4. Moves(t, "f_unlock", s)
  <2>1. s \in Request
    BY <1>2 DEF Request, Pointers
  <2>2. QED
    BY <1>1, <1>2, <2>1, Moving DEF Places
<1>5. /\ DOMAIN blocks' = DOMAIN blocks \ {p}
      /\ \A q \in DOMAIN blocks \ {p} : Kept(q)
  BY <1>1, <1>2, <1>3, ScribbleTypes DEF Drop, Kept, HeapTypes
<1>6. HeapTypes' /\ MTypeOK'
  <2>1. mem' \in [Ptrs -> [1..MaxSize -> Bytes]]
    BY <1>1, <1>2, <1>3, ScribbleTypes
  <2>2. HeapTypes'
    BY <1>1, <1>2, <1>5, <2>1 DEF HeapTypes, Kept
  <2>3. QED
    BY <1>1, <1>2, <1>4, <2>2, TypesNext DEF MTypeOK
<1>7. /\ s.op = r.op /\ s.ptr = nullptr /\ s.size = r.size /\ s.old_size = r.old_size
      /\ s.new_a = r.new_a /\ s.result = r.result /\ s.trust = r.trust
  BY <1>2 DEF Request
<1>8. r.new_a # nullptr => Kept(r.new_a)
  BY <1>3, <1>5, OwnBlocks
<1>9. Shape(t)'
  BY <1>1, <1>2, <1>3, <1>4, <1>7 DEF CallOK, Shape, Moves, Allocating, Sizing
<1>10. SizesKnown(t)' /\ DataSafe(t)'
  BY <1>1, <1>2, <1>3, <1>4, <1>7, <1>8 DEF CallOK, SizesKnown, DataSafe, Moves, Allocating, Kept
<1>11. /\ {p} \subseteq InFlight(t) /\ {} \cap DOMAIN blocks = {}
       /\ DOMAIN blocks' = (DOMAIN blocks \ {p}) \cup {}
       /\ InFlight(t)' = (InFlight(t) \ {p}) \cup {}
       /\ \A q \in DOMAIN blocks \ InFlight(t) : Kept(q)
  BY <1>3, <1>4, <1>5, <1>7 DEF InFlight, Moves
<1>12. pc[t] \in Critical /\ pc'[t] \in Critical /\ pc'[t] # "m_add" /\ Others(t)
  BY <1>1, <1>4 DEF Critical, Moves
<1>13. QED
  BY <1>1, <1>6, <1>9, <1>10, <1>11, <1>12, Working DEF CallOK

(* shrink_segment and expand_segment: the block at ptr gets the new size    *)
(* and keeps its first `kept' bytes, the lesser of both sizes.             *)
LEMMA ResizeInv ==
  ASSUME MIInv, NEW t \in Threads, NEW kept \in Nat, NEW to \in {"s_unlock", "e_unlock"},
         pc[t] \in {"s_shrink", "e_expand"}, pc' = [pc EXCEPT ![t] = to],
         Result(t, req[t].ptr), UNCHANGED <<lock, held>>, Resized(t, req[t].size, kept),
         kept >= req[t].size \/ kept >= req[t].trust.count
  PROVE  MIInv'
<1> DEFINE r == req[t]
           p == req[t].ptr
           s == [r EXCEPT !.result = p]
<1>1. /\ UNCHANGED <<lock, held, listed, status>>
      /\ blocks' = [blocks EXCEPT ![p] = r.size] /\ Scribble(p, kept)
      /\ req' = [req EXCEPT ![t] = s]
  BY DEF Resized, Result
<1>2. CallOK(t) /\ MTypeOK /\ HeapTypes /\ r \in Request
  BY OwnBlocks
<1>3. /\ p # nullptr /\ p \in DOMAIN blocks /\ p \in Ptrs /\ r.op = "realloc"
      /\ r.new_a = nullptr /\ r.result = nullptr /\ r.size \in Sizes \ {0} /\ r.size > 0
  BY <1>2, OwnBlocks DEF CallOK, Shape, Sizing, Request, Sizes
<1>4. Moves(t, to, s)
  <2>1. s \in Request
    BY <1>2 DEF Request
  <2>2. QED
    BY <1>1, <1>2, <2>1, Moving DEF Places
<1>5. /\ mem' \in [Ptrs -> [1..MaxSize -> Bytes]]
      /\ \A q \in Ptrs : q # p => mem'[q] = mem[q]
      /\ \A i \in 1..MaxSize : i <= kept => mem'[p][i] = mem[p][i]
  BY <1>1, <1>2, <1>3, ScribbleTypes
<1>6. /\ DOMAIN blocks' = DOMAIN blocks /\ blocks'[p] = r.size
      /\ \A q \in DOMAIN blocks \ {p} : Kept(q)
  BY <1>1, <1>2, <1>3, <1>5 DEF Kept, HeapTypes
<1>7. HeapTypes' /\ MTypeOK'
  <2>1. HeapTypes'
    BY <1>1, <1>2, <1>3, <1>5, <1>6 DEF HeapTypes, Kept
  <2>2. QED
    BY <1>1, <1>2, <1>4, <2>1, TypesNext DEF MTypeOK
<1>8. /\ s.op = r.op /\ s.ptr = p /\ s.size = r.size /\ s.new_a = r.new_a /\ s.result = p
      /\ s.trust = r.trust
  BY <1>2 DEF Request
<1>9. Shape(t)'
  <2>1. /\ s.op = "realloc" /\ s.ptr = p /\ s.new_a = nullptr /\ s.result = p /\ s.size > 0
        /\ p # nullptr /\ pc'[t] = to /\ req'[t] = s
    BY <1>3, <1>4, <1>8 DEF Moves
  <2>2. QED
    BY <2>1 DEF Shape, Allocating, Sizing
<1>10. SizesKnown(t)'
  BY <1>3, <1>4, <1>8 DEF SizesKnown, Moves, Allocating
<1>11. DataSafe(t)'
  <2>1. \A i \in 1..r.trust.count : i <= r.size => mem'[p][i] = r.trust.tag
    <3>1. \A i \in 1..r.trust.count : mem[p][i] = r.trust.tag
      BY <1>2, <1>3 DEF CallOK, DataSafe
    <3>2. \A i \in 1..r.trust.count : i <= r.size => i \in 1..MaxSize /\ i <= kept
      BY OwnBlocks, CallsAssumption
    <3>3. QED
      BY <1>5, <3>1, <3>2
  <2>2. QED
    BY <1>3, <1>4, <1>6, <1>8, <2>1 DEF DataSafe, Moves
<1>12. /\ {} \subseteq InFlight(t) /\ {} \cap DOMAIN blocks = {}
       /\ DOMAIN blocks' = (DOMAIN blocks \ {}) \cup {}
       /\ InFlight(t)' = (InFlight(t) \ {}) \cup {}
       /\ \A q \in DOMAIN blocks \ InFlight(t) : Kept(q)
  BY <1>3, <1>4, <1>6, <1>8 DEF InFlight, Moves
<1>13. pc[t] \in Critical /\ pc'[t] \in Critical /\ pc'[t] # "m_add" /\ Others(t)
  BY <1>4 DEF Critical, Moves
<1>14. QED
  BY <1>1, <1>7, <1>9, <1>10, <1>11, <1>12, <1>13, Working DEF CallOK

(* The differences realloc passes on make the sizes it was asked for.      *)
LEMMA ShrinkInv ==
  ASSUME MIInv, NEW t \in Threads, shrink_segment(t)
  PROVE  MIInv'
<1>1. pc[t] = "s_shrink" /\ CallOK(t) /\ req[t] \in Request
  BY OwnBlocks DEF shrink_segment, SegmentShrunk, At
<1>2. blocks[req[t].ptr] = req[t].old_size /\ req[t].old_size \in Nat /\ req[t].size \in Nat
  BY <1>1, CallsAssumption DEF CallOK, SizesKnown, Request, Sizes
<1>3. blocks[req[t].ptr] - (req[t].old_size - req[t].size) = req[t].size
  BY <1>2
<1>4. Resized(t, req[t].size, req[t].size)
  BY <1>3 DEF shrink_segment
<1>5. /\ pc' = [pc EXCEPT ![t] = "s_unlock"] /\ Result(t, req[t].ptr)
      /\ UNCHANGED <<lock, held>> /\ req[t].size >= req[t].size
  BY <1>2 DEF shrink_segment, SegmentShrunk, Goto, ControlElsewhere
<1>6. QED
  BY <1>1, <1>2, <1>4, <1>5, ResizeInv

(* expand_segment: more bytes behind the old ones, or no room.             *)
LEMMA ExpandInv ==
  ASSUME MIInv, NEW t \in Threads, expand_segment(t)
  PROVE  MIInv'
<1>1. CASE NoRoom(t) /\ HeapUntouched /\ UNCHANGED status
  BY <1>1, NoRoomInv
<1>2. CASE /\ SegmentExpanded(t)
           /\ Resized(t, blocks[req[t].ptr] + (req[t].size - req[t].old_size), req[t].old_size)
  <2>1. pc[t] = "e_expand" /\ CallOK(t) /\ req[t] \in Request
    BY <1>2, OwnBlocks DEF SegmentExpanded, At
  <2>2. /\ blocks[req[t].ptr] = req[t].old_size /\ req[t].old_size \in Nat
        /\ req[t].size \in Nat /\ req[t].trust.count <= req[t].old_size
    BY <2>1, CallsAssumption DEF CallOK, Shape, Sizing, SizesKnown, DataSafe, Request, Sizes
  <2>3. blocks[req[t].ptr] + (req[t].size - req[t].old_size) = req[t].size
    BY <2>2
  <2>4. Resized(t, req[t].size, req[t].old_size) /\ req[t].trust.count \in Nat
    BY <1>2, <2>3, OwnBlocks
  <2>5. /\ pc' = [pc EXCEPT ![t] = "e_unlock"] /\ Result(t, req[t].ptr)
        /\ UNCHANGED <<lock, held>> /\ req[t].old_size >= req[t].trust.count
    BY <1>2, <2>2, <2>4 DEF SegmentExpanded, Goto, ControlElsewhere
  <2>6. QED
    BY <2>1, <2>2, <2>4, <2>5, ResizeInv
<1>3. QED
  BY <1>1, <1>2 DEF expand_segment

(* copy_mem: the data are in both blocks.                                  *)
LEMMA CopyInv ==
  ASSUME MIInv, NEW t \in Threads, copy_mem(t)
  PROVE  MIInv'
<1> DEFINE r == req[t]
           p == req[t].new_a
           s == [r EXCEPT !.result = p]
<1>1. /\ pc[t] = "r_copy" /\ UNCHANGED <<lock, held, blocks, listed, status>>
      /\ mem' = [mem EXCEPT ![p] =
           [i \in 1..MaxSize |-> IF i <= r.old_size THEN mem[r.ptr][i] ELSE @[i]]]
      /\ pc' = [pc EXCEPT ![t] = "f_lock"] /\ req' = [req EXCEPT ![t] = s]
  BY DEF copy_mem, MemCopied, At, Goto, ControlElsewhere, Result
<1>2. CallOK(t) /\ MTypeOK /\ HeapTypes /\ r \in Request
  BY OwnBlocks
<1>3. /\ r.op = "realloc" /\ r.result = nullptr /\ r.ptr # nullptr /\ r.ptr # p
      /\ p # nullptr /\ p \in DOMAIN blocks /\ p \in Ptrs /\ blocks[p] = r.size
      /\ r.ptr \in DOMAIN blocks /\ r.ptr \in Ptrs /\ blocks[r.ptr] = r.old_size
      /\ r.trust.count <= r.old_size
  BY <1>1, <1>2, OwnBlocks DEF CallOK, Shape, SizesKnown, DataSafe
<1>4. Moves(t, "f_lock", s)
  <2>1. s \in Request
    BY <1>2 DEF Request
  <2>2. QED
    BY <1>1, <1>2, <2>1, Moving DEF Places
<1>5. /\ mem' \in [Ptrs -> [1..MaxSize -> Bytes]]
      /\ \A q \in Ptrs : q # p => mem'[q] = mem[q]
      /\ \A i \in 1..MaxSize : i <= r.old_size => mem'[p][i] = mem[r.ptr][i]
  BY <1>1, <1>2, <1>3 DEF HeapTypes
<1>6. \A q \in DOMAIN blocks \ {p} : Kept(q)
  BY <1>1, <1>2, <1>5 DEF Kept, HeapTypes
<1>7. HeapTypes' /\ MTypeOK'
  <2>1. HeapTypes'
    BY <1>1, <1>2, <1>5 DEF HeapTypes
  <2>2. QED
    BY <1>1, <1>2, <1>4, <2>1, TypesNext DEF MTypeOK
<1>8. /\ s.op = r.op /\ s.ptr = r.ptr /\ s.size = r.size /\ s.new_a = p /\ s.result = p
      /\ s.trust = r.trust
  BY <1>2 DEF Request
<1>9. Shape(t)'
  BY <1>2, <1>3, <1>4, <1>8 DEF CallOK, Shape, Moves, Allocating, Sizing
<1>10. SizesKnown(t)'
  BY <1>1, <1>3, <1>4, <1>8 DEF SizesKnown, Moves, Allocating
<1>11. DataSafe(t)'
  <2>1. \A i \in 1..r.trust.count : mem'[p][i] = r.trust.tag
    <3>1. \A i \in 1..r.trust.count : mem[r.ptr][i] = r.trust.tag
      BY <1>2, <1>3 DEF CallOK, DataSafe
    <3>2. \A i \in 1..r.trust.count : i \in 1..MaxSize /\ i <= r.old_size
      BY <1>3, OwnBlocks, CallsAssumption
    <3>3. QED
      BY <1>5, <3>1, <3>2
  <2>2. QED
    BY <1>1, <1>3, <1>4, <1>8, <2>1 DEF DataSafe, Moves
<1>12. /\ {} \subseteq InFlight(t) /\ {} \cap DOMAIN blocks = {}
       /\ DOMAIN blocks' = (DOMAIN blocks \ {}) \cup {}
       /\ InFlight(t)' = (InFlight(t) \ {}) \cup {}
       /\ \A q \in DOMAIN blocks \ InFlight(t) : Kept(q)
  BY <1>1, <1>3, <1>4, <1>6, <1>8 DEF InFlight, Moves
<1>13. pc[t] \notin Critical /\ pc'[t] \notin Critical /\ pc'[t] # "m_add" /\ Others(t)
  BY <1>1, <1>4 DEF Critical, Moves
<1>14. QED
  BY <1>1, <1>7, <1>9, <1>10, <1>11, <1>12, <1>13, Working DEF CallOK

-----------------------------------------------------------------------------
(* The steps of the clients.                                               *)

(* A thread between two calls.                                             *)
LEMMA NoReqTyped == NoReq \in Request /\ NoTrust \in Trust
<1>1. NoTrust \in Trust
  BY CallsAssumption DEF NoTrust, Trust, Bytes, Sizes
<1>2. nullptr \in Pointers /\ 0 \in Sizes
  BY CallsAssumption DEF Pointers, Sizes
<1>3. QED
  BY <1>1, <1>2 DEF NoReq, Request

(* A call begins: the pointer passes from the client to the call.          *)
LEMMA CallInv ==
  ASSUME MIInv, NEW t \in Threads, HeapUntouched,
         NEW op \in {"malloc", "calloc", "free", "realloc"}, NEW p \in Owned(t) \cup {nullptr},
         NEW n \in Sizes, NEW entry \in {"ret", "m_lock", "f_lock", "r_size"},
         Call(t, op, p, n, entry),
         op \in {"malloc", "calloc"} =>
           p = nullptr /\ entry \in {"ret", "m_lock"} /\ (entry = "m_lock" => n # 0),
         op = "free" => entry \in {"ret", "f_lock"} /\ (entry = "ret" <=> p = nullptr),
         op = "realloc" =>
           p # nullptr /\ entry \in {"ret", "r_size"} /\ (entry = "r_size" <=> n # 0)
  PROVE  MIInv'
<1> DEFINE trust == IF p = nullptr THEN NoTrust ELSE held[p].trust
           s == [NoReq EXCEPT !.op = op, !.ptr = p, !.size = n, !.trust = trust]
<1>1. /\ pc[t] = "idle" /\ UNCHANGED <<lock, blocks, mem, listed, status>>
      /\ held' = Drop(held, p) /\ pc' = [pc EXCEPT ![t] = entry]
      /\ req' = [req EXCEPT ![t] = s]
  BY DEF Call, At, Goto, HeapUntouched
<1>2. /\ MTypeOK /\ HeapTypes /\ CallOK(t) /\ req[t] = NoReq
  BY <1>1, OwnBlocks DEF CallOK, Shape
<1>3. InFlight(t) = {}
  BY <1>2 DEF InFlight, NoReq
<1>4. p # nullptr => p \in DOMAIN held /\ p \in DOMAIN blocks /\ p \in Ptrs
  BY <1>2 DEF Owned, MIInv, EveryBlockAccounted, HeapTypes
<1>5. /\ s.op = op /\ s.ptr = p /\ s.size = n /\ s.new_a = nullptr /\ s.result = nullptr
      /\ s.trust = trust
  BY DEF NoReq
<1>6. trust \in Trust
  BY <1>2, <1>4, NoReqTyped DEF HeapTypes
<1>7. Moves(t, entry, s)
  <2>1. p \in Pointers
    BY <1>4 DEF Pointers
  <2>2. s \in Request
    BY <1>6, <2>1, NoReqTyped DEF Request
  <2>3. entry \in Places
    BY DEF Places
  <2>4. QED
    BY <1>1, <1>2, <2>2, <2>3, Moving
<1>8. DOMAIN held' = DOMAIN held \ {p} /\ \A q \in DOMAIN held' : held'[q] = held[q]
  BY <1>1 DEF Drop
<1>9. HeapTypes' /\ MTypeOK'
  <2>1. HeapTypes'
    BY <1>1, <1>2, <1>8 DEF HeapTypes
  <2>2. QED
    BY <1>1, <1>2, <1>7, <2>1, TypesNext DEF MTypeOK
<1>10. InFlight(t)' = {p} \ {nullptr}
  BY <1>5, <1>7 DEF InFlight, Moves
<1>11. EveryBlockAccounted'
  <2>1. nullptr \notin DOMAIN held
    BY <1>2, MethodsAssumption DEF HeapTypes
  <2>2. /\ DOMAIN blocks' = (DOMAIN blocks \ {}) \cup {} /\ {} \cap DOMAIN blocks = {}
        /\ DOMAIN held' \cup InFlight(t)' = ((DOMAIN held \cup InFlight(t)) \ {}) \cup {}
        /\ InFlight(t)' \cap DOMAIN held' = {} /\ {} \subseteq InFlight(t)
    BY <1>1, <1>3, <1>4, <1>8, <1>10, <2>1
  <2>3. QED
    BY <1>7, <2>2, AccountStep DEF MIInv, Moves
<1>12. Shape(t)'
  <2>1. entry \notin {"idle", "m_find", "m_add", "m_unlock", "c_zero", "r_copy", "f_remove",
                      "f_unlock", "s_lock", "s_shrink", "e_lock", "e_expand", "s_unlock", "e_unlock"}
    OBVIOUS
  <2>2. /\ pc'[t] = entry /\ req'[t].op = op /\ req'[t].ptr = p /\ req'[t].size = n
        /\ req'[t].new_a = nullptr /\ req'[t].result = nullptr /\ (n # 0 => n > 0)
    BY <1>5, <1>7, CallsAssumption DEF Moves, Sizes
  <2>3. QED
    BY <1>10, <2>1, <2>2 DEF Shape, Allocating, Sizing
<1>13. SizesKnown(t)'
  BY <1>5, <1>7 DEF SizesKnown, Moves, Allocating
<1>14. DataSafe(t)'
  BY <1>1, <1>4, <1>5, <1>7 DEF DataSafe, Moves, MIInv, DataIntact
<1>15. LockDiscipline'
  BY <1>1, <1>7, LockKept DEF MIInv, Critical, Moves
<1>16. DataIntact'
  BY <1>1, <1>8 DEF MIInv, DataIntact
<1>17. \A u \in Threads \ {t} : \A q \in InFlight(u) : Kept(q)
  BY <1>1, Separate DEF MIInv, Kept
<1>18. QED
  BY <1>1, <1>7, <1>9, <1>11, <1>12, <1>13, <1>14, <1>15, <1>16, <1>17, Combine
     DEF CallOK, Moves

(* The four functions are such calls.                                      *)
LEMMA ClientCallInv ==
  ASSUME MIInv, NEW t \in Threads, HeapUntouched,
         NEW n \in Sizes, NEW p \in Owned(t) \cup {nullptr},
         malloc(t, n) \/ calloc(t, n) \/ free(t, p) \/ realloc(t, p, n)
  PROVE  MIInv'
<1>1. CASE malloc(t, n)
  <2>1. CASE n = 0
    BY <1>1, <2>1, CallInv DEF malloc
  <2>2. CASE n # 0
    BY <1>1, <2>2, CallInv DEF malloc
  <2>3. QED
    BY <2>1, <2>2
<1>2. CASE calloc(t, n)
  <2>1. CASE n = 0
    BY <1>2, <2>1, CallInv DEF calloc
  <2>2. CASE n # 0
    BY <1>2, <2>2, CallInv DEF calloc
  <2>3. QED
    BY <2>1, <2>2
<1>3. CASE free(t, p)
  <2>1. 0 \in Sizes
    BY CallsAssumption DEF Sizes
  <2>2. CASE p = nullptr
    BY <1>3, <2>1, <2>2, CallInv DEF free
  <2>3. CASE p # nullptr
    BY <1>3, <2>1, <2>3, CallInv DEF free
  <2>4. QED
    BY <2>2, <2>3
<1>4. CASE realloc(t, p, n)
  <2>1. CASE n = 0 /\ p = nullptr
    <3>1. Call(t, "malloc", p, n, "ret")
      BY <1>4, <2>1 DEF realloc
    <3>2. QED
      BY <2>1, <3>1, CallInv
  <2>2. CASE n = 0 /\ p # nullptr
    <3>1. Call(t, "realloc", p, n, "ret")
      BY <1>4, <2>2 DEF realloc
    <3>2. QED
      BY <2>2, <3>1, CallInv
  <2>3. CASE n # 0 /\ p = nullptr
    <3>1. Call(t, "malloc", p, n, "m_lock")
      BY <1>4, <2>3 DEF realloc
    <3>2. QED
      BY <2>3, <3>1, CallInv
  <2>4. CASE n # 0 /\ p # nullptr
    <3>1. Call(t, "realloc", p, n, "r_size")
      BY <1>4, <2>4 DEF realloc
    <3>2. QED
      BY <2>4, <3>1, CallInv
  <2>5. QED
    BY <2>1, <2>2, <2>3, <2>4
<1>5. QED
  BY <1>1, <1>2, <1>3, <1>4

(* A thread between two calls has nothing in flight.                       *)
LEMMA IdleOK ==
  ASSUME NEW t \in Threads, Moves(t, "idle", NoReq)
  PROVE  CallOK(t)' /\ InFlight(t)' = {}
<1>1. /\ pc'[t] = "idle" /\ req'[t] = NoReq
      /\ NoReq.op = "none" /\ NoReq.ptr = nullptr /\ NoReq.new_a = nullptr
      /\ NoReq.result = nullptr
  BY DEF Moves, NoReq
<1>2. InFlight(t)' = {}
  BY <1>1 DEF InFlight
<1>3. QED
  BY <1>1, <1>2 DEF CallOK, Shape, SizesKnown, DataSafe, Allocating, Sizing

(* A call returns with the block p, and its owner may rely on count bytes. *)
LEMMA ReturnBlock ==
  ASSUME MIInv, NEW t \in Threads, UNCHANGED <<blocks, mem, listed, lock, status>>,
         pc[t] = "ret", Moves(t, "idle", NoReq), NEW p, p # nullptr, InFlight(t) = {p},
         NEW tag \in Bytes, NEW count \in Sizes,
         held' = Put(held, p, [by |-> t, trust |-> [tag |-> tag, count |-> count]]),
         count <= blocks[p], \A i \in 1..count : mem[p][i] = tag
  PROVE  MIInv'
<1>1. HeapTypes /\ MTypeOK /\ p \in DOMAIN blocks /\ p \in Ptrs
  BY OwnBlocks DEF MIInv, EveryBlockAccounted
<1>2. /\ DOMAIN held' = DOMAIN held \cup {p}
      /\ \A q \in DOMAIN held : q # p => held'[q] = held[q]
      /\ held'[p] = [by |-> t, trust |-> [tag |-> tag, count |-> count]]
  BY DEF Put
<1>3. held'[p] \in [by : Threads, trust : Trust]
  BY <1>2 DEF Trust
<1>4. HeapTypes' /\ MTypeOK'
  <2>1. HeapTypes'
    BY <1>1, <1>2, <1>3 DEF HeapTypes
  <2>2. QED
    BY <1>1, <2>1, TypesNext DEF MTypeOK
<1>5. CallOK(t)' /\ InFlight(t)' = {}
  BY IdleOK
<1>6. EveryBlockAccounted'
  <2>1. /\ DOMAIN blocks' = (DOMAIN blocks \ {}) \cup {} /\ {} \cap DOMAIN blocks = {}
        /\ DOMAIN held' \cup InFlight(t)' = ((DOMAIN held \cup InFlight(t)) \ {}) \cup {}
        /\ InFlight(t)' \cap DOMAIN held' = {} /\ {} \subseteq InFlight(t)
    BY <1>2, <1>5
  <2>2. QED
    BY <2>1, AccountStep DEF MIInv, Moves
<1>7. DataIntact'
  <2>1. held'[p].trust.tag = tag /\ held'[p].trust.count = count
    BY <1>2
  <2>2. ASSUME NEW q \in DOMAIN held'
        PROVE  /\ q \in DOMAIN blocks /\ held'[q].trust.count <= blocks[q]
               /\ \A i \in 1..held'[q].trust.count : mem[q][i] = held'[q].trust.tag
    <3>1. CASE q = p
      BY <1>1, <2>1, <3>1
    <3>2. CASE q # p
      BY <1>2, <2>2, <3>2 DEF MIInv, DataIntact
    <3>3. QED
      BY <3>1, <3>2
  <2>3. QED
    BY <2>2 DEF DataIntact
<1>8. LockDiscipline'
  BY LockKept DEF MIInv, Critical, Moves
<1>9. \A u \in Threads \ {t} : \A q \in InFlight(u) : Kept(q)
  BY Separate DEF MIInv, Kept
<1>10. QED
  BY <1>4, <1>5, <1>6, <1>7, <1>8, <1>9, Combine DEF Moves

(* A call returns without a block.                                         *)
LEMMA ReturnNothing ==
  ASSUME MIInv, NEW t \in Threads, UNCHANGED <<blocks, mem, listed, lock, status, held>>,
         pc[t] = "ret", Moves(t, "idle", NoReq), InFlight(t) = {}
  PROVE  MIInv'
<1>1. HeapTypes' /\ MTypeOK'
  <2>1. HeapTypes'
    BY OwnBlocks, HeapTypesKept
  <2>2. QED
    BY <2>1, OwnBlocks, TypesNext DEF MTypeOK
<1>2. CallOK(t)' /\ InFlight(t)' = InFlight(t)
  BY IdleOK
<1>3. LockDiscipline'
  BY LockKept DEF MIInv, Critical, Moves
<1>4. QED
  BY <1>1, <1>2, <1>3, Quiet DEF Moves

(* A call returns: its block, if there is one, becomes its caller's.      *)
LEMMA ReturnInv ==
  ASSUME MIInv, NEW t \in Threads, Return(t), HeapUntouched
  PROVE  MIInv'
<1> DEFINE r == req[t]
           least == IF r.size < r.trust.count THEN r.size ELSE r.trust.count
           Keep(p, tag, count) ==
             held' = Put(held, p, [by |-> t, trust |-> [tag |-> tag, count |-> count]])
<1>1. /\ pc[t] = "ret" /\ UNCHANGED <<blocks, mem, listed, lock, status>>
      /\ pc' = [pc EXCEPT ![t] = "idle"] /\ req' = [req EXCEPT ![t] = NoReq]
  BY DEF Return, At, Goto, HeapUntouched
<1>2. /\ CallOK(t) /\ MTypeOK /\ HeapTypes /\ r \in Request
      /\ r.size \in Nat /\ r.trust.count \in Nat
  BY OwnBlocks
<1>3. Moves(t, "idle", NoReq)
  BY <1>1, <1>2, NoReqTyped, Moving DEF Places
<1>4. r.trust.tag \in Bytes /\ r.trust.count \in Sizes /\ r.size \in Sizes /\ least \in Sizes
  BY <1>2 DEF Request, Trust
<1>5. r.op \in {"malloc", "calloc", "free", "realloc"}
  BY <1>1, <1>2 DEF CallOK, Shape, Request
<1>6. CASE r.op \in {"malloc", "calloc"}
  <2>1. r.ptr = nullptr /\ r.new_a = r.result
    BY <1>1, <1>2, <1>6 DEF CallOK, Shape
  <2>2. CASE r.result = nullptr
    <3>1. InFlight(t) = {}
      BY <2>1, <2>2 DEF InFlight
    <3>2. UNCHANGED held
      BY <1>6, <2>2 DEF Return
    <3>3. QED
      BY <1>1, <1>3, <3>1, <3>2, ReturnNothing
  <2>3. CASE r.result # nullptr
    <3>1. InFlight(t) = {r.result} /\ blocks[r.result] = r.size
      BY <1>2, <2>1, <2>3 DEF InFlight, CallOK, SizesKnown
    <3>2. CASE r.op = "malloc"
      <4>1. Keep(r.result, Junk, 0)
        BY <2>3, <3>2 DEF Return
      <4>2. Junk \in Bytes /\ 0 \in Sizes
        BY CallsAssumption DEF Bytes, Sizes
      <4>3. 0 <= blocks[r.result] /\ \A i \in 1..0 : mem[r.result][i] = Junk
        BY <1>2, <3>1
      <4>4. QED
        BY <1>1, <1>3, <2>3, <3>1, <4>1, <4>2, <4>3, ReturnBlock
    <3>3. CASE r.op = "calloc"
      <4>1. Keep(r.result, Zero, r.size)
        BY <2>3, <3>3 DEF Return
      <4>2. Zero \in Bytes
        BY DEF Bytes
      <4>3. r.size <= blocks[r.result] /\ \A i \in 1..r.size : mem[r.result][i] = Zero
        BY <1>2, <2>3, <3>1, <3>3 DEF CallOK, DataSafe
      <4>4. QED
        BY <1>1, <1>3, <1>4, <2>3, <3>1, <4>1, <4>2, <4>3, ReturnBlock
    <3>4. QED
      BY <1>6, <3>2, <3>3
  <2>4. QED
    BY <2>2, <2>3
<1>7. CASE r.op = "free"
  <2>1. InFlight(t) = {}
    BY <1>1, <1>2, <1>7 DEF CallOK, Shape, InFlight
  <2>2. UNCHANGED held
    BY <1>7 DEF Return
  <2>3. QED
    BY <1>1, <1>3, <2>1, <2>2, ReturnNothing
<1>8. CASE r.op = "realloc" /\ r.result # nullptr
  <2>1. InFlight(t) = {r.result} /\ blocks[r.result] = r.size
        /\ \A i \in 1..r.trust.count : i <= r.size => mem[r.result][i] = r.trust.tag
    BY <1>1, <1>2, <1>8 DEF CallOK, Shape, DataSafe
  <2>2. Keep(r.result, r.trust.tag, least)
    BY <1>8 DEF Return
  <2>3. least <= blocks[r.result] /\ \A i \in 1..least : mem[r.result][i] = r.trust.tag
    BY <1>2, <2>1
  <2>4. QED
    BY <1>1, <1>3, <1>4, <1>8, <2>1, <2>2, <2>3, ReturnBlock
<1>9. CASE r.op = "realloc" /\ r.result = nullptr
  <2>1. InFlight(t) = {r.ptr} /\ r.ptr # nullptr /\ r.trust.count <= blocks[r.ptr]
        /\ \A i \in 1..r.trust.count : mem[r.ptr][i] = r.trust.tag
    BY <1>1, <1>2, <1>9 DEF CallOK, Shape, DataSafe
  <2>2. Keep(r.ptr, r.trust.tag, r.trust.count)
    BY <1>9 DEF Return
  <2>3. QED
    BY <1>1, <1>3, <1>4, <2>1, <2>2, ReturnBlock
<1>10. QED
  BY <1>5, <1>6, <1>7, <1>8, <1>9

(* A client, between two calls, does something with its own blocks.        *)
LEMMA ClientOnlyInv ==
  ASSUME MIInv, NEW t \in Threads, UNCHANGED <<lock, pc, req, blocks, listed, status>>,
         HeapTypes', DataIntact', DOMAIN held' = DOMAIN held,
         \A q \in DOMAIN blocks \ DOMAIN held : Kept(q)
  PROVE  MIInv'
<1>1. MTypeOK /\ Moves(t, pc[t], req[t])
  BY TypesNow DEF MIInv, Moves, Others
<1>2. MTypeOK'
  BY <1>1, TypesNext DEF MTypeOK
<1>3. \A u \in Threads : InFlight(u)' = InFlight(u)
  BY DEF InFlight
<1>4. \A u \in Threads : \A q \in InFlight(u) : Kept(q)
  BY DEF MIInv, EveryBlockAccounted
<1>5. CallOK(t)'
  BY <1>1, <1>4, CallFrame DEF MIInv
<1>6. EveryBlockAccounted'
  <2>1. UNION {InFlight(u)' : u \in Threads} = UNION {InFlight(u) : u \in Threads}
    BY <1>3
  <2>2. QED
    BY <1>3, <2>1 DEF MIInv, EveryBlockAccounted
<1>7. LockDiscipline'
  BY DEF MIInv, LockDiscipline
<1>8. pc'[t] = "m_add" => req'[t].place \notin DOMAIN blocks'
  BY DEF MIInv, PlaceStillFree
<1>9. QED
  BY <1>1, <1>2, <1>4, <1>5, <1>6, <1>7, <1>8, Combine DEF Moves

(* A block passes from one client to another.                              *)
LEMMA HandOverInv ==
  ASSUME MIInv, NEW t \in Threads, NEW u \in Threads, NEW p \in Owned(t),
         HandOver(t, u, p), HeapUntouched
  PROVE  MIInv'
<1>1. /\ UNCHANGED <<lock, pc, req, blocks, listed, status, mem>>
      /\ held' = [held EXCEPT ![p].by = u]
  BY DEF HandOver, HeapUntouched
<1>2. HeapTypes
  BY OwnBlocks
<1>3. /\ DOMAIN held' = DOMAIN held
      /\ \A q \in DOMAIN held : /\ held'[q] \in [by : Threads, trust : Trust]
                                /\ held'[q].trust = held[q].trust
  BY <1>1, <1>2 DEF HeapTypes
<1>4. HeapTypes'
  BY <1>1, <1>2, <1>3 DEF HeapTypes
<1>5. DataIntact'
  BY <1>1, <1>3 DEF MIInv, DataIntact
<1>6. QED
  BY <1>1, <1>3, <1>4, <1>5, ClientOnlyInv DEF Kept

(* A client fills its block.                                               *)
LEMMA WriteInv ==
  ASSUME MIInv, NEW t \in Threads, NEW p \in Owned(t), Write(t, p)
  PROVE  MIInv'
<1>1. /\ UNCHANGED <<lock, pc, req, blocks, listed, status>> /\ Fill(p, blocks[p], t)
      /\ held' = [held EXCEPT ![p].trust = [tag |-> t, count |-> blocks[p]]]
  BY DEF Write, Filled
<1>2. /\ HeapTypes /\ p \in DOMAIN held /\ p \in Ptrs /\ p \in DOMAIN blocks
      /\ blocks[p] \in 1..MaxSize /\ t \in Bytes
  BY OwnBlocks DEF Owned, MIInv, EveryBlockAccounted, Bytes
<1>3. /\ mem' \in [Ptrs -> [1..MaxSize -> Bytes]]
      /\ \A q \in Ptrs : q # p => mem'[q] = mem[q]
      /\ \A i \in 1..MaxSize : i <= blocks[p] => mem'[p][i] = t
  BY <1>1, <1>2, FillTypes
<1>4. /\ DOMAIN held' = DOMAIN held
      /\ held'[p].trust.tag = t /\ held'[p].trust.count = blocks[p]
      /\ \A q \in DOMAIN held : q # p => held'[q] = held[q]
      /\ held'[p].by = held[p].by
  BY <1>1, <1>2 DEF HeapTypes
<1>5. held'[p] \in [by : Threads, trust : Trust]
  <2>1. [tag |-> t, count |-> blocks[p]] \in Trust
    BY <1>2, CallsAssumption DEF Trust, Sizes
  <2>2. held'[p] = [held[p] EXCEPT !.trust = [tag |-> t, count |-> blocks[p]]]
    BY <1>1, <1>2
  <2>3. QED
    BY <1>2, <2>1, <2>2 DEF HeapTypes
<1>6. HeapTypes'
  BY <1>1, <1>2, <1>3, <1>4, <1>5 DEF HeapTypes
<1>7. DataIntact'
  <2>1. ASSUME NEW q \in DOMAIN held
        PROVE  /\ q \in DOMAIN blocks /\ held'[q].trust.count <= blocks[q]
               /\ \A i \in 1..held'[q].trust.count : mem'[q][i] = held'[q].trust.tag
    <3>1. CASE q = p
      <4>1. \A i \in 1..blocks[p] : i \in 1..MaxSize /\ i <= blocks[p]
        BY <1>2, CallsAssumption
      <4>2. QED
        BY <1>2, <1>3, <1>4, <3>1, <4>1
    <3>2. CASE q # p
      <4>1. q \in Ptrs
        BY <1>2 DEF HeapTypes
      <4>2. QED
        BY <1>3, <1>4, <3>2, <4>1 DEF MIInv, DataIntact
    <3>3. QED
      BY <3>1, <3>2
  <2>2. QED
    BY <1>1, <1>4, <2>1 DEF DataIntact
<1>8. \A q \in DOMAIN blocks \ DOMAIN held : Kept(q)
  BY <1>1, <1>2, <1>3 DEF Kept, HeapTypes
<1>9. QED
  BY <1>1, <1>4, <1>6, <1>7, <1>8, ClientOnlyInv

-----------------------------------------------------------------------------
(* The invariant.                                                          *)

(* The steps of a call.                                                    *)
LEMMA StepInv ==
  ASSUME MIInv, NEW t \in Threads, Step(t)
  PROVE  MIInv'
<1>1. ASSUME ControlStep(t), HeapUntouched PROVE MIInv'
  <2>1. CASE malloc_unlock(t)
    BY <1>1, <2>1, MallocUnlockInv
  <2>2. CASE Unlock(t, "f_unlock", "ret") /\ UNCHANGED req
    BY <1>1, <2>2, OtherUnlockInv
  <2>3. CASE Unlock(t, "s_unlock", "ret") /\ UNCHANGED req
    BY <1>1, <2>3, OtherUnlockInv
  <2>4. CASE expand_unlock(t)
    BY <1>1, <2>4, OtherUnlockInv DEF expand_unlock
  <2>5. CASE Return(t)
    BY <1>1, <2>5, ReturnInv
  <2>6. QED
    BY <1>1, <2>1, <2>2, <2>3, <2>4, <2>5 DEF ControlStep
<1>2. QED
  BY <1>1, FindInv, AddInv, ZeroInv, RemoveInv, ReadSizeInv, ShrinkInv, ExpandInv, CopyInv
     DEF Step

(* The steps of a client.                                                  *)
LEMMA ClientInv ==
  ASSUME MIInv, NEW t \in Threads, Client(t)
  PROVE  MIInv'
<1>1. ASSUME NEW n \in Sizes, malloc(t, n) \/ calloc(t, n), HeapUntouched PROVE MIInv'
  <2>1. nullptr \in Owned(t) \cup {nullptr}
    OBVIOUS
  <2>2. QED
    BY <1>1, <2>1, ClientCallInv
<1>2. ASSUME NEW p \in Owned(t) \cup {nullptr}, free(t, p), HeapUntouched PROVE MIInv'
  <2>1. 0 \in Sizes
    BY CallsAssumption DEF Sizes
  <2>2. QED
    BY <1>2, <2>1, ClientCallInv
<1>3. ASSUME NEW p \in Owned(t) \cup {nullptr}, NEW n \in Sizes, realloc(t, p, n), HeapUntouched
      PROVE MIInv'
  BY <1>3, ClientCallInv
<1>4. QED
  BY <1>1, <1>2, <1>3, HandOverInv, WriteInv DEF Client

(* Initially every thread is between two calls and there is no block.      *)
LEMMA InitInv == MInit => MIInv
<1> SUFFICES ASSUME MInit PROVE MIInv
  OBVIOUS
<1>1. /\ lock = NoThread /\ pc = [t \in Threads |-> "idle"] /\ req = [t \in Threads |-> NoReq]
      /\ DOMAIN held = {} /\ DOMAIN blocks = {} /\ status = "running" /\ listed = FALSE
      /\ mem = [p \in Ptrs |-> [i \in 1..MaxSize |-> Junk]]
  BY DEF MInit, CInit, Empty
<1>2. MTypeOK
  <2>1. req \in [Threads -> Request]
    BY <1>1, NoReqTyped
  <2>2. QED
    BY <1>1, <2>1 DEF MTypeOK, Request, Places, Bytes
<1>3. ASSUME NEW t \in Threads PROVE InFlight(t) = {} /\ CallOK(t)
  <2>1. /\ pc[t] = "idle" /\ req[t] = NoReq /\ req[t].op = "none" /\ req[t].ptr = nullptr
        /\ req[t].new_a = nullptr /\ req[t].result = nullptr
    BY <1>1 DEF NoReq
  <2>2. InFlight(t) = {}
    BY <2>1 DEF InFlight
  <2>3. QED
    BY <2>1, <2>2 DEF CallOK, Shape, SizesKnown, DataSafe, Allocating, Sizing
<1>4. LockDiscipline
  BY <1>1, CallsAssumption DEF LockDiscipline, Critical
<1>5. EveryBlockAccounted
  BY <1>1, <1>3 DEF EveryBlockAccounted
<1>6. PlaceStillFree /\ DataIntact
  BY <1>1 DEF PlaceStillFree, DataIntact
<1>7. QED
  BY <1>2, <1>3, <1>4, <1>5, <1>6 DEF MIInv

(* A step that changes nothing.                                            *)
LEMMA StutterInv ==
  ASSUME MIInv, UNCHANGED mvars
  PROVE  MIInv'
<1>1. UNCHANGED <<lock, pc, req, blocks, mem, listed, held, status>>
  BY DEF mvars
<1>2. MTypeOK' /\ LockDiscipline' /\ PlaceStillFree' /\ DataIntact'
  BY <1>1 DEF MIInv, MTypeOK, LockDiscipline, PlaceStillFree, DataIntact
<1>3. ASSUME NEW t \in Threads PROVE InFlight(t)' = InFlight(t) /\ CallOK(t)'
  <2>1. \A p \in InFlight(t) : Kept(p)
    BY <1>1 DEF MIInv, EveryBlockAccounted, Kept
  <2>2. QED
    BY <1>1, <2>1, CallFrame DEF MIInv, InFlight
<1>4. EveryBlockAccounted'
  <2>1. UNION {InFlight(u)' : u \in Threads} = UNION {InFlight(u) : u \in Threads}
    BY <1>3
  <2>2. QED
    BY <1>1, <1>3, <2>1 DEF MIInv, EveryBlockAccounted
<1>5. QED
  BY <1>2, <1>3, <1>4 DEF MIInv

(* Every step keeps it.                                                    *)
LEMMA NextInv ==
  ASSUME MIInv, [MNext]_mvars
  PROVE  MIInv'
<1>1. ASSUME NEW t \in Threads, Step(t) \/ Acquire(t) \/ Client(t) PROVE MIInv'
  BY <1>1, StepInv, AcquireInv, ClientInv
<1>2. CASE Stopped \/ UNCHANGED mvars
  BY <1>2, StutterInv DEF Stopped
<1>3. QED
  BY <1>1, <1>2 DEF MNext

(* The strengthened invariant holds throughout.                            *)
LEMMA Invariance == MSpec => []MIInv
<1>1. MIInv /\ [MNext]_mvars => MIInv'
  BY NextInv
<1>2. QED
  BY <1>1, InitInv, PTL DEF MSpec

-----------------------------------------------------------------------------
(* Every variable, and every block, size and byte in it, stays within its  *)
(* type, however many threads call.                                        *)
THEOREM TypesCorrect == MSpec => []MTypeOK
BY Invariance, PTL DEF MIInv

(* A thread is inside the list exactly while storage_lock is its own: every *)
(* path through the four functions of methods.c takes the lock before and   *)
(* releases it after.                                                      *)
THEOREM LockGuardsList == MSpec => []LockDiscipline
BY Invariance, PTL DEF MIInv

(* malloc, calloc, realloc and free never leak a block, give it to two      *)
(* clients, or leave it with one that freed it.                            *)
THEOREM NoBlockLost == MSpec => []EveryBlockAccounted
BY Invariance, PTL DEF MIInv

(* No call of another thread, and no realloc of the block itself, changes   *)
(* the bytes its owner relies on, although calloc zeroes and realloc copies *)
(* without the lock.                                                       *)
THEOREM DataStaysIntact == MSpec => []DataIntact
BY Invariance, PTL DEF MIInv

(* The size realloc read without the lock has not changed when             *)
(* shrink_segment, expand_segment or copy_mem uses it.                     *)
THEOREM UnlockedSizeIsCurrent == MSpec => []OldSizeStillTrue
<1>1. MIInv => OldSizeStillTrue
  <2> SUFFICES ASSUME MIInv, NEW t \in Threads,
                      pc[t] \in {"s_lock", "s_shrink", "e_lock", "e_expand", "r_copy"}
               PROVE  blocks[req[t].ptr] = req[t].old_size
    BY DEF OldSizeStillTrue
  <2> QED
    BY DEF MIInv, CallOK, Shape, SizesKnown, Sizing
<1>2. QED
  BY <1>1, Invariance, PTL

(* Nobody takes the gap between find_free_seg and add_entry.               *)
THEOREM GapStaysFree == MSpec => []PlaceStillFree
BY Invariance, PTL DEF MIInv

-----------------------------------------------------------------------------
(***************************************************************************)
(* The calls are atomic: every step is one of MallocAPI, or is not seen by *)
(* the callers.  Which of the two, and what a call has done by then, is in *)
(* MIInv.                                                                  *)
(***************************************************************************)

(* What is seen of a call.                                                 *)
LEMMA SeenNow ==
  ASSUME NEW t \in Threads
  PROVE  /\ CallsSeen[t].op = req[t].op /\ CallsSeen[t].size = req[t].size
         /\ CallsSeen[t].block = BlockOf(t)
         /\ CallsSeen[t].data = IF BlockOf(t) = nullptr THEN Empty ELSE UserData(BlockOf(t))
         /\ CallsSeen[t].done <=> req[t].result # nullptr
         /\ BlockOf(t) = IF req[t].result # nullptr THEN req[t].result ELSE req[t].ptr
BY DEF CallsSeen, BlockOf

(* The block that is seen is one the call works on.                        *)
LEMMA SeenInFlight ==
  ASSUME MIInv, NEW t \in Threads
  PROVE  BlockOf(t) \in InFlight(t) \cup {nullptr}
BY OwnBlocks DEF BlockOf, InFlight, CallOK, Shape

(* A block that stays as it is, is seen to.                                *)
LEMMA DataSame ==
  ASSUME NEW p, Kept(p)
  PROVE  UserData(p)' = UserData(p)
BY DEF Kept, UserData

(* The clients' blocks stay as they are.                                   *)
LEMMA OwnedSame ==
  ASSUME held' = held, \A p \in DOMAIN held : Kept(p)
  PROVE  OwnedBlocks' = OwnedBlocks
<1>1. \A p \in DOMAIN held : UserData(p)' = UserData(p)
  BY DataSame
<1>2. QED
  BY <1>1 DEF OwnedBlocks

(* A call is seen as before if it works on the same block, unchanged.      *)
LEMMA SeenSame ==
  ASSUME MIInv, NEW t \in Threads,
         req'[t].op = req[t].op, req'[t].size = req[t].size, BlockOf(t)' = BlockOf(t),
         req'[t].result # nullptr <=> req[t].result # nullptr,
         BlockOf(t) # nullptr => Kept(BlockOf(t))
  PROVE  CallsSeen[t]' = CallsSeen[t]
<1>1. BlockOf(t) # nullptr => UserData(BlockOf(t))' = UserData(BlockOf(t))
  <2>1. ASSUME BlockOf(t) # nullptr
        PROVE  UserData(BlockOf(t))' = UserData(BlockOf(t))
    <3>1. Kept(BlockOf(t))
      BY <2>1
    <3>2. blocks'[BlockOf(t)] = blocks[BlockOf(t)] /\ mem'[BlockOf(t)] = mem[BlockOf(t)]
      BY <3>1 DEF Kept
    <3>3. QED
      BY <3>2 DEF UserData
  <2>2. QED
    BY <2>1
<1>2. QED
  BY <1>1 DEF CallsSeen

(* A step of t leaves the blocks of the others alone.                      *)
Untouched(t) == \A p \in DOMAIN blocks \ InFlight(t) : Kept(p)

(* Then nothing else is seen to change.                                    *)
LEMMA OnlyMine ==
  ASSUME MIInv, NEW t \in Threads, Others(t), Untouched(t)
  PROVE  \A u \in Threads \ {t} : CallsSeen[u]' = CallsSeen[u]
<1> SUFFICES ASSUME NEW u \in Threads \ {t} PROVE CallsSeen[u]' = CallsSeen[u]
  OBVIOUS
<1>1. req'[u] = req[u]
  BY DEF Others
<1>2. BlockOf(u)' = BlockOf(u)
  BY <1>1 DEF BlockOf
<1>3. BlockOf(u) # nullptr => Kept(BlockOf(u))
  BY SeenInFlight, Separate DEF MIInv, Untouched
<1>4. QED
  BY <1>1, <1>2, <1>3, SeenSame

(* The step is not seen.                                                   *)
LEMMA Unseen ==
  ASSUME MIInv, NEW t \in Threads, Others(t), Untouched(t), UNCHANGED <<held, status>>,
         CallsSeen[t]' = CallsSeen[t]
  PROVE  UNCHANGED API!apivars
<1>1. \A u \in Threads : CallsSeen[u]' = CallsSeen[u]
  BY OnlyMine
<1>2. CallsSeen' = CallsSeen
  BY <1>1 DEF CallsSeen
<1>3. OwnedBlocks' = OwnedBlocks
  BY OwnedSame DEF MIInv, EveryBlockAccounted, Untouched
<1>4. QED
  BY <1>2, <1>3 DEF API!apivars

(* The step changes what is seen of t's call, to c.                        *)
LEMMA Seen ==
  ASSUME MIInv, NEW t \in Threads, Others(t), Untouched(t), UNCHANGED <<held, status>>,
         NEW c, CallsSeen[t]' = c
  PROVE  /\ CallsSeen' = [CallsSeen EXCEPT ![t] = c]
         /\ UNCHANGED <<OwnedBlocks, status>>
<1>1. \A u \in Threads \ {t} : CallsSeen[u]' = CallsSeen[u]
  BY OnlyMine
<1>2. CallsSeen' = [CallsSeen EXCEPT ![t] = c]
  <2>1. /\ CallsSeen = [u \in Threads |-> CallsSeen[u]]
        /\ CallsSeen' = [u \in Threads |-> CallsSeen[u]']
    BY DEF CallsSeen
  <2>2. QED
    BY <1>1, <2>1
<1>3. OwnedBlocks' = OwnedBlocks
  BY OwnedSame DEF MIInv, EveryBlockAccounted, Untouched
<1>4. QED
  BY <1>2, <1>3


(* The call of t takes effect: its result is p.                            *)
LEMMA Effect ==
  ASSUME MIInv, NEW t \in Threads, Others(t), Untouched(t), UNCHANGED <<held, status>>,
         req'[t].op = req[t].op, req'[t].size = req[t].size,
         NEW p, p # nullptr, req'[t].result = p, NEW d, UserData(p)' = d
  PROVE  API!TakesEffect(t, p, d)
<1> DEFINE c == [op |-> req[t].op, size |-> req[t].size, block |-> p, data |-> d, done |-> TRUE]
<1>1. CallsSeen[t]' = c
  BY DEF CallsSeen, BlockOf
<1>2. /\ CallsSeen' = [CallsSeen EXCEPT ![t] = c]
      /\ UNCHANGED <<OwnedBlocks, status>>
  BY <1>1, Seen
<1>3. QED
  BY <1>2, SeenNow DEF API!TakesEffect, API!GoesOn

(* What every block holds is data of its size.                             *)
DataOK ==
  \A p \in DOMAIN blocks :
    UserData(p) \in API!Contents(blocks[p]) /\ DOMAIN UserData(p) = 1..blocks[p]

LEMMA DataTyped == MTypeOK => DataOK
<1> SUFFICES ASSUME MTypeOK, NEW p \in DOMAIN blocks
             PROVE  UserData(p) \in API!Contents(blocks[p]) /\ DOMAIN UserData(p) = 1..blocks[p]
  BY DEF DataOK
<1>1. p \in Ptrs /\ blocks[p] \in Nat /\ blocks[p] <= MaxSize /\ MaxSize \in Nat
  BY CallsAssumption DEF MTypeOK, Sizes
<1>2. \A i \in 1..blocks[p] : mem[p][i] \in Bytes
  BY <1>1 DEF MTypeOK
<1>3. QED
  BY <1>2 DEF UserData, API!Contents, API!Bytes, Bytes

(* After a step as well.                                                   *)
LEMMA DataTypedNext == MTypeOK' => DataOK'
BY DataTyped, PTL

(* A block the call has been given and not yet shown is new to everybody.  *)
LEMMA NewBlock ==
  ASSUME MIInv, NEW t \in Threads, req[t].new_a # nullptr, BlockOf(t) # req[t].new_a
  PROVE  API!Fresh(req[t].new_a)
<1> DEFINE p == req[t].new_a
<1>1. p \in InFlight(t) /\ p \in Ptrs
  BY OwnBlocks DEF InFlight
<1>2. p \notin DOMAIN held
  BY <1>1 DEF MIInv, EveryBlockAccounted
<1>3. p \notin DOMAIN OwnedBlocks
  BY <1>2 DEF OwnedBlocks
<1>4. ASSUME NEW u \in Threads PROVE CallsSeen[u].block # p
  <2>1. CallsSeen[u].block = BlockOf(u)
    BY SeenNow
  <2>2. BlockOf(u) \in InFlight(u) \cup {nullptr}
    BY SeenInFlight
  <2>3. u # t => p \notin InFlight(u)
    BY <1>1 DEF MIInv, EveryBlockAccounted
  <2>4. QED
    BY <2>1, <2>2, <2>3
<1>5. QED
  BY <1>1, <1>3, <1>4 DEF API!Fresh

(* A call without a result is still to take effect.                        *)
LEMMA StillPending ==
  ASSUME NEW t \in Threads, status = "running", req[t].result = nullptr
  PROVE  /\ API!Pending(t, req[t].op) /\ BlockOf(t) = req[t].ptr
         /\ CallsSeen[t].size = req[t].size /\ CallsSeen[t].block = req[t].ptr
         /\ CallsSeen[t].data = IF req[t].ptr = nullptr THEN Empty ELSE UserData(req[t].ptr)
<1>1. BlockOf(t) = req[t].ptr
  BY DEF BlockOf
<1>2. CallsSeen[t].op = req[t].op /\ ~ CallsSeen[t].done
  BY SeenNow
<1>3. API!Pending(t, req[t].op)
  BY <1>2 DEF API!Pending
<1>4. QED
  BY <1>1, <1>3, SeenNow

(* realloc's call takes effect, in place or in a new block.               *)
LEMMA ReallocEffect ==
  ASSUME MIInv, MIInv', NEW t \in Threads, Others(t), Untouched(t), UNCHANGED <<held, status>>,
         status = "running", req[t].op = "realloc", req[t].size # 0, req[t].result = nullptr,
         req'[t].op = "realloc", req'[t].size = req[t].size,
         NEW p, p # nullptr, req'[t].result = p,
         p = req[t].ptr \/ p = req[t].new_a,
         p \in DOMAIN blocks', blocks'[p] = req[t].size,
         \A i \in Nat : 1 <= i /\ i <= blocks[req[t].ptr] /\ i <= req[t].size
                          => mem'[p][i] = mem[req[t].ptr][i]
  PROVE  API!realloc(t)
<1> DEFINE d == UserData(p)'
           q == req[t].ptr
<1>1. /\ API!Pending(t, "realloc") /\ BlockOf(t) = q
      /\ CallsSeen[t].size = req[t].size /\ CallsSeen[t].block = q
      /\ CallsSeen[t].data = IF q = nullptr THEN Empty ELSE UserData(q)
  BY StillPending
<1>2. q # nullptr /\ q \in DOMAIN blocks /\ blocks[q] \in Nat /\ req[t].size \in Nat
  BY OwnBlocks, CallsAssumption DEF CallOK, Shape
<1>3. MTypeOK /\ MTypeOK'
  BY DEF MIInv
<1>4. d \in API!Contents(req[t].size) /\ DOMAIN d = 1..req[t].size
  BY <1>3, DataTypedNext DEF DataOK
<1>5. ASSUME NEW i \in DOMAIN d \cap DOMAIN UserData(q) PROVE d[i] = UserData(q)[i]
  <2>1. DOMAIN UserData(q) = 1..blocks[q]
    BY <1>2, <1>3, DataTyped DEF DataOK
  <2>2. i \in Nat /\ 1 <= i /\ i <= blocks[q] /\ i <= req[t].size
    BY <1>2, <1>4, <1>5, <2>1
  <2>3. mem'[p][i] = mem[q][i]
    BY <2>2
  <2>4. d[i] = mem'[p][i] /\ UserData(q)[i] = mem[q][i]
    BY <1>2, <1>5, <2>2 DEF UserData
  <2>5. QED
    BY <2>3, <2>4
<1>6. p \in Ptrs /\ (p = q \/ API!Fresh(p))
  <2>1. p \in Ptrs
    BY OwnBlocks
  <2>2. QED
    BY <1>1, <2>1, NewBlock
<1>7. API!TakesEffect(t, p, d)
  <2>1. ASSUME NEW x, UserData(p)' = x PROVE API!TakesEffect(t, p, x)
    BY <2>1, Effect
  <2>2. QED
    BY <2>1
<1>8. QED
  BY <1>1, <1>2, <1>4, <1>5, <1>6, <1>7 DEF API!realloc


(* A step that leaves the blocks, and what is seen of the call, alone.      *)
LEMMA QuietSeen ==
  ASSUME MIInv, NEW t \in Threads, NEW x, NEW r, Moves(t, x, r), UNCHANGED <<held, status>>,
         \A p \in DOMAIN blocks : Kept(p),
         r.op = req[t].op, r.size = req[t].size, r.ptr = req[t].ptr, r.result = req[t].result
  PROVE  UNCHANGED API!apivars
<1>1. req'[t] = r /\ Others(t) /\ Untouched(t)
  BY DEF Moves, Untouched
<1>2. BlockOf(t)' = BlockOf(t)
  BY <1>1 DEF BlockOf
<1>3. BlockOf(t) # nullptr => Kept(BlockOf(t))
  BY SeenInFlight DEF MIInv, EveryBlockAccounted
<1>4. CallsSeen[t]' = CallsSeen[t]
  BY <1>1, <1>2, <1>3, SeenSame
<1>5. QED
  BY <1>1, <1>4, Unseen

(* find_free_seg is not seen, unless it ends the process.                  *)
LEMMA FindSeen ==
  ASSUME MIInv, NEW t \in Threads, find_free_seg(t)
  PROVE  UNCHANGED API!apivars \/ API!Exit
<1> DEFINE r == req[t]
<1>1. /\ pc[t] = "m_find" /\ status = "running" /\ UNCHANGED <<blocks, mem, held>>
  BY DEF find_free_seg, FoundPlace, NoPlace, At, ControlElsewhere
<1>2. /\ CallOK(t) /\ MTypeOK /\ r \in Request /\ \A p \in DOMAIN blocks : Kept(p)
  BY <1>1, OwnBlocks DEF Kept
<1>3. ASSUME NEW p \in Ptrs, FoundPlace(t, p), UNCHANGED status PROVE UNCHANGED API!apivars
  <2>1. [r EXCEPT !.place = p] \in Request
    BY <1>2, <1>3 DEF Request, Pointers
  <2>2. Moves(t, "m_add", [r EXCEPT !.place = p])
    BY <1>2, <1>3, <2>1, Moving DEF Places, FoundPlace, Goto
  <2>3. QED
    BY <1>1, <1>2, <1>3, <2>2, QuietSeen DEF Request
<1>4. ASSUME NoPlace(t), UNCHANGED status PROVE UNCHANGED API!apivars
  <2>1. Moves(t, "m_unlock", r)
    BY <1>2, <1>4, MovingOnly DEF Places, NoPlace, Goto
  <2>2. QED
    BY <1>1, <1>2, <1>4, <2>1, QuietSeen
<1>5. CASE status' = "exited" /\ UNCHANGED <<lock, pc, req, held, listed>>
  <2>1. /\ r.op \in {"malloc", "calloc", "realloc"} /\ r.size # 0 /\ r.result = nullptr
        /\ r.size \in Nat
    BY <1>1, <1>2, OwnBlocks DEF CallOK, Shape, Allocating
  <2>2. /\ API!Pending(t, r.op) /\ CallsSeen[t].size = r.size
        /\ CallsSeen[t].data = IF r.ptr = nullptr THEN Empty ELSE UserData(r.ptr)
    BY <1>1, <2>1, StillPending
  <2>3. ~ API!Suffices(t)
    <3>1. CASE r.ptr = nullptr
      BY <2>2, <3>1 DEF API!Suffices, Empty
    <3>2. CASE r.ptr # nullptr
      <4>1. r.op = "realloc" /\ blocks[r.ptr] = r.old_size /\ r.old_size < r.size
        BY <1>1, <1>2, <2>1, <3>2 DEF CallOK, Shape, SizesKnown, Allocating
      <4>2. DOMAIN UserData(r.ptr) = 1..r.old_size /\ r.old_size \in Nat
        BY <1>2, <3>2, <4>1, OwnBlocks, DataTyped, CallsAssumption DEF DataOK, Request, Sizes
      <4>3. QED
        BY <2>1, <2>2, <3>2, <4>1, <4>2 DEF API!Suffices
    <3>3. QED
      BY <3>1, <3>2
  <2>4. UNCHANGED <<OwnedBlocks, CallsSeen>>
    BY <1>1, <1>5 DEF OwnedBlocks, CallsSeen, BlockOf, UserData
  <2>5. QED
    BY <1>5, <2>1, <2>2, <2>3, <2>4 DEF API!Exit
<1>6. QED
  BY <1>3, <1>4, <1>5 DEF find_free_seg

(* Nor is the new segment, before malloc returns it.                       *)
LEMMA AddSeen ==
  ASSUME MIInv, NEW t \in Threads, add_entry(t)
  PROVE  UNCHANGED API!apivars
<1> DEFINE r == req[t]
           p == req[t].place
           s == [r EXCEPT !.new_a = p]
<1>1. /\ pc[t] = "m_add" /\ UNCHANGED <<held, status>>
      /\ blocks' = Put(blocks, p, r.size) /\ Scribble(p, 0)
      /\ pc' = [pc EXCEPT ![t] = "m_unlock"] /\ req' = [req EXCEPT ![t] = s]
  BY DEF add_entry, EntryAdded, At, Goto, ControlElsewhere
<1>2. CallOK(t) /\ MTypeOK /\ HeapTypes /\ r \in Request
  BY OwnBlocks
<1>3. p \in Ptrs /\ p \notin DOMAIN blocks
  BY <1>1, <1>2 DEF CallOK, Shape, MIInv, PlaceStillFree, Request, Pointers
<1>4. Moves(t, "m_unlock", s)
  <2>1. s \in Request
    BY <1>2, <1>3 DEF Request, Pointers
  <2>2. QED
    BY <1>1, <1>2, <2>1, Moving DEF Places
<1>5. \A q \in DOMAIN blocks : Kept(q)
  BY <1>1, <1>2, <1>3, ScribbleTypes DEF Put, Kept, HeapTypes
<1>6. s.op = r.op /\ s.size = r.size /\ s.ptr = r.ptr /\ s.result = r.result
  BY <1>2 DEF Request
<1>7. QED
  BY <1>1, <1>4, <1>5, <1>6, QuietSeen

(* calloc takes effect with its last zero.                                 *)
LEMMA ZeroSeen ==
  ASSUME MIInv, NEW t \in Threads, set_mem_zero(t)
  PROVE  API!calloc(t)
<1>0. PICK p : p = req[t].new_a
  OBVIOUS
<1> DEFINE r == req[t]
           s == [r EXCEPT !.result = p]
           z == [i \in 1..req[t].size |-> Zero]
<1>1. /\ pc[t] = "c_zero" /\ status = "running" /\ UNCHANGED <<held, blocks, status>>
      /\ Fill(p, r.size, Zero)
      /\ pc' = [pc EXCEPT ![t] = "ret"] /\ req' = [req EXCEPT ![t] = s]
  BY <1>0 DEF set_mem_zero, MemZeroed, At, Goto, ControlElsewhere, Result
<1>2. CallOK(t) /\ MTypeOK /\ HeapTypes /\ r \in Request
  BY OwnBlocks
<1>3. /\ r.op = "calloc" /\ r.ptr = nullptr /\ r.result = nullptr /\ p # nullptr
      /\ p \in DOMAIN blocks /\ p \in Ptrs /\ blocks[p] = r.size
      /\ r.size \in 1..MaxSize
  BY <1>0, <1>1, <1>2, OwnBlocks DEF CallOK, Shape, SizesKnown
<1>4. Moves(t, "ret", s)
  <2>1. s \in Request
    BY <1>0, <1>2 DEF Request
  <2>2. QED
    BY <1>1, <1>2, <2>1, Moving DEF Places
<1>5. /\ mem' \in [Ptrs -> [1..MaxSize -> Bytes]]
      /\ \A q \in Ptrs : q # p => mem'[q] = mem[q]
      /\ \A i \in 1..MaxSize : mem'[p][i] = IF i <= r.size THEN Zero ELSE mem[p][i]
  BY <1>1, <1>2, <1>3, FillTypes DEF Bytes
<1>6. UserData(p)' = z
  <2>1. \A i \in 1..r.size : i \in 1..MaxSize /\ i <= r.size
    BY <1>3, CallsAssumption
  <2>2. \A i \in 1..r.size : mem'[p][i] = Zero
    BY <1>5, <2>1
  <2>3. UserData(p)' = [i \in 1..r.size |-> mem'[p][i]]
    BY <1>1, <1>3 DEF UserData
  <2>4. QED
    BY <2>2, <2>3
<1>7. Untouched(t)
  <2>1. \A q \in DOMAIN blocks : q \in Ptrs
    BY OwnBlocks
  <2>2. QED
    BY <1>0, <1>1, <1>3, <1>5, <2>1 DEF Untouched, Kept, InFlight
<1>8. Others(t) /\ req'[t].op = r.op /\ req'[t].size = r.size /\ req'[t].result = p
  BY <1>2, <1>4 DEF Moves, Request
<1>9. API!TakesEffect(t, p, z)
  BY <1>1, <1>3, <1>6, <1>7, <1>8, Effect
<1>10. API!Pending(t, "calloc") /\ CallsSeen[t].size = r.size /\ BlockOf(t) = nullptr
  BY <1>1, <1>3, StillPending
<1>11. API!Fresh(p)
  BY <1>0, <1>3, <1>10, NewBlock
<1>12. r.size # 0
  BY <1>3
<1>13. QED
  BY <1>3, <1>9, <1>10, <1>11, <1>12 DEF API!calloc


(* free takes effect in remove_segment; realloc's result is elsewhere by    *)
(* then, and the removal of its old block is not seen.                     *)
LEMMA RemoveSeen ==
  ASSUME MIInv, NEW t \in Threads, remove_segment(t)
  PROVE  UNCHANGED API!apivars \/ API!free(t)
<1> DEFINE r == req[t]
           p == req[t].ptr
           s == [r EXCEPT !.ptr = nullptr]
<1>1. /\ pc[t] = "f_remove" /\ status = "running" /\ UNCHANGED <<held, status>>
      /\ blocks' = Drop(blocks, p) /\ Scribble(p, 0)
      /\ pc' = [pc EXCEPT ![t] = "f_unlock"] /\ req' = [req EXCEPT ![t] = s]
  BY DEF remove_segment, SegmentRemoved, At, Goto, ControlElsewhere
<1>2. CallOK(t) /\ MTypeOK /\ HeapTypes /\ r \in Request
  BY OwnBlocks
<1>3. /\ p # nullptr /\ p \in DOMAIN blocks /\ p \in Ptrs /\ p # r.new_a
      /\ \/ r.op = "free" /\ r.result = nullptr
         \/ r.op = "realloc" /\ r.new_a # nullptr /\ r.result = r.new_a
  BY <1>1, <1>2, OwnBlocks DEF CallOK, Shape
<1>4. Moves(t, "f_unlock", s)
  <2>1. s \in Request
    BY <1>2 DEF Request, Pointers
  <2>2. QED
    BY <1>1, <1>2, <2>1, Moving DEF Places
<1>5. \A q \in DOMAIN blocks \ {p} : Kept(q)
  BY <1>1, <1>2, <1>3, ScribbleTypes DEF Drop, Kept, HeapTypes
<1>6. Untouched(t) /\ Others(t)
  BY <1>3, <1>4, <1>5 DEF Untouched, InFlight, Moves
<1>7. /\ req'[t].op = r.op /\ req'[t].size = r.size /\ req'[t].result = r.result
      /\ req'[t].ptr = nullptr
  BY <1>2, <1>4 DEF Moves, Request
<1>8. CASE r.op = "free" /\ r.result = nullptr
  <2>1. API!Pending(t, "free") /\ CallsSeen[t].block = p
    BY <1>1, <1>8, StillPending
  <2>2. CallsSeen[t]' = [op |-> r.op, size |-> r.size, block |-> nullptr, data |-> Empty,
                         done |-> FALSE]
    BY <1>7, <1>8 DEF CallsSeen, BlockOf
  <2>3. API!GoesOn(t, nullptr, Empty, FALSE)
    BY <1>1, <1>6, <2>2, Seen, SeenNow DEF API!GoesOn
  <2>4. QED
    BY <1>3, <2>1, <2>3 DEF API!free, API!Empty, Empty
<1>9. CASE r.op = "realloc" /\ r.new_a # nullptr /\ r.result = r.new_a
  <2>1. BlockOf(t) = r.new_a /\ BlockOf(t)' = r.new_a /\ Kept(r.new_a)
    BY <1>3, <1>5, <1>7, <1>9, OwnBlocks DEF BlockOf
  <2>2. CallsSeen[t]' = CallsSeen[t]
    BY <1>7, <2>1, SeenSame
  <2>3. QED
    BY <1>1, <1>6, <2>2, Unseen
<1>10. QED
  BY <1>3, <1>8, <1>9

(* realloc to the size the block has takes effect when the size is read.   *)
LEMMA ReadSizeSeen ==
  ASSUME MIInv, MIInv', NEW t \in Threads, ReadSize(t)
  PROVE  UNCHANGED API!apivars \/ API!realloc(t)
<1> DEFINE r == req[t]
           n == blocks[r.ptr]
           s == [r EXCEPT !.old_size = n]
           z == [r EXCEPT !.old_size = n, !.result = r.ptr]
<1>1. /\ pc[t] = "r_size" /\ status = "running" /\ UNCHANGED <<held, status, blocks, mem>>
      /\ \/ r.size = n /\ pc' = [pc EXCEPT ![t] = "ret"]
              /\ req' = [req EXCEPT ![t].old_size = n, ![t].result = r.ptr]
         \/ r.size < n /\ pc' = [pc EXCEPT ![t] = "s_lock"] /\ req' = [req EXCEPT ![t] = s]
         \/ r.size > n /\ pc' = [pc EXCEPT ![t] = "e_lock"] /\ req' = [req EXCEPT ![t] = s]
  BY DEF ReadSize, SizeKnown, HeapUntouched, At, Goto, ControlElsewhere
<1>2. CallOK(t) /\ MTypeOK /\ r \in Request /\ HeapTypes
  BY OwnBlocks
<1>3. /\ r.op = "realloc" /\ r.ptr # nullptr /\ r.result = nullptr /\ r.ptr \in DOMAIN blocks
      /\ r.size > 0 /\ r.size \in Nat
  BY <1>1, <1>2, OwnBlocks DEF CallOK, Shape, Sizing
<1>4. n \in Sizes /\ s \in Request /\ \A p \in DOMAIN blocks : Kept(p)
  BY <1>1, <1>2, <1>3 DEF HeapTypes, Request, Kept
<1>5. CASE r.size = n /\ pc' = [pc EXCEPT ![t] = "ret"]
             /\ req' = [req EXCEPT ![t].old_size = n, ![t].result = r.ptr]
  <2>1. Others(t) /\ Untouched(t)
    BY <1>2, <1>4, <1>5, TypesNow DEF Others, Untouched
  <2>2. req'[t].op = r.op /\ req'[t].size = r.size /\ req'[t].result = r.ptr
    BY <1>2, <1>5, TypesNow DEF Request
  <2>3. /\ r.ptr \in DOMAIN blocks' /\ blocks'[r.ptr] = r.size /\ mem'[r.ptr] = mem[r.ptr]
    BY <1>1, <1>3, <1>5
  <2>4. QED
    BY <1>1, <1>3, <2>1, <2>2, <2>3, ReallocEffect
<1>6. CASE r.size < n /\ pc' = [pc EXCEPT ![t] = "s_lock"] /\ req' = [req EXCEPT ![t] = s]
  <2>1. Moves(t, "s_lock", s)
    BY <1>2, <1>4, <1>6, Moving DEF Places
  <2>2. QED
    BY <1>1, <1>2, <1>4, <2>1, QuietSeen DEF Request
<1>7. CASE r.size > n /\ pc' = [pc EXCEPT ![t] = "e_lock"] /\ req' = [req EXCEPT ![t] = s]
  <2>1. Moves(t, "e_lock", s)
    BY <1>2, <1>4, <1>7, Moving DEF Places
  <2>2. QED
    BY <1>1, <1>2, <1>4, <2>1, QuietSeen DEF Request
<1>8. QED
  BY <1>1, <1>5, <1>6, <1>7

(* shrink_segment and expand_segment: realloc takes effect when the        *)
(* segment has its new size.                                               *)
LEMMA ResizeSeen ==
  ASSUME MIInv, MIInv', NEW t \in Threads, NEW kept \in Nat, NEW to \in {"s_unlock", "e_unlock"},
         pc[t] \in {"s_shrink", "e_expand"}, pc' = [pc EXCEPT ![t] = to], status = "running",
         Result(t, req[t].ptr), held' = held, Resized(t, req[t].size, kept),
         kept >= req[t].size \/ kept >= blocks[req[t].ptr]
  PROVE  API!realloc(t)
<1> DEFINE r == req[t]
           p == req[t].ptr
           s == [r EXCEPT !.result = p]
<1>1. /\ UNCHANGED <<held, status>>
      /\ blocks' = [blocks EXCEPT ![p] = r.size] /\ Scribble(p, kept)
      /\ req' = [req EXCEPT ![t] = s]
  BY DEF Resized, Result
<1>2. CallOK(t) /\ MTypeOK /\ HeapTypes /\ r \in Request
  BY OwnBlocks
<1>3. /\ p # nullptr /\ p \in DOMAIN blocks /\ p \in Ptrs /\ r.op = "realloc"
      /\ r.result = nullptr /\ r.size \in Nat /\ r.size > 0 /\ r.size <= MaxSize
      /\ blocks[p] \in Nat
  BY <1>2, OwnBlocks DEF CallOK, Shape, Sizing
<1>4. Moves(t, to, s)
  <2>1. s \in Request
    BY <1>2 DEF Request
  <2>2. QED
    BY <1>1, <1>2, <2>1, Moving DEF Places
<1>5. /\ \A q \in Ptrs : q # p => mem'[q] = mem[q]
      /\ \A i \in 1..MaxSize : i <= kept => mem'[p][i] = mem[p][i]
  BY <1>1, <1>2, <1>3, ScribbleTypes
<1>6. /\ p \in DOMAIN blocks' /\ blocks'[p] = r.size
      /\ \A q \in DOMAIN blocks \ {p} : Kept(q)
  BY <1>1, <1>2, <1>3, <1>5 DEF Kept, HeapTypes
<1>7. Untouched(t) /\ Others(t)
  BY <1>3, <1>4, <1>6 DEF Untouched, InFlight, Moves
<1>8. req'[t].op = "realloc" /\ req'[t].size = r.size /\ req'[t].result = p
  BY <1>2, <1>3, <1>4 DEF Moves, Request
<1>9. \A i \in Nat : 1 <= i /\ i <= blocks[p] /\ i <= r.size => mem'[p][i] = mem[p][i]
  <2>1. \A i \in Nat : 1 <= i /\ i <= blocks[p] /\ i <= r.size => i \in 1..MaxSize /\ i <= kept
    BY <1>3, CallsAssumption
  <2>2. QED
    BY <1>5, <2>1
<1>10. r.size # 0
  BY <1>3
<1>11. QED
  BY <1>1, <1>3, <1>6, <1>7, <1>8, <1>9, <1>10, ReallocEffect

(* shrink_segment.                                                         *)
LEMMA ShrinkSeen ==
  ASSUME MIInv, MIInv', NEW t \in Threads, shrink_segment(t)
  PROVE  API!realloc(t)
<1>1. pc[t] = "s_shrink" /\ status = "running" /\ CallOK(t) /\ req[t] \in Request
  BY OwnBlocks DEF shrink_segment, SegmentShrunk, At
<1>2. blocks[req[t].ptr] = req[t].old_size /\ req[t].old_size \in Nat /\ req[t].size \in Nat
  BY <1>1, CallsAssumption DEF CallOK, SizesKnown, Request, Sizes
<1>3. blocks[req[t].ptr] - (req[t].old_size - req[t].size) = req[t].size
  BY <1>2
<1>4. Resized(t, req[t].size, req[t].size)
  BY <1>3 DEF shrink_segment
<1>5. /\ pc' = [pc EXCEPT ![t] = "s_unlock"] /\ Result(t, req[t].ptr)
      /\ held' = held /\ req[t].size >= req[t].size
  BY <1>2 DEF shrink_segment, SegmentShrunk, Goto, ControlElsewhere
<1>6. QED
  BY <1>1, <1>2, <1>4, <1>5, ResizeSeen

(* expand_segment; that there is no room is not seen.                      *)
LEMMA ExpandSeen ==
  ASSUME MIInv, MIInv', NEW t \in Threads, expand_segment(t)
  PROVE  UNCHANGED API!apivars \/ API!realloc(t)
<1>1. CASE NoRoom(t) /\ HeapUntouched /\ UNCHANGED status
  <2>1. Moves(t, "e_unlock", req[t])
    BY <1>1, OwnBlocks, MovingOnly DEF Places, NoRoom, Goto
  <2>2. UNCHANGED <<held, status>> /\ \A p \in DOMAIN blocks : Kept(p)
    BY <1>1 DEF NoRoom, ControlElsewhere, HeapUntouched, Kept
  <2>3. QED
    BY <2>1, <2>2, QuietSeen
<1>2. CASE /\ SegmentExpanded(t)
           /\ Resized(t, blocks[req[t].ptr] + (req[t].size - req[t].old_size), req[t].old_size)
  <2>1. pc[t] = "e_expand" /\ status = "running" /\ CallOK(t) /\ req[t] \in Request
    BY <1>2, OwnBlocks DEF SegmentExpanded, At
  <2>2. /\ blocks[req[t].ptr] = req[t].old_size /\ req[t].old_size \in Nat
        /\ req[t].size \in Nat
    BY <2>1, CallsAssumption DEF CallOK, Shape, Sizing, SizesKnown, DataSafe, Request, Sizes
  <2>3. blocks[req[t].ptr] + (req[t].size - req[t].old_size) = req[t].size
    BY <2>2
  <2>4. Resized(t, req[t].size, req[t].old_size)
    BY <1>2, <2>3
  <2>5. /\ pc' = [pc EXCEPT ![t] = "e_unlock"] /\ Result(t, req[t].ptr)
        /\ held' = held /\ req[t].old_size >= blocks[req[t].ptr]
    BY <1>2, <2>2 DEF SegmentExpanded, Goto, ControlElsewhere
  <2>6. QED
    BY <2>1, <2>2, <2>4, <2>5, ResizeSeen
<1>3. QED
  BY <1>1, <1>2 DEF expand_segment

(* copy_mem: from here on the new block is the one that is seen.           *)
LEMMA CopySeen ==
  ASSUME MIInv, MIInv', NEW t \in Threads, copy_mem(t)
  PROVE  API!realloc(t)
<1> DEFINE r == req[t]
           p == req[t].new_a
           s == [r EXCEPT !.result = p]
<1>1. /\ pc[t] = "r_copy" /\ status = "running" /\ UNCHANGED <<held, blocks, status>>
      /\ mem' = [mem EXCEPT ![p] =
           [i \in 1..MaxSize |-> IF i <= r.old_size THEN mem[r.ptr][i] ELSE @[i]]]
      /\ pc' = [pc EXCEPT ![t] = "f_lock"] /\ req' = [req EXCEPT ![t] = s]
  BY DEF copy_mem, MemCopied, At, Goto, ControlElsewhere, Result
<1>2. CallOK(t) /\ MTypeOK /\ HeapTypes /\ r \in Request
  BY OwnBlocks
<1>3. /\ r.op = "realloc" /\ r.result = nullptr /\ r.ptr # nullptr /\ r.ptr # p
      /\ p # nullptr /\ p \in DOMAIN blocks /\ p \in Ptrs /\ blocks[p] = r.size
      /\ r.ptr \in DOMAIN blocks /\ r.ptr \in Ptrs /\ blocks[r.ptr] = r.old_size
      /\ r.size \in 1..MaxSize /\ r.old_size \in Nat
  BY <1>1, <1>2, OwnBlocks DEF CallOK, Shape, SizesKnown
<1>4. Moves(t, "f_lock", s)
  <2>1. s \in Request
    BY <1>2 DEF Request
  <2>2. QED
    BY <1>1, <1>2, <2>1, Moving DEF Places
<1>5. /\ \A q \in Ptrs : q # p => mem'[q] = mem[q]
      /\ \A i \in 1..MaxSize : i <= r.old_size => mem'[p][i] = mem[r.ptr][i]
  BY <1>1, <1>2, <1>3 DEF HeapTypes
<1>6. Untouched(t) /\ Others(t)
  <2>1. \A q \in DOMAIN blocks \ {p} : Kept(q)
    BY <1>1, <1>2, <1>5 DEF Kept, HeapTypes
  <2>2. QED
    BY <1>3, <1>4, <2>1 DEF Untouched, InFlight, Moves
<1>7. req'[t].op = "realloc" /\ req'[t].size = r.size /\ req'[t].result = p
  BY <1>2, <1>3, <1>4 DEF Moves, Request
<1>8. \A i \in Nat : 1 <= i /\ i <= blocks[r.ptr] /\ i <= r.size => mem'[p][i] = mem[r.ptr][i]
  <2>1. \A i \in Nat : 1 <= i /\ i <= blocks[r.ptr] /\ i <= r.size
          => i \in 1..MaxSize /\ i <= r.old_size
    BY <1>3, CallsAssumption
  <2>2. QED
    BY <1>5, <2>1
<1>9. p \in DOMAIN blocks' /\ blocks'[p] = r.size /\ r.size # 0
  BY <1>1, <1>3
<1>10. QED
  BY <1>1, <1>3, <1>6, <1>7, <1>8, <1>9, ReallocEffect


(* malloc takes effect when it gives the lock back; its part in calloc and *)
(* realloc is not seen.                                                    *)
LEMMA MallocUnlockSeen ==
  ASSUME MIInv, MIInv', NEW t \in Threads, malloc_unlock(t), HeapUntouched
  PROVE  UNCHANGED API!apivars \/ API!malloc(t)
<1>0. PICK p : p = req[t].new_a
  OBVIOUS
<1> DEFINE r == req[t]
           s == [r EXCEPT !.result = p]
<1>1. /\ pc[t] = "m_unlock" /\ status = "running" /\ UNCHANGED <<held, status, blocks, mem>>
  BY DEF malloc_unlock, Unlock, At, HeapUntouched
<1>2. CallOK(t) /\ MTypeOK /\ r \in Request /\ \A q \in DOMAIN blocks : Kept(q)
  BY <1>1, OwnBlocks DEF Kept
<1>3. ASSUME NEW x \in {"ret", "c_zero", "r_copy"}, Unlock(t, "m_unlock", x), UNCHANGED req
      PROVE  UNCHANGED API!apivars
  <2>1. Moves(t, x, r)
    BY <1>2, <1>3, MovingOnly DEF Unlock, Goto, Places
  <2>2. QED
    BY <1>1, <1>2, <2>1, QuietSeen
<1>4. CASE p # nullptr /\ r.op = "malloc" /\ Unlock(t, "m_unlock", "ret") /\ Result(t, p)
  <2>1. /\ r.ptr = nullptr /\ r.result = nullptr /\ r.size \in Nat /\ r.size > 0
        /\ p \in DOMAIN blocks /\ p \in Ptrs /\ blocks[p] = r.size
    BY <1>0, <1>1, <1>2, <1>4, OwnBlocks DEF CallOK, Shape, SizesKnown, Allocating
  <2>2. Moves(t, "ret", s)
    <3>1. s \in Request
      BY <1>0, <1>2 DEF Request
    <3>2. QED
      BY <1>2, <1>4, <3>1, Moving DEF Unlock, Goto, Places, Result
  <2>3. Others(t) /\ Untouched(t)
    BY <1>2, <2>2 DEF Moves, Untouched
  <2>4. req'[t].op = r.op /\ req'[t].size = r.size /\ req'[t].result = p
    BY <1>2, <2>2 DEF Moves, Request
  <2>5. UserData(p)' = UserData(p)
    BY <1>2, <2>1, DataSame
  <2>6. API!TakesEffect(t, p, UserData(p))
    BY <1>1, <1>4, <2>3, <2>4, <2>5, Effect
  <2>7. UserData(p) \in API!Contents(r.size)
    BY <1>2, <2>1, DataTyped DEF DataOK
  <2>8. API!Pending(t, "malloc") /\ CallsSeen[t].size = r.size /\ BlockOf(t) = nullptr
    BY <1>1, <1>4, <2>1, StillPending
  <2>9. API!Fresh(p)
    BY <1>0, <1>4, <2>8, NewBlock
  <2>10. r.size # 0
    BY <2>1
  <2>11. QED
    BY <2>1, <2>6, <2>7, <2>8, <2>9, <2>10 DEF API!malloc
<1>5. QED
  BY <1>0, <1>3, <1>4 DEF malloc_unlock

(* The other unlockings are not seen.                                      *)
LEMMA UnlockSeen ==
  ASSUME MIInv, NEW t \in Threads, HeapUntouched, UNCHANGED req,
         NEW from, NEW to \in {"ret", "m_lock"}, Unlock(t, from, to)
  PROVE  UNCHANGED API!apivars
<1>1. UNCHANGED <<held, status, blocks, mem>>
  BY DEF Unlock, HeapUntouched
<1>2. Moves(t, to, req[t])
  BY OwnBlocks, MovingOnly DEF Unlock, Goto, Places
<1>3. QED
  BY <1>1, <1>2, QuietSeen DEF Kept

(* Nor is taking the lock.                                                 *)
LEMMA AcquireSeen ==
  ASSUME MIInv, NEW t \in Threads, Acquire(t)
  PROVE  UNCHANGED API!apivars
<1>1. ASSUME NEW x, NEW y \in Places, Lock(t, x, y), UNCHANGED <<blocks, mem>>
      PROVE  UNCHANGED API!apivars
  <2>1. Moves(t, y, req[t]) /\ UNCHANGED <<held, status>>
    BY <1>1, OwnBlocks, MovingOnly DEF Lock, Goto
  <2>2. QED
    BY <1>1, <2>1, QuietSeen DEF Kept
<1>2. QED
  BY <1>1 DEF Acquire, TakeLock, HeapUntouched, Places

(* A call that returns gives its block, if it has one, to its caller.      *)
LEMMA ReturnSeen ==
  ASSUME MIInv, NEW t \in Threads, Return(t), HeapUntouched
  PROVE  API!Return(t)
<1> DEFINE r == req[t]
           b == BlockOf(t)
<1>1. /\ pc[t] = "ret" /\ status = "running" /\ UNCHANGED <<blocks, mem, status>>
      /\ pc' = [pc EXCEPT ![t] = "idle"] /\ req' = [req EXCEPT ![t] = NoReq]
  BY DEF Return, At, Goto, HeapUntouched
<1>2. /\ CallOK(t) /\ MTypeOK /\ HeapTypes /\ r \in Request /\ r.op # "none"
  BY <1>1, OwnBlocks DEF CallOK, Shape
<1>3. Moves(t, "idle", NoReq)
  BY <1>1, <1>2, NoReqTyped, Moving DEF Places
<1>4. /\ CallsSeen[t].op = r.op /\ CallsSeen[t].size = r.size /\ CallsSeen[t].block = b
      /\ CallsSeen[t].data = IF b = nullptr THEN Empty ELSE UserData(b)
      /\ CallsSeen[t].done <=> r.result # nullptr
  BY SeenNow
<1>5. r.op = "free" => b = nullptr
  BY <1>1, <1>2 DEF CallOK, Shape, BlockOf
<1>6. ASSUME r.op = "realloc", API!Suffices(t) PROVE r.result # nullptr
  <2>1. SUFFICES ASSUME r.result = nullptr PROVE FALSE
    OBVIOUS
  <2>2. b = r.ptr /\ r.ptr # nullptr /\ r.ptr \in DOMAIN blocks
    BY <1>2, <1>6, <2>1, OwnBlocks DEF BlockOf, CallOK, Shape
  <2>3. DOMAIN UserData(r.ptr) = 1..blocks[r.ptr] /\ blocks[r.ptr] \in Nat
    BY <1>2, <2>2, OwnBlocks, DataTyped, CallsAssumption DEF DataOK
  <2>4. r.size \in 1..blocks[r.ptr] /\ r.size \in Nat
    BY <1>4, <1>6, <2>2, <2>3, OwnBlocks DEF API!Suffices
  <2>5. blocks[r.ptr] = r.old_size /\ r.old_size < r.size
    BY <1>1, <1>2, <1>6, <2>1, <2>4 DEF CallOK, SizesKnown
  <2>6. QED
    BY <2>3, <2>4, <2>5
<1>7. IF b = nullptr THEN held' = held
      ELSE \E tr : held' = Put(held, b, [by |-> t, trust |-> tr])
  <2>1. CASE r.op \in {"malloc", "calloc"}
    <3>1. b = r.result
      BY <1>2, <2>1 DEF CallOK, Shape, BlockOf
    <3>2. QED
      BY <2>1, <3>1 DEF Return
  <2>2. CASE r.op = "free"
    BY <1>5, <2>2 DEF Return
  <2>3. CASE r.op = "realloc" /\ r.result # nullptr
    BY <2>3 DEF Return, BlockOf
  <2>4. CASE r.op = "realloc" /\ r.result = nullptr
    <3>1. b = r.ptr /\ r.ptr # nullptr
      BY <1>2, <2>4 DEF CallOK, Shape, BlockOf
    <3>2. QED
      BY <2>4, <3>1 DEF Return
  <2>5. QED
    BY <1>2, <2>1, <2>2, <2>3, <2>4 DEF Request
<1>8. OwnedBlocks' = IF b = nullptr THEN OwnedBlocks
                     ELSE API!Put(OwnedBlocks, b, [by |-> t, data |-> UserData(b)])
  <2>1. \A p : UserData(p)' = UserData(p)
    BY <1>1 DEF UserData
  <2>2. CASE b = nullptr
    BY <1>7, <2>1, <2>2 DEF OwnedBlocks
  <2>3. CASE b # nullptr
    <3>1. PICK tr : held' = Put(held, b, [by |-> t, trust |-> tr])
      BY <1>7, <2>3
    <3>2. /\ DOMAIN held' = DOMAIN held \cup {b} /\ held'[b].by = t
          /\ \A p \in DOMAIN held : p # b => held'[p] = held[p]
      BY <3>1 DEF Put
    <3>3. OwnedBlocks' = [p \in DOMAIN held \cup {b} |->
            [by |-> IF p = b THEN t ELSE held[p].by, data |-> UserData(p)]]
      BY <2>1, <3>2 DEF OwnedBlocks
    <3>4. QED
      BY <2>3, <3>3 DEF OwnedBlocks, API!Put
  <2>4. QED
    BY <2>2, <2>3
<1>9. CallsSeen' = [CallsSeen EXCEPT ![t] = API!NoCall]
  <2>1. \A u \in Threads \ {t} : CallsSeen[u]' = CallsSeen[u]
    <3>1. Others(t) /\ Untouched(t)
      BY <1>1, <1>3 DEF Moves, Untouched, Kept
    <3>2. QED
      BY <3>1, OnlyMine
  <2>2. CallsSeen[t]' = API!NoCall
    <3>1. /\ req'[t].op = "none" /\ req'[t].size = 0 /\ req'[t].ptr = nullptr
          /\ req'[t].result = nullptr
      BY <1>3 DEF Moves, NoReq
    <3>2. BlockOf(t)' = nullptr
      BY <3>1 DEF BlockOf
    <3>3. CallsSeen[t]' = [op |-> "none", size |-> 0, block |-> nullptr, data |-> Empty,
                           done |-> FALSE]
      BY <3>1, <3>2 DEF CallsSeen
    <3>4. QED
      BY <3>3 DEF API!NoCall, API!Empty, Empty
  <2>3. /\ CallsSeen = [u \in Threads |-> CallsSeen[u]]
        /\ CallsSeen' = [u \in Threads |-> CallsSeen[u]']
    BY DEF CallsSeen
  <2>4. QED
    BY <2>1, <2>2, <2>3
<1>10. QED
  BY <1>1, <1>2, <1>4, <1>5, <1>6, <1>8, <1>9 DEF API!Return


(* A call begins: its pointer's block is seen to be the call's.            *)
LEMMA CallSeen ==
  ASSUME MIInv, NEW t \in Threads, HeapUntouched, NEW op, NEW p \in Owned(t) \cup {nullptr},
         NEW n \in Sizes, NEW entry, Call(t, op, p, n, entry)
  PROVE  API!Call(t, op, p, n)
<1> DEFINE s == [NoReq EXCEPT !.op = op, !.ptr = p, !.size = n,
                              !.trust = IF p = nullptr THEN NoTrust ELSE held[p].trust]
<1>1. /\ pc[t] = "idle" /\ status = "running" /\ UNCHANGED <<blocks, mem, status>>
      /\ held' = Drop(held, p) /\ req' = [req EXCEPT ![t] = s]
  BY DEF Call, At, HeapUntouched
<1>2. MTypeOK /\ HeapTypes /\ CallOK(t) /\ req[t] = NoReq
  BY <1>1, OwnBlocks DEF CallOK, Shape
<1>3. /\ s.op = op /\ s.ptr = p /\ s.size = n /\ s.result = nullptr
      /\ NoReq.op = "none" /\ NoReq.ptr = nullptr /\ NoReq.size = 0 /\ NoReq.result = nullptr
  BY DEF NoReq
<1>4. req'[t] = s /\ \A u \in Threads \ {t} : req'[u] = req[u]
  BY <1>1, <1>2 DEF MTypeOK
<1>5. API!Idle(t)
  <2>1. BlockOf(t) = nullptr
    BY <1>2, <1>3 DEF BlockOf
  <2>2. CallsSeen[t] = [op |-> "none", size |-> 0, block |-> nullptr, data |-> Empty,
                        done |-> FALSE]
    BY <1>2, <1>3, <2>1 DEF CallsSeen
  <2>3. QED
    BY <1>1, <2>2 DEF API!Idle, API!NoCall, API!Empty, Empty
<1>6. \A q : UserData(q)' = UserData(q)
  BY <1>1 DEF UserData
<1>7. p = nullptr \/ (p \in DOMAIN OwnedBlocks /\ OwnedBlocks[p].by = t
                      /\ OwnedBlocks[p].data = UserData(p))
  BY DEF Owned, OwnedBlocks
<1>8. OwnedBlocks' = API!Drop(OwnedBlocks, p)
  <2>1. DOMAIN held' = DOMAIN held \ {p} /\ \A q \in DOMAIN held' : held'[q] = held[q]
    BY <1>1 DEF Drop
  <2>2. OwnedBlocks' = [q \in DOMAIN held \ {p} |-> [by |-> held[q].by, data |-> UserData(q)]]
    BY <1>6, <2>1 DEF OwnedBlocks
  <2>3. QED
    BY <2>2 DEF OwnedBlocks, API!Drop
<1>9. CallsSeen[t]' = [op |-> op, size |-> n, block |-> p, done |-> FALSE,
                       data |-> IF p = nullptr THEN API!Empty ELSE OwnedBlocks[p].data]
  <2>1. BlockOf(t)' = p /\ ~ (req'[t].result # nullptr)
    BY <1>3, <1>4 DEF BlockOf
  <2>2. CallsSeen[t]' = [op |-> op, size |-> n, block |-> p, done |-> FALSE,
                         data |-> IF p = nullptr THEN Empty ELSE UserData(p)]
    BY <1>3, <1>4, <1>6, <2>1 DEF CallsSeen
  <2>3. QED
    BY <1>7, <2>2 DEF API!Empty, Empty
<1>10. \A u \in Threads \ {t} : CallsSeen[u]' = CallsSeen[u]
  BY <1>1, <1>4 DEF CallsSeen, BlockOf, UserData
<1>11. CallsSeen' = [CallsSeen EXCEPT ![t] =
         [op |-> op, size |-> n, block |-> p, done |-> FALSE,
          data |-> IF p = nullptr THEN API!Empty ELSE OwnedBlocks[p].data]]
  <2>1. /\ CallsSeen = [u \in Threads |-> CallsSeen[u]]
        /\ CallsSeen' = [u \in Threads |-> CallsSeen[u]']
    BY DEF CallsSeen
  <2>2. QED
    BY <1>9, <1>10, <2>1
<1>12. QED
  BY <1>1, <1>5, <1>7, <1>8, <1>11 DEF API!Call

(* The clients' calls are those of MallocAPI.                              *)
LEMMA InvokeSeen ==
  ASSUME MIInv, NEW t \in Threads, HeapUntouched, NEW p \in Owned(t) \cup {nullptr},
         NEW n \in Sizes, malloc(t, n) \/ calloc(t, n) \/ free(t, p) \/ realloc(t, p, n)
  PROVE  API!Invoke(t)
<1>1. p = nullptr \/ p \in Ptrs
  BY OwnBlocks DEF Owned, HeapTypes
<1>2. n \in 0..MaxSize /\ 0 \in Sizes /\ nullptr \in Owned(t) \cup {nullptr}
  BY CallsAssumption DEF Sizes
<1>3. CASE malloc(t, n)
  <2>1. API!Call(t, "malloc", nullptr, n)
    BY <1>2, <1>3, CallSeen DEF malloc
  <2>2. QED
    BY <1>2, <2>1 DEF API!Invoke
<1>4. CASE calloc(t, n)
  <2>1. API!Call(t, "calloc", nullptr, n)
    BY <1>2, <1>4, CallSeen DEF calloc
  <2>2. QED
    BY <1>2, <2>1 DEF API!Invoke
<1>5. CASE free(t, p)
  <2>1. API!Call(t, "free", p, 0)
    BY <1>2, <1>5, CallSeen DEF free
  <2>2. QED
    BY <1>1, <2>1 DEF API!Invoke
<1>6. CASE realloc(t, p, n)
  <2>1. CASE p = nullptr
    <3>1. API!Call(t, "malloc", nullptr, n)
      BY <1>2, <1>6, <2>1, CallSeen DEF realloc
    <3>2. QED
      BY <1>2, <3>1 DEF API!Invoke
  <2>2. CASE p # nullptr
    <3>1. API!Call(t, "realloc", p, n)
      BY <1>6, <2>2, CallSeen DEF realloc
    <3>2. QED
      BY <1>1, <1>2, <2>2, <3>1 DEF API!Invoke
  <2>3. QED
    BY <2>1, <2>2
<1>7. QED
  BY <1>3, <1>4, <1>5, <1>6

(* A client between two calls that changes no call ...                     *)
LEMMA ClientOnlySeen ==
  ASSUME MIInv, NEW t \in Threads, pc[t] = "idle", status = "running", UNCHANGED <<req, blocks>>,
         \A q \in DOMAIN blocks \ DOMAIN held : Kept(q)
  PROVE  API!Idle(t) /\ CallsSeen' = CallsSeen
<1>1. CallOK(t) /\ req[t] = NoReq
  BY OwnBlocks DEF CallOK, Shape
<1>2. CallsSeen[t] = [op |-> "none", size |-> 0, block |-> nullptr, data |-> Empty, done |-> FALSE]
  <2>1. /\ req[t].op = "none" /\ req[t].ptr = nullptr /\ req[t].size = 0
        /\ req[t].result = nullptr
    BY <1>1 DEF NoReq
  <2>2. BlockOf(t) = nullptr
    BY <2>1 DEF BlockOf
  <2>3. QED
    BY <2>1, <2>2 DEF CallsSeen
<1>3. API!Idle(t)
  BY <1>2 DEF API!Idle, API!NoCall, API!Empty, Empty
<1>4. ASSUME NEW u \in Threads PROVE CallsSeen[u]' = CallsSeen[u]
  <2>1. BlockOf(u)' = BlockOf(u)
    BY DEF BlockOf
  <2>2. BlockOf(u) # nullptr => Kept(BlockOf(u))
    BY SeenInFlight DEF MIInv, EveryBlockAccounted
  <2>3. QED
    BY <2>1, <2>2, SeenSame
<1>5. CallsSeen' = CallsSeen
  BY <1>4 DEF CallsSeen
<1>6. QED
  BY <1>3, <1>5

(* ... may hand a block over ...                                           *)
LEMMA HandOverSeen ==
  ASSUME MIInv, NEW t \in Threads, NEW u \in Threads, NEW p \in Owned(t),
         HandOver(t, u, p), HeapUntouched
  PROVE  API!HandOver(t, u, p)
<1>1. /\ pc[t] = "idle" /\ status = "running" /\ UNCHANGED <<req, blocks, status, mem>>
      /\ held' = [held EXCEPT ![p].by = u]
  BY DEF HandOver, HeapUntouched, At
<1>2. API!Idle(t) /\ CallsSeen' = CallsSeen
  BY <1>1, ClientOnlySeen DEF Kept
<1>3. p \in DOMAIN held /\ held[p].by = t /\ HeapTypes
  BY OwnBlocks DEF Owned
<1>4. /\ DOMAIN held' = DOMAIN held /\ held'[p].by = u
      /\ \A q \in DOMAIN held : q # p => held'[q] = held[q]
  BY <1>1, <1>3 DEF HeapTypes
<1>5. \A q : UserData(q)' = UserData(q)
  BY <1>1 DEF UserData
<1>6. OwnedBlocks' = [q \in DOMAIN held |->
        [by |-> IF q = p THEN u ELSE held[q].by, data |-> UserData(q)]]
  BY <1>4, <1>5 DEF OwnedBlocks
<1>7. OwnedBlocks' = [OwnedBlocks EXCEPT ![p].by = u]
  BY <1>3, <1>6 DEF OwnedBlocks
<1>8. OwnedBlocks[p].by = t
  BY <1>3 DEF OwnedBlocks
<1>9. QED
  BY <1>1, <1>2, <1>7, <1>8 DEF API!HandOver

(* ... or fill it.                                                         *)
LEMMA WriteSeen ==
  ASSUME MIInv, NEW t \in Threads, NEW p \in Owned(t), Write(t, p)
  PROVE  API!Write(t, p)
<1>1. /\ pc[t] = "idle" /\ status = "running" /\ UNCHANGED <<req, blocks, status>>
      /\ Fill(p, blocks[p], t)
      /\ held' = [held EXCEPT ![p].trust = [tag |-> t, count |-> blocks[p]]]
  BY DEF Write, Filled, At
<1>2. /\ HeapTypes /\ p \in DOMAIN held /\ p \in Ptrs /\ p \in DOMAIN blocks
      /\ blocks[p] \in 1..MaxSize /\ t \in Bytes /\ held[p].by = t
  BY OwnBlocks DEF Owned, MIInv, EveryBlockAccounted, Bytes
<1>3. /\ \A q \in Ptrs : q # p => mem'[q] = mem[q]
      /\ \A i \in 1..MaxSize : mem'[p][i] = IF i <= blocks[p] THEN t ELSE mem[p][i]
  BY <1>1, <1>2, FillTypes
<1>4. /\ DOMAIN held' = DOMAIN held /\ \A q \in DOMAIN held : held'[q].by = held[q].by
  BY <1>1, <1>2 DEF HeapTypes
<1>5. UserData(p)' = [i \in 1..blocks[p] |-> t]
  <2>1. \A i \in 1..blocks[p] : i \in 1..MaxSize /\ i <= blocks[p]
    BY <1>2, CallsAssumption
  <2>2. \A i \in 1..blocks[p] : mem'[p][i] = t
    BY <1>3, <2>1
  <2>3. QED
    BY <1>1, <2>2 DEF UserData
<1>6. \A q \in DOMAIN held : q # p => UserData(q)' = UserData(q)
  BY <1>1, <1>2, <1>3 DEF UserData, HeapTypes
<1>7. API!Idle(t) /\ CallsSeen' = CallsSeen
  <2>1. \A q \in DOMAIN blocks \ DOMAIN held : Kept(q)
    BY <1>1, <1>2, <1>3, OwnBlocks DEF Kept
  <2>2. QED
    BY <1>1, <2>1, ClientOnlySeen
<1>8. OwnedBlocks' = [q \in DOMAIN held |->
        [by |-> held[q].by, data |-> IF q = p THEN [i \in 1..blocks[p] |-> t] ELSE UserData(q)]]
  BY <1>4, <1>5, <1>6 DEF OwnedBlocks
<1>9. OwnedBlocks[p].data = UserData(p) /\ OwnedBlocks[p].by = t
      /\ DOMAIN UserData(p) = 1..blocks[p]
  BY <1>2 DEF OwnedBlocks, UserData
<1>10. OwnedBlocks' = [OwnedBlocks EXCEPT ![p].data = [i \in DOMAIN @ |-> t]]
  BY <1>2, <1>8, <1>9 DEF OwnedBlocks
<1>11. QED
  BY <1>1, <1>7, <1>9, <1>10 DEF API!Write


(* Initially nothing is allocated and nobody calls.                        *)
LEMMA InitSeen == MInit => API!APIInit
<1> SUFFICES ASSUME MInit PROVE API!APIInit
  OBVIOUS
<1>1. /\ req = [t \in Threads |-> NoReq] /\ held = Empty /\ status = "running"
      /\ NoReq.op = "none" /\ NoReq.ptr = nullptr /\ NoReq.size = 0 /\ NoReq.result = nullptr
  BY DEF MInit, CInit, NoReq
<1>2. OwnedBlocks = API!Empty
  BY <1>1 DEF OwnedBlocks, Empty, API!Empty
<1>3. ASSUME NEW t \in Threads PROVE CallsSeen[t] = API!NoCall
  <2>1. /\ req[t].op = "none" /\ req[t].ptr = nullptr /\ req[t].size = 0
        /\ req[t].result = nullptr
    BY <1>1
  <2>2. BlockOf(t) = nullptr
    BY <2>1 DEF BlockOf
  <2>3. CallsSeen[t] = [op |-> "none", size |-> 0, block |-> nullptr, data |-> Empty,
                        done |-> FALSE]
    BY <2>1, <2>2 DEF CallsSeen
  <2>4. QED
    BY <2>3 DEF API!NoCall, API!Empty, Empty
<1>4. CallsSeen = [t \in Threads |-> API!NoCall]
  <2>1. CallsSeen = [t \in Threads |-> CallsSeen[t]]
    BY DEF CallsSeen
  <2>2. QED
    BY <1>3, <2>1
<1>5. QED
  BY <1>1, <1>2, <1>4 DEF API!APIInit

(* A step of a call.                                                       *)
LEMMA StepSeen ==
  ASSUME MIInv, MIInv', NEW t \in Threads, Step(t)
  PROVE  [API!APINext]_(API!apivars)
<1>1. ASSUME ControlStep(t), HeapUntouched
      PROVE  UNCHANGED API!apivars \/ API!malloc(t) \/ API!Return(t)
  <2>1. CASE malloc_unlock(t)
    BY <1>1, <2>1, MallocUnlockSeen
  <2>2. CASE Unlock(t, "f_unlock", "ret") /\ UNCHANGED req
    BY <1>1, <2>2, UnlockSeen
  <2>3. CASE Unlock(t, "s_unlock", "ret") /\ UNCHANGED req
    BY <1>1, <2>3, UnlockSeen
  <2>4. CASE expand_unlock(t)
    BY <1>1, <2>4, UnlockSeen DEF expand_unlock
  <2>5. CASE Return(t)
    BY <1>1, <2>5, ReturnSeen
  <2>6. QED
    BY <1>1, <2>1, <2>2, <2>3, <2>4, <2>5 DEF ControlStep
<1>2. \/ UNCHANGED API!apivars \/ API!Exit
      \/ API!malloc(t) \/ API!calloc(t) \/ API!free(t) \/ API!realloc(t) \/ API!Return(t)
  BY <1>1, FindSeen, AddSeen, ZeroSeen, RemoveSeen, ReadSizeSeen, ShrinkSeen, ExpandSeen,
     CopySeen DEF Step
<1>3. QED
  BY <1>2 DEF API!APINext

(* A step of a client.                                                     *)
LEMMA ClientSeen ==
  ASSUME MIInv, NEW t \in Threads, Client(t)
  PROVE  API!APINext
<1>1. 0 \in Sizes /\ nullptr \in Owned(t) \cup {nullptr}
  BY CallsAssumption DEF Sizes
<1>2. ASSUME NEW n \in Sizes, malloc(t, n) \/ calloc(t, n), HeapUntouched PROVE API!Invoke(t)
  BY <1>1, <1>2, InvokeSeen
<1>3. ASSUME NEW p \in Owned(t) \cup {nullptr}, free(t, p), HeapUntouched PROVE API!Invoke(t)
  BY <1>1, <1>3, InvokeSeen
<1>4. ASSUME NEW p \in Owned(t) \cup {nullptr}, NEW n \in Sizes, realloc(t, p, n), HeapUntouched
      PROVE API!Invoke(t)
  BY <1>4, InvokeSeen
<1>5. ASSUME NEW p \in Owned(t), NEW u \in Threads, HandOver(t, u, p), HeapUntouched
      PROVE  p \in DOMAIN OwnedBlocks /\ API!HandOver(t, u, p)
  BY <1>5, HandOverSeen DEF Owned, OwnedBlocks
<1>6. ASSUME NEW p \in Owned(t), Write(t, p)
      PROVE  p \in DOMAIN OwnedBlocks /\ API!Write(t, p)
  BY <1>6, WriteSeen DEF Owned, OwnedBlocks
<1>7. \/ API!Invoke(t)
      \/ \E p \in DOMAIN OwnedBlocks : \E u \in Threads : API!HandOver(t, u, p)
      \/ \E p \in DOMAIN OwnedBlocks : API!Write(t, p)
  BY <1>2, <1>3, <1>4, <1>5, <1>6 DEF Client
<1>8. QED
  BY <1>7 DEF API!APINext

(* Every step is one of MallocAPI, or not seen.                            *)
LEMMA NextSeen ==
  ASSUME MIInv, [MNext]_mvars
  PROVE  [API!APINext]_(API!apivars)
<1>1. MIInv'
  BY NextInv
<1>2. ASSUME NEW t \in Threads, Step(t) \/ Acquire(t) \/ Client(t)
      PROVE  [API!APINext]_(API!apivars)
  BY <1>1, <1>2, StepSeen, AcquireSeen, ClientSeen
<1>3. CASE Stopped \/ UNCHANGED mvars
  <2>1. UNCHANGED <<req, blocks, mem, held, status>>
    BY <1>3 DEF Stopped, mvars
  <2>2. UNCHANGED API!apivars
    BY <2>1 DEF API!apivars, OwnedBlocks, CallsSeen, BlockOf, UserData
  <2>3. QED
    BY <2>2
<1>4. QED
  BY <1>2, <1>3 DEF MNext

(* malloc, calloc, realloc and free are atomic for their callers: each call *)
(* takes effect at one instant between its invocation and its return,      *)
(* hands out an address nobody has, gives calloc's zeroes and realloc's    *)
(* old bytes, and fails only where MallocAPI lets it.                      *)
THEOREM CallsAreAtomic == MSpec => ImplementsAPI
<1>1. MIInv /\ [MNext]_mvars => [API!APINext]_(API!apivars)
  BY NextSeen
<1>2. QED
  BY <1>1, InitSeen, Invariance, PTL DEF MSpec, ImplementsAPI, API!APISpec
=============================================================================
