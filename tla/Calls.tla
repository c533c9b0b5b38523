-------------------------------- MODULE Calls --------------------------------
(***************************************************************************)
(* malloc, calloc, free and realloc of methods.c as several threads run    *)
(* them: where each thread is, what it knows, who holds storage_lock, and  *)
(* which block belongs to which client.  What the calls do to the heap is  *)
(* the business of the modules that extend this one: Methods with an       *)
(* abstract heap, Allocator with the segment list and the bytes of the     *)
(* arena.  One step is what runs between two points where another thread   *)
(* can be noticed.                                                         *)
(*                                                                         *)
(* Steps that use the heap are given here by their control half; they      *)
(* leave the lock and the clients alone, and leave `status' to the heap.   *)
(***************************************************************************)
EXTENDS Integers, FiniteSets, Maps

CONSTANTS
  Threads,    (* the threads of the process                                *)
  NoThread,   (* storage_lock is free                                      *)
  MaxSize,    (* bound: the largest request                                *)
  Junk,       (* the tag of a byte nobody can rely on                      *)
  Zero        (* the tag of a byte set_mem_zero wrote                      *)

ASSUME CallsAssumption ==
  /\ NoThread \notin Threads
  /\ Junk # Zero /\ {Junk, Zero} \cap Threads = {}
  /\ MaxSize \in Nat \ {0}

VARIABLES
  lock,       (* storage_lock: the thread that holds it                    *)
  pc,         (* where each thread is                                      *)
  req,        (* each thread's arguments and local variables               *)
  held,       (* the clients' view: who owns a pointer, and the tag and    *)
              (* number of bytes the owner relies on                       *)
  status      (* "running", or how the process ended                       *)

nullptr == 0
Sizes == 0..MaxSize
NoTrust == [tag |-> Junk, count |-> 0]

NoReq == [op |-> "none", ptr |-> nullptr, size |-> 0, old_size |-> 0,
          place |-> nullptr, new_a |-> nullptr, result |-> nullptr, trust |-> NoTrust]

CInit ==
  /\ lock = NoThread
  /\ pc = [t \in Threads |-> "idle"]
  /\ req = [t \in Threads |-> NoReq]
  /\ held = Empty
  /\ status = "running"

At(t, place) == status = "running" /\ pc[t] = place
Goto(t, place) == pc' = [pc EXCEPT ![t] = place]
Result(t, p) == req' = [req EXCEPT ![t].result = p]

Lock_NoWait(t, from, to) ==
  /\ At(t, from)
  /\ lock' = t
  /\ Goto(t, to)
  /\ UNCHANGED <<req, held, status>>

Lock(t, from, to) ==
  /\ At(t, from)
  /\ lock = NoThread /\ lock' = t
  /\ Goto(t, to)
  /\ UNCHANGED <<req, held, status>>

Unlock(t, from, to) ==
  /\ At(t, from)
  /\ lock' = NoThread
  /\ Goto(t, to)
  /\ UNCHANGED <<held, status>>

TakeLock(t) ==
  \/ Lock(t, "m_lock", "m_find")
  \/ Lock(t, "f_lock", "f_remove")
  \/ Lock(t, "s_lock", "s_shrink")
  \/ Lock(t, "e_lock", "e_expand")

-----------------------------------------------------------------------------
(***************************************************************************)
(* The clients: a thread calls with a pointer it owns, or nullptr, and     *)
(* does not touch the block before the call returns.                       *)
(***************************************************************************)
Owned(t) == {p \in DOMAIN held : held[p].by = t}

Call(t, op, ptr, n, entry) ==
  /\ At(t, "idle")
  /\ req' = [req EXCEPT ![t] =
       [NoReq EXCEPT !.op = op, !.ptr = ptr, !.size = n,
                     !.trust = IF ptr = nullptr THEN NoTrust ELSE held[ptr].trust]]
  /\ held' = Drop(held, ptr)
  /\ Goto(t, entry)
  /\ UNCHANGED <<lock, status>>

malloc(t, n) == Call(t, "malloc", nullptr, n, IF n = 0 THEN "ret" ELSE "m_lock")

calloc(t, n) == Call(t, "calloc", nullptr, n, IF n = 0 THEN "ret" ELSE "m_lock")

free(t, p) == Call(t, "free", p, 0, IF p = nullptr THEN "ret" ELSE "f_lock")

(* Size 0 returns nullptr at once; realloc(nullptr, n) is malloc(n). *)
realloc(t, p, n) ==
  Call(t, IF p = nullptr THEN "malloc" ELSE "realloc", p, n,
       CASE n = 0 -> "ret"
         [] n # 0 /\ p = nullptr -> "m_lock"
         [] n # 0 /\ p # nullptr -> "r_size")

(* What the client owns after the call: the result, or, when realloc        *)
(* returns nullptr, still the old pointer.                                  *)
Return(t) ==
  LET r == req[t]
      Keep(p, tag, count) ==
        held' = Put(held, p, [by |-> t, trust |-> [tag |-> tag, count |-> count]])
  IN /\ At(t, "ret")
     /\ CASE r.op = "malloc" /\ r.result # nullptr -> Keep(r.result, Junk, 0)
          [] r.op = "calloc" /\ r.result # nullptr -> Keep(r.result, Zero, r.size)
          [] r.op = "realloc" /\ r.result # nullptr ->
               Keep(r.result, r.trust.tag,
                    IF r.size < r.trust.count THEN r.size ELSE r.trust.count)
          [] r.op = "realloc" /\ r.result = nullptr ->
               Keep(r.ptr, r.trust.tag, r.trust.count)
          [] OTHER -> UNCHANGED held
     /\ req' = [req EXCEPT ![t] = NoReq]
     /\ Goto(t, "idle")
     /\ UNCHANGED <<lock, status>>

(* The owner has filled the n bytes of its block. *)
Filled(t, p, n) ==
  /\ At(t, "idle") /\ p \in Owned(t)
  /\ held' = [held EXCEPT ![p].trust = [tag |-> t, count |-> n]]
  /\ UNCHANGED <<lock, pc, req, status>>

(* One thread allocates, another one frees. *)
HandOver(t, u, p) ==
  /\ At(t, "idle") /\ p \in Owned(t) /\ u # t
  /\ held' = [held EXCEPT ![p].by = u]
  /\ UNCHANGED <<lock, pc, req, status>>

-----------------------------------------------------------------------------
(***************************************************************************)
(* malloc, also from calloc and realloc.                                   *)
(***************************************************************************)
ControlElsewhere == UNCHANGED <<lock, held>>

(* find_free_seg returned p. *)
FoundPlace(t, p) ==
  /\ At(t, "m_find") /\ Goto(t, "m_add")
  /\ req' = [req EXCEPT ![t].place = p]
  /\ ControlElsewhere

(* find_free_seg returned nullptr. *)
NoPlace(t) ==
  /\ At(t, "m_find") /\ Goto(t, "m_unlock")
  /\ UNCHANGED req /\ ControlElsewhere

(* add_entry returned new_a. *)
EntryAdded(t, new_a) ==
  /\ At(t, "m_add") /\ Goto(t, "m_unlock")
  /\ req' = [req EXCEPT ![t].new_a = new_a]
  /\ ControlElsewhere

malloc_unlock_EarlyReturn(t) ==
  \/ /\ req[t].new_a = nullptr
     /\ At(t, "m_unlock") /\ Goto(t, "ret")
     /\ UNCHANGED <<lock, req, held, status>>
  \/ /\ req[t].new_a # nullptr
     /\ Unlock(t, "m_unlock",
          CASE req[t].op = "malloc" -> "ret"
            [] req[t].op = "calloc" -> "c_zero"
            [] req[t].op = "realloc" -> "r_copy")
     /\ IF req[t].op = "malloc" THEN Result(t, req[t].new_a) ELSE UNCHANGED req

malloc_unlock(t) ==
  \/ /\ req[t].new_a = nullptr
     /\ Unlock(t, "m_unlock", "ret") /\ UNCHANGED req
  \/ /\ req[t].new_a # nullptr /\ req[t].op = "malloc"
     /\ Unlock(t, "m_unlock", "ret") /\ Result(t, req[t].new_a)
  \/ /\ req[t].new_a # nullptr /\ req[t].op = "calloc"
     /\ Unlock(t, "m_unlock", "c_zero") /\ UNCHANGED req
  \/ /\ req[t].new_a # nullptr /\ req[t].op = "realloc"
     /\ Unlock(t, "m_unlock", "r_copy") /\ UNCHANGED req

(* calloc has zeroed its block. *)
MemZeroed(t) ==
  /\ At(t, "c_zero") /\ Goto(t, "ret")
  /\ Result(t, req[t].new_a)
  /\ ControlElsewhere

-----------------------------------------------------------------------------
(***************************************************************************)
(* free, also at the end of realloc.                                       *)
(***************************************************************************)
SegmentRemoved(t) ==
  /\ At(t, "f_remove") /\ Goto(t, "f_unlock")
  /\ req' = [req EXCEPT ![t].ptr = nullptr]
  /\ ControlElsewhere

-----------------------------------------------------------------------------
(***************************************************************************)
(* realloc.                                                                *)
(***************************************************************************)

(* get_segment_size has returned old_size.  No segment has size 0, so the   *)
(* branch for it is left out.                                              *)
SizeKnown(t, old_size) ==
  LET r == req[t]
  IN /\ At(t, "r_size")
     /\ \/ /\ r.size = old_size /\ Goto(t, "ret")
           /\ req' = [req EXCEPT ![t].old_size = old_size, ![t].result = r.ptr]
        \/ /\ r.size < old_size /\ Goto(t, "s_lock")
           /\ req' = [req EXCEPT ![t].old_size = old_size]
        \/ /\ r.size > old_size /\ Goto(t, "e_lock")
           /\ req' = [req EXCEPT ![t].old_size = old_size]
     /\ ControlElsewhere

(* shrink_segment succeeded. *)
SegmentShrunk(t) ==
  /\ At(t, "s_shrink") /\ Goto(t, "s_unlock")
  /\ Result(t, req[t].ptr)
  /\ ControlElsewhere

(* expand_segment succeeded. *)
SegmentExpanded(t) ==
  /\ At(t, "e_expand") /\ Goto(t, "e_unlock")
  /\ Result(t, req[t].ptr)
  /\ ControlElsewhere

(* The gap behind the segment is too small for expand_segment. *)
NoRoom(t) ==
  /\ At(t, "e_expand") /\ Goto(t, "e_unlock")
  /\ UNCHANGED req /\ ControlElsewhere

(* shrink_segment, expand_segment or copy_mem returned ERROR: realloc       *)
(* returns nullptr, after unlocking where it has the lock.                  *)
Refused(t) ==
  /\ Goto(t, IF pc[t] = "r_copy" THEN "ret" ELSE "s_unlock")
  /\ UNCHANGED req /\ ControlElsewhere

expand_unlock_Retries(t) ==
  /\ \/ req[t].result # nullptr /\ Unlock(t, "e_unlock", "ret")
     \/ /\ req[t].result = nullptr
        /\ At(t, "e_unlock") /\ Goto(t, "e_expand")
        /\ UNCHANGED <<lock, held, status>>
  /\ UNCHANGED req

expand_unlock(t) ==
  /\ \/ req[t].result # nullptr /\ Unlock(t, "e_unlock", "ret")
     \/ req[t].result = nullptr /\ Unlock(t, "e_unlock", "m_lock")
  /\ UNCHANGED req

MemCopied_NoFree(t) ==
  /\ At(t, "r_copy") /\ Goto(t, "ret")
  /\ Result(t, req[t].new_a)
  /\ ControlElsewhere

(* copy_mem succeeded, and free(ptr) comes next. *)
MemCopied(t) ==
  /\ At(t, "r_copy") /\ Goto(t, "f_lock")
  /\ Result(t, req[t].new_a)
  /\ ControlElsewhere

(* A step of a call under way that does not touch the heap, taking the      *)
(* lock excepted.                                                           *)
ControlStep(t) ==
  \/ malloc_unlock(t)
  \/ Unlock(t, "f_unlock", "ret") /\ UNCHANGED req
  \/ Unlock(t, "s_unlock", "ret") /\ UNCHANGED req
  \/ expand_unlock(t)
  \/ Return(t)

-----------------------------------------------------------------------------
Places == {"idle", "ret", "m_lock", "m_find", "m_add", "m_unlock", "c_zero",
           "f_lock", "f_remove", "f_unlock", "r_size", "s_lock", "s_shrink",
           "s_unlock", "e_lock", "e_expand", "e_unlock", "r_copy"}

Critical == {"m_find", "m_add", "m_unlock", "f_remove", "f_unlock",
             "s_shrink", "s_unlock", "e_expand", "e_unlock"}
=============================================================================
