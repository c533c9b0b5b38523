------------------------------ MODULE MallocAPI ------------------------------
(***************************************************************************)
(* What malloc, calloc, free and realloc are for the threads that call     *)
(* them: a call takes the block it is about away from its owner, takes     *)
(* effect at one instant, and gives a block back when it returns.  There   *)
(* is no lock, no list and no intermediate state here; Methods and, below  *)
(* it, Allocator implement it, so that each call of methods.c is atomic    *)
(* ("thread-safe: it behaves as though only accessing the memory locations *)
(* visible through its argument").                                         *)
(***************************************************************************)
EXTENDS Integers, Maps

CONSTANTS
  Threads,    (* the threads of the process                                *)
  Ptrs,       (* bound: the addresses a block can have                     *)
  nullptr,
  MaxSize,    (* bound: the largest request                                *)
  Junk,       (* what a byte nobody has written holds                      *)
  Zero        (* what calloc writes                                        *)

VARIABLES
  owned,      (* the blocks of the clients: owner and contents, by address *)
  calls,      (* the call each thread is in                                *)
  status      (* "running", or how the process ended                       *)

apivars == <<owned, calls, status>>

Bytes == {Junk, Zero} \cup Threads
Contents(n) == [1..n -> Bytes]

(* A call is about `block' (nullptr: none) with the contents `data'; once   *)
(* it is `done', the block is its result.                                  *)
NoCall == [op |-> "none", size |-> 0, block |-> nullptr, data |-> Empty, done |-> FALSE]

APIInit ==
  /\ owned = Empty
  /\ calls = [t \in Threads |-> NoCall]
  /\ status = "running"

Idle(t) == status = "running" /\ calls[t] = NoCall

(* t has called op and no effect of the call has been seen yet.            *)
Pending(t, op) == status = "running" /\ calls[t].op = op /\ ~ calls[t].done

(* A block nobody has. *)
Fresh(p) == p \in Ptrs \ DOMAIN owned /\ \A u \in Threads : calls[u].block # p

(* realloc's block is large enough as it is.                               *)
Suffices(t) == calls[t].size \in DOMAIN calls[t].data

(* The call goes on with the block at p and the contents d.                *)
GoesOn(t, p, d, done) ==
  /\ calls' = [calls EXCEPT ![t] =
       [op |-> @.op, size |-> @.size, block |-> p, data |-> d, done |-> done]]
  /\ UNCHANGED <<owned, status>>

(* The call has taken effect: its result is p with the contents d.         *)
TakesEffect(t, p, d) == GoesOn(t, p, d, TRUE)

-----------------------------------------------------------------------------
(* The block at p is the call's from now on, and no longer t's.            *)
Call(t, op, p, n) ==
  /\ Idle(t)
  /\ p = nullptr \/ (p \in DOMAIN owned /\ owned[p].by = t)
  /\ calls' = [calls EXCEPT ![t] =
       [op |-> op, size |-> n, block |-> p, done |-> FALSE,
        data |-> IF p = nullptr THEN Empty ELSE owned[p].data]]
  /\ owned' = Drop(owned, p)
  /\ UNCHANGED status

(* realloc(nullptr, n) is malloc(n). *)
Invoke(t) ==
  \/ \E n \in 0..MaxSize, op \in {"malloc", "calloc"} : Call(t, op, nullptr, n)
  \/ \E p \in Ptrs \cup {nullptr} : Call(t, "free", p, 0)
  \/ \E p \in Ptrs, n \in 0..MaxSize : Call(t, "realloc", p, n)

malloc(t) ==
  /\ Pending(t, "malloc") /\ calls[t].size # 0
  /\ \E p \in Ptrs :
       Fresh(p) /\ \E d \in Contents(calls[t].size) : TakesEffect(t, p, d)

calloc(t) ==
  /\ Pending(t, "calloc") /\ calls[t].size # 0
  /\ \E p \in Ptrs : Fresh(p) /\ TakesEffect(t, p, [i \in 1..calls[t].size |-> Zero])

(* From here on the address can be given to somebody else. *)
free(t) ==
  /\ Pending(t, "free") /\ calls[t].block # nullptr
  /\ GoesOn(t, nullptr, Empty, FALSE)

(* In place or by malloc, copy and free: "the contents of the area remain  *)
(* unchanged up to the lesser of the new and old sizes".                   *)
realloc(t) ==
  LET c == calls[t]
  IN /\ Pending(t, "realloc") /\ c.size # 0
     /\ \E p \in Ptrs :
          /\ p = c.block \/ Fresh(p)
          /\ \E d \in Contents(c.size) :
               /\ \A i \in DOMAIN d \cap DOMAIN c.data : d[i] = c.data[i]
               /\ TakesEffect(t, p, d)

(* malloc, calloc and a realloc that needs more room may find no memory;   *)
(* free has to free, and realloc to less room to succeed.  realloc that    *)
(* returns nullptr leaves the old block with its owner.                    *)
Return(t) ==
  LET c == calls[t]
  IN /\ status = "running" /\ c.op # "none"
     /\ c.op = "free" => c.block = nullptr
     /\ c.op = "realloc" /\ Suffices(t) => c.done
     /\ owned' = IF c.block = nullptr THEN owned
                 ELSE Put(owned, c.block, [by |-> t, data |-> c.data])
     /\ calls' = [calls EXCEPT ![t] = NoCall]
     /\ UNCHANGED status

-----------------------------------------------------------------------------
(* The owner fills its block. *)
Write(t, p) ==
  /\ Idle(t) /\ owned[p].by = t
  /\ owned' = [owned EXCEPT ![p].data = [i \in DOMAIN @ |-> t]]
  /\ UNCHANGED <<calls, status>>

HandOver(t, u, p) ==
  /\ Idle(t) /\ owned[p].by = t
  /\ owned' = [owned EXCEPT ![p].by = u]
  /\ UNCHANGED <<calls, status>>

(* A call that needs memory the kernel refuses ends the process.           *)
Exit ==
  /\ \E t \in Threads :
       /\ \E op \in {"malloc", "calloc", "realloc"} : Pending(t, op)
       /\ calls[t].size # 0 /\ ~ Suffices(t)
  /\ status' = "exited"
  /\ UNCHANGED <<owned, calls>>

(* A step inside a call that its caller does not see: stuttering, named     *)
(* because TLC tries the disjuncts in their order and most steps are it.   *)
Unseen == UNCHANGED apivars

APINext ==
  \/ Unseen
  \/ \E t \in Threads :
       \/ Invoke(t) \/ malloc(t) \/ calloc(t) \/ free(t) \/ realloc(t) \/ Return(t)
       \/ \E p \in DOMAIN owned : Write(t, p) \/ \E u \in Threads : HandOver(t, u, p)
  \/ Exit

APISpec == APIInit /\ [][APINext]_apivars
=============================================================================
