------------------------------- MODULE Storage -------------------------------
(***************************************************************************)
(* copy_mem and set_mem_zero of storage.c, byte by byte, while the owners  *)
(* of other memory write theirs: neither runs with storage_lock held.      *)
(*                                                                         *)
(* Every byte starts with a value of its own, so that a byte in the wrong  *)
(* place, a lost or a repeated one shows whatever the data are.            *)
(***************************************************************************)
EXTENDS Integers

CONSTANTS
  LastAddr,   (* bound: addresses are 1..LastAddr, and nullptr is 0        *)
  MaxLength   (* bound: the most bytes one call is asked for               *)

ASSUME StorageAssumption ==
  /\ LastAddr \in Nat
  /\ MaxLength \in 0..LastAddr

VARIABLES
  bytes,      (* the memory                                                *)
  op,         (* "copy_mem" or "set_mem_zero"                              *)
  old_addr, new_addr, size,   (* its arguments; set_mem_zero has no old    *)
  i,          (* its loop variable                                         *)
  result,     (* "called", "running", or what it returned                  *)
  written     (* the bytes the neighbours have written meanwhile           *)

arguments == <<op, old_addr, new_addr, size>>
svars     == <<bytes, op, old_addr, new_addr, size, i, result, written>>

nullptr == 0
Addresses == 1..LastAddr

(* The value the byte at a starts with, zero, and what the neighbours write. *)
Initial(a) == a
ZERO == 0
OTHER_DATA == LastAddr + 1

(* The n bytes from a on. *)
Block(a, n) == {x \in Addresses : a <= x /\ x < a + n}

(* Both blocks lie in the caller's memory.  A null argument can be given.  *)
SInit ==
  /\ bytes = [a \in Addresses |-> Initial(a)]
  /\ op \in {"copy_mem", "set_mem_zero"}
  /\ size \in 0..MaxLength
  /\ old_addr \in {a \in 0..LastAddr : a # nullptr => a + size <= LastAddr + 1}
  /\ new_addr \in {a \in 0..LastAddr : a # nullptr => a + size <= LastAddr + 1}
  /\ op = "set_mem_zero" => old_addr = nullptr /\ new_addr # nullptr
  /\ i = 0
  /\ result = "called"
  /\ written = {}

set_byte(a, v) == bytes' = [bytes EXCEPT ![a] = v]
read_byte(a) == bytes[a]

(* Nothing has to be done when both addresses are the same. *)
copy_byte(a, b) ==
  IF a = b THEN UNCHANGED bytes ELSE set_byte(b, read_byte(a))

Return(r) == result' = r /\ UNCHANGED <<bytes, i>>

Invalid_OffByOne == new_addr > old_addr + 1 /\ old_addr + size > new_addr

Invalid_Touching == new_addr > old_addr /\ old_addr + size >= new_addr

(* new_addr is in the range of the data to be copied. *)
Invalid == new_addr > old_addr /\ old_addr + size > new_addr

Next_i == i' = i + 1 /\ UNCHANGED result

copy_mem_Checks ==
  /\ op = "copy_mem" /\ result = "called"
  /\ \/ (old_addr = nullptr \/ new_addr = nullptr \/ Invalid) /\ Return("ERROR")
     \/ old_addr # nullptr /\ new_addr # nullptr /\ ~ Invalid /\ Return("running")
  /\ UNCHANGED <<arguments, written>>

copy_mem_Loop_ToTheEnd ==
  /\ op = "copy_mem" /\ result = "running"
  /\ \/ i <= size /\ copy_byte(old_addr + i, new_addr + i) /\ Next_i
     \/ i = size + 1 /\ Return("SUCCESS")
  /\ UNCHANGED <<arguments, written>>

copy_mem_Loop ==
  /\ op = "copy_mem" /\ result = "running"
  /\ \/ i < size /\ copy_byte(old_addr + i, new_addr + i) /\ Next_i
     \/ i = size /\ Return("SUCCESS")
  /\ UNCHANGED <<arguments, written>>

set_mem_zero_SkipsFirst ==
  /\ op = "set_mem_zero" /\ result \in {"called", "running"}
  /\ \/ /\ i + 1 < size
        /\ set_byte(new_addr + i + 1, ZERO)
        /\ i' = i + 1 /\ result' = "running"
     \/ i + 1 >= size /\ Return("SUCCESS")
  /\ UNCHANGED <<arguments, written>>

set_mem_zero_Endless ==
  /\ op = "set_mem_zero" /\ result \in {"called", "running"}
  /\ \/ /\ i < size
        /\ set_byte(new_addr + i, ZERO)
        /\ result' = "running" /\ UNCHANGED i
     \/ i = size /\ Return("SUCCESS")
  /\ UNCHANGED <<arguments, written>>

(* set_mem_zero checks nothing. *)
set_mem_zero ==
  /\ op = "set_mem_zero" /\ result \in {"called", "running"}
  /\ \/ /\ i < size
        /\ set_byte(new_addr + i, ZERO)
        /\ i' = i + 1 /\ result' = "running"
     \/ i = size /\ Return("SUCCESS")
  /\ UNCHANGED <<arguments, written>>

(* Another thread writes into memory of its own: no byte of the two blocks. *)
Mine == (IF old_addr = nullptr THEN {} ELSE Block(old_addr, size))
          \cup (IF new_addr = nullptr THEN {} ELSE Block(new_addr, size))

OtherThread ==
  /\ \E a \in Addresses \ Mine :
       set_byte(a, OTHER_DATA) /\ written' = written \cup {a}
  /\ UNCHANGED <<arguments, i, result>>

SNext == copy_mem_Checks \/ copy_mem_Loop \/ set_mem_zero \/ OtherThread

(* The thread that copies or zeroes keeps running; the others may stop.    *)
SSpec ==
  /\ SInit /\ [][SNext]_svars
  /\ WF_svars(copy_mem_Checks) /\ WF_svars(copy_mem_Loop) /\ WF_svars(set_mem_zero)

-----------------------------------------------------------------------------
(* Outside the n bytes from new_addr on every byte is what it was, or what  *)
(* its owner has written meanwhile.                                        *)
OthersKept(n) ==
  \A a \in Addresses \ Block(new_addr, n) :
    bytes[a] = IF a \in written THEN OTHER_DATA ELSE Initial(a)

(* The first n bytes from new_addr on are the first n bytes that old_addr   *)
(* pointed to when copy_mem was called.                                    *)
Copied(n) == \A k \in 0 .. n - 1 : bytes[new_addr + k] = Initial(old_addr + k)

Zeroed(n) == \A a \in Block(new_addr, n) : bytes[a] = ZERO

STypes ==
  /\ bytes \in [Addresses -> 0..OTHER_DATA]
  /\ op \in {"copy_mem", "set_mem_zero"}
  /\ size \in 0..MaxLength
  /\ old_addr \in 0..LastAddr /\ new_addr \in 0..LastAddr
  /\ old_addr # nullptr => old_addr + size <= LastAddr + 1
  /\ new_addr # nullptr => new_addr + size <= LastAddr + 1
  /\ i \in 0..size
  /\ result \in {"called", "running", "SUCCESS", "ERROR"}
  /\ written \subseteq Addresses \ Mine

(* Where the loops are: i bytes are done and no other one is touched. The   *)
(* copying goes on only when no byte still to be read has been overwritten. *)
LoopInvariant ==
  /\ STypes
  /\ result \in {"called", "ERROR"} => i = 0
  /\ result = "SUCCESS" => i = size
  /\ op = "set_mem_zero" => new_addr # nullptr /\ result # "ERROR" /\ Zeroed(i)
  /\ op = "copy_mem" /\ result \in {"running", "SUCCESS"} =>
       old_addr # nullptr /\ new_addr # nullptr /\ ~ Invalid /\ Copied(i)
  /\ OthersKept(i)

(* copy_mem that returns SUCCESS has copied the block as it was when the    *)
(* call began, also when the new block overlaps the old one from below,    *)
(* and has changed no other byte.                                          *)
CopyExact ==
  op = "copy_mem" /\ result = "SUCCESS" => Copied(size) /\ OthersKept(size)

(* set_mem_zero zeroes its bytes, all of them and no other one.            *)
ZeroExact ==
  op = "set_mem_zero" /\ result = "SUCCESS" => Zeroed(size) /\ OthersKept(size)

(* copy_mem refuses only what its loop would get wrong (a byte it would     *)
(* overwrite before reading it) or has no address, and has changed nothing *)
(* then: realloc's old block stays valid.                                  *)
RefusesOnlyTheImpossible ==
  result = "ERROR" =>
    /\ old_addr = nullptr \/ new_addr = nullptr
         \/ \E k \in 0 .. size - 1 : \E j \in 0 .. k - 1 : old_addr + k = new_addr + j
    /\ OthersKept(0)

(* Both return, whatever the other threads do. *)
Returns == <>(result \in {"SUCCESS", "ERROR"})
=============================================================================
