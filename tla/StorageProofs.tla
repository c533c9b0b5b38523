---------------------------- MODULE StorageProofs ----------------------------
(***************************************************************************)
(* copy_mem and set_mem_zero are exact for every memory and every length:  *)
(* the loop invariant of Storage is inductive, and at the end of the loops *)
(* it is what the callers rely on.                                         *)
(***************************************************************************)
EXTENDS Storage, TLAPS

(* Before the first byte nothing is copied, zeroed or touched.             *)
LEMMA LoopInvariantInit == SInit => LoopInvariant
<1> SUFFICES ASSUME SInit PROVE LoopInvariant
  OBVIOUS
<1> USE StorageAssumption DEF SInit, nullptr
<1>1. STypes
  BY DEF STypes, Addresses, Initial, OTHER_DATA
<1>2. OthersKept(0)
  BY DEF OthersKept, Addresses, Block
<1>3. Zeroed(0)
  BY DEF Zeroed, Block, Addresses
<1> QED
  BY <1>1, <1>2, <1>3 DEF LoopInvariant, STypes

(* Writing one byte of the new block leaves every other byte alone.        *)
LEMMA OneByteFurther ==
  ASSUME LoopInvariant, new_addr # nullptr, i < size, NEW v \in 0..OTHER_DATA,
         bytes' = [bytes EXCEPT ![new_addr + i] = v],
         i' = i + 1, UNCHANGED <<arguments, written>>
  PROVE  /\ bytes' \in [Addresses -> 0..OTHER_DATA]
         /\ bytes'[new_addr + i] = v
         /\ \A k \in 0 .. i - 1 : bytes'[new_addr + k] = bytes[new_addr + k]
         /\ OthersKept(i)'
<1> USE StorageAssumption DEF nullptr, Addresses
<1>1. STypes /\ i \in Nat /\ size \in Nat /\ new_addr \in Nat /\ new_addr + i \in 1..LastAddr
  BY DEF LoopInvariant, STypes
<1>2. bytes \in [Addresses -> 0..OTHER_DATA]
  BY <1>1 DEF STypes
<1>3. \A k \in 0 .. i - 1 : bytes'[new_addr + k] = bytes[new_addr + k]
  BY <1>1, <1>2
<1>4. OthersKept(i)'
  <2> SUFFICES ASSUME NEW a \in Addresses, a \notin Block(new_addr, i + 1)
               PROVE  bytes'[a] = IF a \in written THEN OTHER_DATA ELSE Initial(a)
    BY DEF OthersKept, Block, arguments
  <2>1. a # new_addr + i /\ a \notin Block(new_addr, i)
    BY <1>1 DEF Block
  <2>2. bytes'[a] = bytes[a]
    BY <2>1, <1>1, <1>2
  <2> QED
    BY <2>1, <2>2 DEF LoopInvariant, OthersKept
<1> QED
  BY <1>1, <1>2, <1>3, <1>4

(* The checks at the entry of copy_mem let only safe copies into the loop. *)
LEMMA ChecksStep == LoopInvariant /\ copy_mem_Checks => LoopInvariant'
<1> SUFFICES ASSUME LoopInvariant, copy_mem_Checks PROVE LoopInvariant'
  OBVIOUS
<1> USE StorageAssumption DEF LoopInvariant, copy_mem_Checks, Return, arguments
<1>1. STypes'
  BY DEF STypes, Mine, Block, Addresses
<1>2. OthersKept(i)'
  BY DEF OthersKept, Block, Addresses
<1>3. Copied(0)' /\ i = 0 /\ i' = 0
  BY DEF Copied
<1> QED
  BY <1>1, <1>2, <1>3 DEF Invalid

(* The byte the loop of copy_mem reads next has not been overwritten, and   *)
(* the ones it has written stay.                                           *)
LEMMA CopyStep == LoopInvariant /\ copy_mem_Loop => LoopInvariant'
<1> SUFFICES ASSUME LoopInvariant, copy_mem_Loop PROVE LoopInvariant'
  OBVIOUS
<1> USE StorageAssumption DEF nullptr
<1>1. /\ op = "copy_mem" /\ result = "running" /\ STypes
      /\ old_addr # nullptr /\ new_addr # nullptr /\ ~ Invalid /\ Copied(i) /\ OthersKept(i)
      /\ UNCHANGED <<arguments, written>>
  BY DEF LoopInvariant, copy_mem_Loop
<1>2. i \in Nat /\ size \in Nat /\ old_addr \in Nat /\ new_addr \in Nat /\ i <= size
  BY <1>1 DEF STypes
<1>3. CASE i = size /\ Return("SUCCESS")
  BY <1>1, <1>2, <1>3
     DEF LoopInvariant, Return, STypes, Mine, Block, Copied, OthersKept, Invalid, arguments,
         Addresses
<1>4. CASE i < size /\ copy_byte(old_addr + i, new_addr + i) /\ Next_i
  <2>1. i' = i + 1 /\ result' = result
    BY <1>4 DEF Next_i
  <2>2. old_addr + i \in Addresses /\ new_addr + i \in Addresses
    BY <1>1, <1>2, <1>4 DEF STypes, Addresses
  <2>3. bytes \in [Addresses -> 0..OTHER_DATA]
    BY <1>1 DEF STypes
  <2>4. bytes[old_addr + i] = Initial(old_addr + i)
    <3>1. old_addr + i \notin Block(new_addr, i)
      BY <1>1, <1>2, <1>4 DEF Invalid, Block
    <3>2. old_addr + i \notin written
      BY <1>1, <1>2, <1>4, <2>2 DEF STypes, Mine, Block
    <3> QED
      BY <1>1, <2>2, <3>1, <3>2 DEF OthersKept
  <2>5. bytes' = [bytes EXCEPT ![new_addr + i] = Initial(old_addr + i)]
    <3>1. CASE old_addr = new_addr
      BY <1>2, <1>4, <2>2, <2>3, <2>4, <3>1 DEF copy_byte
    <3>2. CASE old_addr # new_addr
      BY <1>2, <1>4, <2>4, <3>2 DEF copy_byte, set_byte, read_byte
    <3> QED
      BY <3>1, <3>2
  <2>6. Initial(old_addr + i) \in 0..OTHER_DATA
    BY <2>2 DEF Initial, OTHER_DATA, Addresses
  <2>7. /\ bytes' \in [Addresses -> 0..OTHER_DATA]
        /\ bytes'[new_addr + i] = Initial(old_addr + i)
        /\ \A k \in 0 .. i - 1 : bytes'[new_addr + k] = bytes[new_addr + k]
        /\ OthersKept(i)'
    BY <1>1, <1>4, <2>1, <2>5, <2>6, OneByteFurther
  <2>8. Copied(i)'
    <3> SUFFICES ASSUME NEW k \in 0 .. i
                 PROVE  bytes'[new_addr + k] = Initial(old_addr + k)
      BY <1>1, <1>2, <2>1 DEF Copied, arguments
    <3>1. CASE k = i
      BY <2>7, <3>1
    <3>2. CASE k # i
      BY <1>1, <1>2, <2>7, <3>2 DEF Copied
    <3> QED
      BY <3>1, <3>2
  <2>9. STypes'
    BY <1>1, <1>2, <1>4, <2>1, <2>7 DEF STypes, Mine, Block, Addresses, arguments
  <2> QED
    BY <1>1, <2>1, <2>7, <2>8, <2>9 DEF LoopInvariant, Invalid, arguments
<1> QED
  BY <1>3, <1>4 DEF copy_mem_Loop

(* One more byte is zero. *)
LEMMA ZeroStep == LoopInvariant /\ set_mem_zero => LoopInvariant'
<1> SUFFICES ASSUME LoopInvariant, set_mem_zero PROVE LoopInvariant'
  OBVIOUS
<1> USE StorageAssumption DEF nullptr
<1>1. /\ op = "set_mem_zero" /\ STypes /\ new_addr # nullptr
      /\ Zeroed(i) /\ OthersKept(i) /\ UNCHANGED <<arguments, written>>
  BY DEF LoopInvariant, set_mem_zero
<1>2. i \in Nat /\ size \in Nat /\ new_addr \in Nat /\ i <= size
  BY <1>1 DEF STypes
<1>3. CASE i = size /\ Return("SUCCESS")
  BY <1>1, <1>2, <1>3
     DEF LoopInvariant, Return, STypes, Mine, Block, Zeroed, OthersKept, arguments, Addresses
<1>4. CASE i < size /\ set_byte(new_addr + i, ZERO) /\ i' = i + 1 /\ result' = "running"
  <2>1. ZERO \in 0..OTHER_DATA
    BY DEF ZERO, OTHER_DATA
  <2>2. /\ bytes' \in [Addresses -> 0..OTHER_DATA]
        /\ bytes'[new_addr + i] = ZERO
        /\ \A k \in 0 .. i - 1 : bytes'[new_addr + k] = bytes[new_addr + k]
        /\ OthersKept(i)'
    BY <1>1, <1>4, <2>1, OneByteFurther DEF set_byte
  <2>3. Zeroed(i)'
    <3> SUFFICES ASSUME NEW a \in Block(new_addr, i + 1) PROVE bytes'[a] = ZERO
      BY <1>1, <1>4 DEF Zeroed, Block, arguments
    <3>1. CASE a = new_addr + i
      BY <2>2, <3>1
    <3>2. CASE a # new_addr + i
      <4>1. a \in Block(new_addr, i) /\ a - new_addr \in 0 .. i - 1
        BY <1>2, <3>2 DEF Block, Addresses
      <4>2. a = new_addr + (a - new_addr)
        BY <1>2 DEF Block, Addresses
      <4> QED
        BY <1>1, <2>2, <4>1, <4>2 DEF Zeroed
    <3> QED
      BY <3>1, <3>2
  <2>4. STypes'
    BY <1>1, <1>2, <1>4, <2>2 DEF STypes, Mine, Block, Addresses, arguments
  <2> QED
    BY <1>1, <1>4, <2>2, <2>3, <2>4 DEF LoopInvariant, arguments
<1> QED
  BY <1>3, <1>4 DEF set_mem_zero

(* What the neighbours write is in neither block. *)
LEMMA OtherStep == LoopInvariant /\ OtherThread => LoopInvariant'
<1> SUFFICES ASSUME LoopInvariant, OtherThread PROVE LoopInvariant'
  OBVIOUS
<1> USE StorageAssumption DEF nullptr
<1>1. PICK a \in Addresses \ Mine :
        bytes' = [bytes EXCEPT ![a] = OTHER_DATA] /\ written' = written \cup {a}
  BY DEF OtherThread, set_byte
<1>2. STypes /\ OthersKept(i) /\ UNCHANGED <<arguments, i, result>>
  BY DEF LoopInvariant, OtherThread
<1>3. i \in Nat /\ size \in Nat /\ old_addr \in Nat /\ new_addr \in Nat /\ i <= size
  BY <1>2 DEF STypes
<1>4. bytes \in [Addresses -> 0..OTHER_DATA] /\ OTHER_DATA \in 0..OTHER_DATA
  BY <1>2 DEF STypes, OTHER_DATA
<1>5. STypes'
  BY <1>1, <1>2, <1>4 DEF STypes, Mine, Block, arguments
<1>6. OthersKept(i)'
  BY <1>1, <1>2, <1>4 DEF OthersKept, Block, arguments
<1>7. new_addr # nullptr => \A b \in Block(new_addr, size) : bytes'[b] = bytes[b]
  BY <1>1, <1>4 DEF Mine, Block
<1>8. op = "set_mem_zero" => Zeroed(i)'
  <2> SUFFICES ASSUME op = "set_mem_zero", NEW b \in Block(new_addr, i) PROVE bytes'[b] = ZERO
    BY <1>2 DEF Zeroed, Block, arguments
  <2>1. b \in Block(new_addr, size) /\ new_addr # nullptr /\ Zeroed(i)
    BY <1>3 DEF Block, LoopInvariant, Addresses
  <2> QED
    BY <1>7, <2>1 DEF Zeroed
<1>9. op = "copy_mem" /\ result \in {"running", "SUCCESS"} => Copied(i)'
  <2> SUFFICES ASSUME op = "copy_mem", result \in {"running", "SUCCESS"}, NEW k \in 0 .. i - 1
               PROVE  bytes'[new_addr + k] = Initial(old_addr + k)
    BY <1>2 DEF Copied, arguments
  <2>1. new_addr # nullptr /\ Copied(i)
    BY DEF LoopInvariant
  <2>2. new_addr + k \in Block(new_addr, size)
    BY <1>2, <1>3, <2>1 DEF Block, Addresses, STypes
  <2> QED
    BY <1>3, <1>7, <2>1, <2>2 DEF Copied
<1> QED
  BY <1>2, <1>5, <1>6, <1>8, <1>9 DEF LoopInvariant, Invalid, arguments

(* At every moment the loops have done exactly the bytes they count.       *)
THEOREM LoopInvariantHolds == SSpec => []LoopInvariant
<1>1. LoopInvariant /\ [SNext]_svars => LoopInvariant'
  <2>1. LoopInvariant /\ UNCHANGED svars => LoopInvariant'
    BY DEF svars, LoopInvariant, STypes, Mine, Block, Copied, Zeroed, OthersKept, Invalid,
           arguments
  <2> QED
    BY <2>1, ChecksStep, CopyStep, ZeroStep, OtherStep DEF SNext
<1> QED
  BY LoopInvariantInit, <1>1, PTL DEF SSpec

(* copy_mem copies the block as it was, whatever the overlap it accepts.   *)
THEOREM CopyIsExact == SSpec => []CopyExact
<1>1. LoopInvariant => CopyExact
  BY DEF LoopInvariant, CopyExact
<1> QED
  BY <1>1, LoopInvariantHolds, PTL

(* set_mem_zero zeroes its bytes and no other one. *)
THEOREM ZeroIsExact == SSpec => []ZeroExact
<1>1. LoopInvariant => ZeroExact
  BY DEF LoopInvariant, ZeroExact
<1> QED
  BY <1>1, LoopInvariantHolds, PTL

(* copy_mem refuses only what cannot be copied upwards, and then it has     *)
(* changed nothing.                                                        *)
THEOREM RefusalIsRight == SSpec => []RefusesOnlyTheImpossible
<1> DEFINE Refused == result = "ERROR" => old_addr = nullptr \/ new_addr = nullptr \/ Invalid
<1>1. SInit => Refused
  BY DEF SInit
<1>2. Refused /\ [SNext]_svars => Refused'
  BY DEF SNext, svars, arguments, copy_mem_Checks, copy_mem_Loop, set_mem_zero, OtherThread,
         Return, Next_i, Invalid
<1>3. LoopInvariant /\ Refused => RefusesOnlyTheImpossible
  <2> SUFFICES ASSUME LoopInvariant, Refused, result = "ERROR"
               PROVE  RefusesOnlyTheImpossible
    BY DEF RefusesOnlyTheImpossible
  <2>1. OthersKept(0)
    BY DEF LoopInvariant
  <2>2. CASE old_addr = nullptr \/ new_addr = nullptr
    BY <2>1, <2>2 DEF RefusesOnlyTheImpossible
  <2>3. CASE Invalid
    <3>1. /\ size \in Nat /\ old_addr \in Nat /\ new_addr \in Nat
      BY StorageAssumption DEF LoopInvariant, STypes
    <3>2. /\ new_addr - old_addr \in 0 .. size - 1 /\ 0 \in 0 .. (new_addr - old_addr) - 1
          /\ old_addr + (new_addr - old_addr) = new_addr + 0
      BY <2>3, <3>1 DEF Invalid
    <3> QED
      BY <2>1, <3>2 DEF RefusesOnlyTheImpossible
  <2> QED
    BY <2>2, <2>3
<1> QED
  BY <1>1, <1>2, <1>3, LoopInvariantHolds, PTL DEF SSpec
=============================================================================
