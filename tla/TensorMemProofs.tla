-------------------------- MODULE TensorMemProofs --------------------------
(***************************************************************************)
(* Proofs about the temporary area of the tensor pool, for every pool      *)
(* size, every number of objects, every set of request sizes and any order *)
(* in which tensors are freed.                                             *)
(***************************************************************************)
EXTENDS TensorMem, FiniteSetTheorems, TLAPS

-----------------------------------------------------------------------------
(* Arithmetic of align_up. *)

(* align_up returns a value of the word; short of the last seven values it *)
(* returns the next multiple of eight.                                     *)
LEMMA AlignUpType ==
  ASSUME NEW v \in Nat
  PROVE  AlignUp(v) \in 0..(Word - 1)
<1> DEFINE r == (v + (Align - 1)) % Word
<1>1. Word \in Nat /\ Word > 8
  BY WordAssumption DEF Align
<1>2. r \in 0..(Word - 1)
  BY <1>1 DEF Align
<1>3. r - (r % Align) \in 0..(Word - 1)
  BY <1>1, <1>2 DEF Align
<1> QED
  BY <1>3 DEF AlignUp

LEMMA ModSmall ==
  ASSUME NEW a \in Nat, NEW b \in Nat, a < b
  PROVE  a % b = a
  OBVIOUS

LEMMA AlignUpExact ==
  ASSUME NEW v \in Nat, v + Align <= Word
  PROVE  /\ v <= AlignUp(v)
         /\ AlignUp(v) <= v + (Align - 1)
<1>1. Word \in Nat
  BY WordAssumption
<1>2. (v + (Align - 1)) % Word = v + (Align - 1)
  BY <1>1, ModSmall DEF Align
<1> QED
  BY <1>2 DEF AlignUp, Align

LEMMA SizesOfPool ==
  /\ PersistSize \in Nat
  /\ TempSize \in Nat
<1>1. Word \in Nat /\ Word > 8 /\ PoolBytes \in Nat
  BY WordAssumption, PoolAssumption DEF Align
<1>2. (PoolBytes * 3) % Word \in Nat
  BY <1>1
<1>3. ((PoolBytes * 3) % Word) \div 5 \in Nat
  BY <1>2
<1>4. PersistSize \in Nat
  BY <1>3, AlignUpType, <1>1 DEF PersistSize
<1> QED
  BY <1>4, PoolAssumption DEF TempSize
-----------------------------------------------------------------------------
(* Type correctness. *)

(* The stack of tensors never leaves the temporary area, also when the     *)
(* arithmetic of a request wraps around the word.                          *)
THEOREM TypeCorrect == TensorSpec => []TensorTypes
<1>1. TensorInit => TensorTypes
  <2> SUFFICES ASSUME TensorInit PROVE TensorTypes
    OBVIOUS
  <2>1. poolInited \in BOOLEAN
    BY Zenon DEF TensorInit
  <2> QED
    BY <2>1, SizesOfPool, WordAssumption DEF TensorInit, TensorTypes, Cleared, Align
<1>2. TensorTypes /\ [TensorNext]_tensorVars => TensorTypes'
  <2> SUFFICES ASSUME TensorTypes, [TensorNext]_tensorVars
               PROVE  TensorTypes'
    OBVIOUS
  <2> USE SizesOfPool, WordAssumption DEF TensorTypes, Align
  <2>1. CASE iTensorPoolInit
    BY <2>1 DEF iTensorPoolInit, Cleared
  <2>2. CASE vTensorPoolDeinit
    <3>1. poolInited' \in BOOLEAN
      BY <2>2, Zenon DEF vTensorPoolDeinit
    <3> QED
      BY <2>2, <3>1 DEF vTensorPoolDeinit
  <2>3. ASSUME NEW s \in TensorSizes, xAllocTensor(s)
        PROVE  TensorTypes'
    <3>1. SizeOf(s) \in 1..(Word - 1)
      BY SizesAssumption DEF SizeOf
    <3>2. AlignUp(SizeOf(s)) \in Nat
      BY <3>1, AlignUpType
    <3>3. top' \in 0..TempSize
      <4>1. (top + AlignUp(SizeOf(s))) % Word \in Nat
        BY <3>2
      <4> QED
        BY <4>1, <2>3 DEF xAllocTensor, Capacity
    <3> QED
      BY <2>3, <3>1, <3>3 DEF xAllocTensor, FirstFree
  <2>4. ASSUME NEW h \in Handles, vFreeTensor(h)
        PROVE  TensorTypes'
    BY <2>4 DEF vFreeTensor
  <2>5. CASE UNCHANGED tensorVars
    BY <2>5 DEF tensorVars
  <2> QED
    BY <2>1, <2>2, <2>3, <2>4, <2>5 DEF TensorNext
<1> QED
  BY <1>1, <1>2, PTL DEF TensorSpec

-----------------------------------------------------------------------------
(* Disjointness.  A tensor that lies below the top may be freed in any     *)
(* order: the top only falls to the start of the tensor that ended at it,  *)
(* and every other live tensor is apart from that one, hence below it.     *)

Fits ==
  \A h \in live : size[h] >= 1 /\ TempSize + size[h] + Align <= Word

Stacked ==
  poolInited => \A h \in live : offset[h] + AlignUp(size[h]) <= top

Apart ==
  poolInited => \A h, k \in live :
    h # k => \/ offset[h] + AlignUp(size[h]) <= offset[k]
             \/ offset[k] + AlignUp(size[k]) <= offset[h]

IInv == TensorTypes /\ Fits /\ Stacked /\ Apart

(* The end of a live tensor is not wrapped. *)
LEMMA EndExact ==
  ASSUME TensorTypes, Fits, NEW h \in live
  PROVE  /\ EndOf(h) = offset[h] + AlignUp(size[h])
         /\ AlignUp(size[h]) \in Nat
         /\ size[h] <= AlignUp(size[h])
         /\ size[h] \in Nat \ {0}
         /\ offset[h] \in 0..TempSize
<1>1. /\ size[h] \in Nat \ {0}
      /\ offset[h] \in 0..TempSize
      /\ TempSize + size[h] + Align <= Word
  BY DEF TensorTypes, Fits
<1>2. size[h] + Align <= Word
  BY <1>1, SizesOfPool, WordAssumption DEF Align
<1>3. /\ size[h] <= AlignUp(size[h])
      /\ AlignUp(size[h]) <= size[h] + (Align - 1)
  BY <1>1, <1>2, AlignUpExact
<1>4. AlignUp(size[h]) \in Nat
  BY <1>1, AlignUpType, WordAssumption
<1>5. offset[h] + AlignUp(size[h]) < Word
  BY <1>1, <1>3, <1>4, SizesOfPool, WordAssumption DEF Align
<1>6. EndOf(h) = offset[h] + AlignUp(size[h])
  BY <1>1, <1>4, <1>5, WordAssumption, SizesOfPool, ModSmall DEF EndOf
<1> QED
  BY <1>1, <1>3, <1>4, <1>6
(* A step of the pool keeps the inductive invariant. *)
LEMMA IInvStep ==
  ASSUME NoWrap, IInv, TensorTypes', [TensorNext]_tensorVars
  PROVE  IInv'
<1> USE SizesOfPool, WordAssumption
<1>1. CASE iTensorPoolInit
  BY <1>1 DEF iTensorPoolInit, IInv, Fits, Stacked, Apart
<1>2. CASE vTensorPoolDeinit
  BY <1>2 DEF vTensorPoolDeinit, IInv, Fits, Stacked, Apart
<1>3. ASSUME NEW s \in TensorSizes, xAllocTensor(s)
      PROVE  IInv'
  <2>1. PICK h \in Handles :
          /\ h \notin live
          /\ live' = live \cup {h}
          /\ size' = [size EXCEPT ![h] = SizeOf(s)]
          /\ offset' = [offset EXCEPT ![h] = top]
    BY <1>3 DEF xAllocTensor, FirstFree
  <2>2. /\ poolInited' = poolInited
        /\ top' = (top + AlignUp(SizeOf(s))) % Word
        /\ top' <= Capacity
    BY <1>3 DEF xAllocTensor
  <2>3. SizeOf(s) \in Nat \ {0} /\ TempSize + SizeOf(s) + Align <= Word
    BY SizesAssumption DEF SizeOf, NoWrap
  <2>4. /\ AlignUp(SizeOf(s)) \in Nat
        /\ AlignUp(SizeOf(s)) <= SizeOf(s) + (Align - 1)
    BY <2>3, AlignUpType, AlignUpExact DEF Align
  <2>5. top \in 0..TempSize
    BY DEF IInv, TensorTypes
  <2>6. top' = top + AlignUp(SizeOf(s))
    BY <2>2, <2>3, <2>4, <2>5, ModSmall DEF Align
  <2>7. /\ size'[h] = SizeOf(s)
        /\ offset'[h] = top
        /\ \A k \in live : size'[k] = size[k] /\ offset'[k] = offset[k]
    BY <2>1 DEF IInv, TensorTypes
  <2>8. Fits'
    BY <2>1, <2>3, <2>7 DEF IInv, Fits, Align
  <2>9. \A k \in live : /\ offset[k] \in Nat
                        /\ AlignUp(size[k]) \in Nat
    BY EndExact DEF IInv
  <2>10. Stacked'
    BY <2>1, <2>2, <2>4, <2>5, <2>6, <2>7, <2>9 DEF IInv, Stacked
  <2>11. Apart'
    BY <2>1, <2>2, <2>7 DEF IInv, Stacked, Apart
  <2> QED
    BY <2>8, <2>10, <2>11 DEF IInv
<1>4. ASSUME NEW h \in Handles, vFreeTensor(h)
      PROVE  IInv'
  <2>1. /\ h \in live
        /\ live' = live \ {h}
        /\ poolInited' = poolInited
        /\ size' = size
        /\ top' = IF EndOf(h) = top THEN offset[h] ELSE top
    BY <1>4 DEF vFreeTensor
  <2>2. \A k \in live' : offset'[k] = offset[k]
    BY <1>4 DEF vFreeTensor, IInv, TensorTypes
  <2>3. Fits'
    BY <2>1 DEF IInv, Fits
  <2>4. Apart'
    BY <2>1, <2>2 DEF IInv, Apart
  <2>5. Stacked'
    <3> SUFFICES ASSUME poolInited, NEW k \in live'
                 PROVE  offset[k] + AlignUp(size[k]) <= top'
      BY <2>1, <2>2 DEF Stacked
    <3>1. k \in live /\ k # h
      BY <2>1
    <3>2. offset[k] + AlignUp(size[k]) <= top
      BY <3>1 DEF IInv, Stacked
    <3>3. \/ offset[k] + AlignUp(size[k]) <= offset[h]
          \/ offset[h] + AlignUp(size[h]) <= offset[k]
      BY <3>1, <2>1 DEF IInv, Apart
    <3>4. /\ EndOf(h) = offset[h] + AlignUp(size[h])
          /\ offset[h] \in Nat /\ AlignUp(size[h]) \in Nat
      BY <2>1, EndExact DEF IInv
    <3>5. /\ size[k] <= AlignUp(size[k]) /\ size[k] \in Nat \ {0}
          /\ offset[k] \in Nat /\ AlignUp(size[k]) \in Nat
      BY <3>1, EndExact DEF IInv
    <3>6. top \in Nat
      BY DEF IInv, TensorTypes
    <3> QED
      BY <2>1, <3>2, <3>3, <3>4, <3>5, <3>6
  <2> QED
    BY <2>3, <2>4, <2>5 DEF IInv
<1>5. CASE UNCHANGED tensorVars
  BY <1>5 DEF tensorVars, IInv, Fits, Stacked, Apart
<1> QED
  BY <1>1, <1>2, <1>3, <1>4, <1>5 DEF TensorNext

(* What the invariant says of the blocks. *)
LEMMA IInvImplies ==
  ASSUME IInv
  PROVE  LiveDisjoint /\ LiveBelowTop
<1>1. LiveDisjoint
  <2> SUFFICES ASSUME poolInited, NEW h \in live, NEW k \in live, h # k
               PROVE  Block(h) \cap Block(k) = {}
    BY DEF LiveDisjoint
  <2>1. /\ EndOf(h) = offset[h] + AlignUp(size[h])
        /\ offset[h] \in Nat /\ AlignUp(size[h]) \in Nat
    BY EndExact, SizesOfPool DEF IInv
  <2>2. /\ EndOf(k) = offset[k] + AlignUp(size[k])
        /\ offset[k] \in Nat /\ AlignUp(size[k]) \in Nat
    BY EndExact, SizesOfPool DEF IInv
  <2>3. EndOf(h) <= offset[k] \/ EndOf(k) <= offset[h]
    BY <2>1, <2>2 DEF IInv, Apart
  <2> QED
    BY <2>1, <2>2, <2>3 DEF Block
<1>2. LiveBelowTop
  <2> SUFFICES ASSUME poolInited, NEW h \in live
               PROVE  offset[h] + size[h] <= top
    BY DEF LiveBelowTop
  <2>1. /\ size[h] <= AlignUp(size[h]) /\ size[h] \in Nat
        /\ offset[h] \in Nat /\ AlignUp(size[h]) \in Nat
    BY EndExact, SizesOfPool DEF IInv
  <2> QED
    BY <2>1 DEF IInv, Stacked, TensorTypes
<1> QED
  BY <1>1, <1>2

(* No two tensors in use ever share a byte, and each has all its bytes     *)
(* inside the area, for any pool, any sizes that stay clear of the end of  *)
(* the word, and any order of frees, resets and shutdowns.                 *)
THEOREM Disjointness ==
  NoWrap => (TensorSpec => [](LiveDisjoint /\ LiveBelowTop))
<1> SUFFICES ASSUME NoWrap
             PROVE  TensorSpec => [](LiveDisjoint /\ LiveBelowTop)
  OBVIOUS
<1>1. TensorInit /\ TensorTypes => IInv
  BY DEF TensorInit, IInv, Fits, Stacked, Apart
<1>2. IInv /\ TensorTypes' /\ [TensorNext]_tensorVars => IInv'
  BY IInvStep
<1>3. IInv => LiveDisjoint /\ LiveBelowTop
  BY IInvImplies
<1> QED
  BY <1>1, <1>2, <1>3, TypeCorrect, PTL DEF TensorSpec

(* A tensor in use has all its bytes below the top of the stack, for any   *)
(* pool and any sizes that stay clear of the end of the word.              *)
THEOREM RoomBelowTop == NoWrap => (TensorSpec => []LiveBelowTop)
BY Disjointness, PTL

-----------------------------------------------------------------------------
(* Fragmentation.  As long as only the most recent tensor is ever freed,   *)
(* the last byte below the top is one of its bytes, so the top falls to    *)
(* its start and leaves nothing uncovered.                                 *)

LEMMA BlockIs ==
  ASSUME IInv, NEW h \in live
  PROVE  /\ offset[h] \in Nat /\ AlignUp(size[h]) \in Nat /\ AlignUp(size[h]) > 0
         /\ EndOf(h) = offset[h] + AlignUp(size[h])
         /\ Block(h) = offset[h]..(offset[h] + AlignUp(size[h]) - 1)
         /\ poolInited => EndOf(h) <= top
<1>1. /\ offset[h] \in Nat /\ AlignUp(size[h]) \in Nat
      /\ size[h] \in Nat \ {0} /\ size[h] <= AlignUp(size[h])
      /\ EndOf(h) = offset[h] + AlignUp(size[h])
  BY EndExact, SizesOfPool DEF IInv
<1> QED
  BY <1>1 DEF Block, IInv, Stacked

LEMMA TopmostEndsAtTop ==
  ASSUME IInv, ZeroFragmentation, poolInited, lifo, NEW h \in live, Topmost(h)
  PROVE  EndOf(h) = top
<1>1. top \in Nat
  BY SizesOfPool DEF IInv, TensorTypes
<1>2. SUFFICES ASSUME EndOf(h) # top PROVE FALSE
  OBVIOUS
<1>3. EndOf(h) <= top - 1 /\ top - 1 \in 0..(top - 1)
  BY <1>1, <1>2, BlockIs
<1>4. PICK k \in live : top - 1 \in Block(k)
  BY <1>3 DEF ZeroFragmentation
<1>5. offset[k] <= top - 1 /\ top - 1 < EndOf(k)
  BY <1>1, <1>4, BlockIs
<1>6. h # k
  BY <1>1, <1>3, <1>5, BlockIs
<1>7. EndOf(h) <= offset[k] \/ EndOf(k) <= offset[h]
  BY <1>6, BlockIs DEF IInv, Apart
<1>8. offset[k] <= offset[h]
  BY DEF Topmost
<1> QED
  BY <1>1, <1>3, <1>5, <1>7, <1>8, BlockIs

LEMMA FragmentationStep ==
  ASSUME NoWrap, IInv, IInv', ZeroFragmentation, [TensorNext]_tensorVars
  PROVE  ZeroFragmentation'
<1>1. CASE iTensorPoolInit
  BY <1>1 DEF iTensorPoolInit, ZeroFragmentation
<1>2. CASE vTensorPoolDeinit
  BY <1>2 DEF vTensorPoolDeinit, ZeroFragmentation
<1>3. ASSUME NEW s \in TensorSizes, xAllocTensor(s)
      PROVE  ZeroFragmentation'
  <2>0. SUFFICES ASSUME poolInited', lifo', NEW b, b \in 0..(top' - 1)
                 PROVE  \E k \in live' : b \in Block(k)'
    BY DEF ZeroFragmentation
  <2>1. PICK h \in Handles :
          /\ h \notin live
          /\ live' = live \cup {h}
          /\ size' = [size EXCEPT ![h] = SizeOf(s)]
          /\ offset' = [offset EXCEPT ![h] = top]
    BY <1>3 DEF xAllocTensor, FirstFree
  <2>2. /\ offset'[h] = top /\ size'[h] = SizeOf(s)
        /\ \A k \in live : size'[k] = size[k] /\ offset'[k] = offset[k]
    BY <2>1 DEF IInv, TensorTypes
  <2>3. poolInited /\ lifo /\ top' = EndOf(h)'
    BY <1>3, <2>0, <2>2 DEF xAllocTensor, EndOf
  <2>4. Block(h)' = top..(top' - 1)
    BY <2>2, <2>3 DEF Block
  <2>5. top \in Nat /\ top' \in Nat
    BY SizesOfPool DEF IInv, TensorTypes
  <2>6. CASE b >= top
    <3>1. b \in top..(top' - 1)
      <4>1. PICK t : t = top'
        OBVIOUS
      <4>2. t \in Nat /\ b \in 0..(t - 1)
        BY <2>0, <2>5, <4>1, Zenon
      <4>3. b \in top..(t - 1)
        BY <2>5, <2>6, <4>2
      <4> QED
        BY <4>1, <4>3, Zenon
    <3>2. h \in live'
      BY <2>1
    <3>3. b \in Block(h)'
      BY <2>4, <3>1, Zenon
    <3> QED
      BY <3>2, <3>3, Zenon
  <2>7. CASE b < top
    <3>1. b \in 0..(top - 1)
      BY <2>0, <2>5, <2>7
    <3>2. PICK k \in live : b \in Block(k)
      BY <2>3, <3>1 DEF ZeroFragmentation
    <3>3. Block(k)' = Block(k)
      BY <2>2 DEF Block, EndOf
    <3> QED
      BY <2>1, <3>2, <3>3
  <2> QED
    BY <2>0, <2>5, <2>6, <2>7
<1>4. ASSUME NEW h \in Handles, vFreeTensor(h)
      PROVE  ZeroFragmentation'
  <2> SUFFICES ASSUME poolInited', lifo', NEW b \in 0..(top' - 1)
               PROVE  \E k \in live' : b \in Block(k)'
    BY DEF ZeroFragmentation
  <2>1. /\ h \in live /\ live' = live \ {h} /\ size' = size
        /\ poolInited /\ lifo /\ Topmost(h)
        /\ top' = IF EndOf(h) = top THEN offset[h] ELSE top
    BY <1>4 DEF vFreeTensor
  <2>2. \A k \in live' : offset'[k] = offset[k]
    BY <1>4 DEF vFreeTensor, IInv, TensorTypes
  <2>3. EndOf(h) = top /\ top' = offset[h]
    BY <2>1, TopmostEndsAtTop
  <2>4. top \in Nat /\ offset[h] \in Nat /\ offset[h] <= top
    BY <2>1, <2>3, SizesOfPool, BlockIs DEF IInv, TensorTypes
  <2>5. b \in 0..(top - 1) /\ b < offset[h]
    BY <2>3, <2>4
  <2>6. PICK k \in live : b \in Block(k)
    BY <2>1, <2>5 DEF ZeroFragmentation
  <2>7. k # h
    BY <2>4, <2>5, <2>6, BlockIs
  <2>8. Block(k)' = Block(k)
    BY <2>1, <2>2, <2>7 DEF Block, EndOf
  <2> QED
    BY <2>1, <2>6, <2>7, <2>8
<1>5. CASE UNCHANGED tensorVars
  BY <1>5 DEF tensorVars, ZeroFragmentation, Block, EndOf
<1> QED
  BY <1>1, <1>2, <1>3, <1>4, <1>5 DEF TensorNext

(* A client that frees in the opposite order of its allocations loses no   *)
(* byte of the area, for any pool and any sizes that stay clear of the end *)
(* of the word.                                                            *)
THEOREM NothingLost == NoWrap => (TensorSpec => []ZeroFragmentation)
<1> SUFFICES ASSUME NoWrap
             PROVE  TensorSpec => []ZeroFragmentation
  OBVIOUS
<1>1. TensorInit /\ TensorTypes => IInv /\ ZeroFragmentation
  BY DEF TensorInit, IInv, Fits, Stacked, Apart, ZeroFragmentation
<1>2. IInv /\ ZeroFragmentation /\ TensorTypes' /\ [TensorNext]_tensorVars => IInv' /\ ZeroFragmentation'
  BY IInvStep, FragmentationStep
<1> QED
  BY <1>1, <1>2, TypeCorrect, PTL DEF TensorSpec

-----------------------------------------------------------------------------
(* The count of tensors in use. *)

LEMMA LiveFinite ==
  ASSUME TensorTypes
  PROVE  IsFiniteSet(live)
<1>1. IsFiniteSet(Handles)
  BY FS_Interval, TensorTableAssumption DEF Handles
<1> QED
  BY <1>1, FS_Subset DEF TensorTypes

(* active_count, which the statistics report and nothing recomputes, is    *)
(* the number of live tensors after any history, wrapped requests          *)
(* included.                                                               *)
THEOREM CountCorrect == TensorSpec => []CountIsLive
<1>1. TensorInit => CountIsLive
  BY DEF TensorInit, CountIsLive
<1>2. TensorTypes /\ CountIsLive /\ [TensorNext]_tensorVars => CountIsLive'
  <2> SUFFICES ASSUME TensorTypes, CountIsLive, [TensorNext]_tensorVars
               PROVE  CountIsLive'
    OBVIOUS
  <2>1. CASE iTensorPoolInit
    BY <2>1, FS_EmptySet DEF iTensorPoolInit, CountIsLive
  <2>2. CASE vTensorPoolDeinit
    BY <2>2 DEF vTensorPoolDeinit, CountIsLive
  <2>3. ASSUME NEW s \in TensorSizes, xAllocTensor(s)
        PROVE  CountIsLive'
    <3>1. PICK h \in Handles : h \notin live /\ live' = live \cup {h}
      BY <2>3 DEF xAllocTensor, FirstFree
    <3>2. Cardinality(live') = Cardinality(live) + 1
      BY <3>1, LiveFinite, FS_AddElement
    <3> QED
      BY <2>3, <3>2 DEF xAllocTensor, CountIsLive
  <2>4. ASSUME NEW h \in Handles, vFreeTensor(h)
        PROVE  CountIsLive'
    <3>1. /\ h \in live /\ live' = live \ {h} /\ poolInited' = poolInited
          /\ count' = IF count > 0 THEN count - 1 ELSE count
      BY <2>4 DEF vFreeTensor
    <3>2. Cardinality(live') = Cardinality(live) - 1
      BY <3>1, LiveFinite, FS_RemoveElement
    <3>3. Cardinality(live) \in Nat /\ Cardinality(live') \in Nat
      BY <3>1, LiveFinite, FS_CardinalityType, FS_RemoveElement
    <3> QED
      BY <3>1, <3>2, <3>3 DEF CountIsLive
  <2>5. CASE UNCHANGED tensorVars
    BY <2>5 DEF tensorVars, CountIsLive
  <2> QED
    BY <2>1, <2>2, <2>3, <2>4, <2>5 DEF TensorNext
<1> QED
  BY <1>1, <1>2, TypeCorrect, PTL DEF TensorSpec
=============================================================================
