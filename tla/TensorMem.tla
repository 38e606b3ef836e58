----------------------------- MODULE TensorMem -----------------------------
(***************************************************************************)
(* The temporary area of the tensor pool: a stack of tensors that grows    *)
(* from offset 0, and a table of tensor objects.  The arithmetic is that   *)
(* of uint32_t, with Word in the place of 2^32.                            *)
(*                                                                         *)
(* A handle is the index of an object.  active and magic are set together  *)
(* and cleared together, so both are the membership in live.  Persistent   *)
(* tensors do not exist: no code sets TensorObj_t.persistent.              *)
(***************************************************************************)
EXTENDS Integers, FiniteSets

CONSTANTS
  PoolBytes,   \* the argument of iTensorPoolInit
  MaxTensors,  \* g_max_tensors
  TensorSizes, \* the values of size_bytes that are asked for
  Word         \* 2^32

Align == 8     \* ZHIO_TENSOR_ALIGN

ASSUME TensorTableAssumption == MaxTensors \in Nat \ {0}

ASSUME WordAssumption == Word \in Nat /\ Word > Align /\ Word % Align = 0

ASSUME SizesAssumption == TensorSizes \subseteq 0..(Word - 1)

Handles == 0..(MaxTensors - 1)

AlignDown(v) == v - (v % Align)

(* align_up: a size in the last seven values of the word wraps to 0. *)
AlignUp(v) == LET r == (v + (Align - 1)) % Word IN r - (r % Align)

(* Three fifths of the pool are the persistent area, the rest is ours. *)
PersistSize == AlignUp(((PoolBytes * 3) % Word) \div 5)
TempSize    == PoolBytes - PersistSize

ASSUME PoolAssumption ==
  PoolBytes \in Nat /\ PoolBytes * 3 < Word /\ PersistSize < PoolBytes

VARIABLES
  poolInited,  \* g_pool.buf # NULL
  live,        \* handles whose object is active
  size,        \* obj->size
  offset,      \* obj->offset
  top,         \* g_pool.temp_top
  count,       \* g_pool.active_count
  lifo         \* history: since the last iTensorPoolInit, only the most recent of
               \* the live tensors was ever freed

tensorVars == <<poolInited, live, size, offset, top, count, lifo>>

(* The range of every variable; the stack stays inside its area. *)
TensorTypes ==
  /\ poolInited \in BOOLEAN
  /\ live \subseteq Handles
  /\ size \in [Handles -> 0..(Word - 1)]
  /\ offset \in [Handles -> 0..TempSize]
  /\ top \in 0..TempSize
  /\ count \in Nat
  /\ lifo \in BOOLEAN

-----------------------------------------------------------------------------

Capacity == IF poolInited THEN TempSize ELSE 0

Cleared == [h \in Handles |-> 0]

(* xAllocTensor gives an empty tensor one byte. *)
SizeOf(s) == IF s = 0 THEN 1 ELSE s

(* obj_alloc: the first object that is not active. *)
FirstFree(h) ==
  h \in Handles \ live /\ \A k \in Handles \ live : h <= k

TensorInit ==
  /\ poolInited = FALSE
  /\ live = {}
  /\ size = Cleared
  /\ offset = Cleared
  /\ top = 0
  /\ count = 0
  /\ lifo = TRUE

iTensorPoolInitKeepsCount ==
  /\ poolInited' = TRUE
  /\ live' = {}
  /\ size' = Cleared
  /\ offset' = Cleared
  /\ top' = 0
  /\ lifo' = TRUE
  /\ UNCHANGED count

(* iTensorPoolInit, the first time and as a reset of a pool in use. *)
iTensorPoolInit ==
  /\ poolInited' = TRUE
  /\ live' = {}
  /\ size' = Cleared
  /\ offset' = Cleared
  /\ top' = 0
  /\ count' = 0
  /\ lifo' = TRUE

(* vTensorPoolDeinit clears the pool and leaves the objects as they are. *)
vTensorPoolDeinit ==
  /\ poolInited' = FALSE
  /\ top' = 0
  /\ count' = 0
  /\ UNCHANGED <<live, size, offset, lifo>>

xAllocTensorUnbounded(s) ==
  LET newTop == (top + AlignUp(SizeOf(s))) % Word
  IN  /\ \E h \in Handles :
           /\ FirstFree(h)
           /\ live' = live \cup {h}
           /\ size' = [size EXCEPT ![h] = SizeOf(s)]
           /\ offset' = [offset EXCEPT ![h] = top]
      /\ top' = newTop
      /\ count' = count + 1
      /\ UNCHANGED <<poolInited, lifo>>

xAllocTensorTopFirst(s) ==
  LET newTop == (top + AlignUp(SizeOf(s))) % Word
  IN  /\ newTop <= Capacity
      /\ \/ \E h \in Handles :
              /\ FirstFree(h)
              /\ live' = live \cup {h}
              /\ size' = [size EXCEPT ![h] = SizeOf(s)]
              /\ offset' = [offset EXCEPT ![h] = top]
              /\ count' = count + 1
         \/ live = Handles /\ UNCHANGED <<live, size, offset, count>>
      /\ top' = newTop
      /\ UNCHANGED <<poolInited, lifo>>

(* xAllocTensor: NULL, without a change, when the area or the table of     *)
(* objects is exhausted.                                                   *)
xAllocTensor(s) ==
  LET newTop == (top + AlignUp(SizeOf(s))) % Word
  IN  /\ newTop <= Capacity
      /\ \E h \in Handles :
           /\ FirstFree(h)
           /\ live' = live \cup {h}
           /\ size' = [size EXCEPT ![h] = SizeOf(s)]
           /\ offset' = [offset EXCEPT ![h] = top]
      /\ top' = newTop
      /\ count' = count + 1
      /\ UNCHANGED <<poolInited, lifo>>

EndOf(h) == (offset[h] + AlignUp(size[h])) % Word

(* The most recent of the live tensors. *)
Topmost(h) == h \in live /\ \A k \in live : offset[k] <= offset[h]

vFreeTensorLowersTop(h) ==
  /\ h \in live
  /\ live' = live \ {h}
  /\ offset' = [offset EXCEPT ![h] = 0]
  /\ top' = offset[h]
  /\ count' = IF count > 0 THEN count - 1 ELSE count
  /\ lifo' = (lifo /\ Topmost(h))
  /\ UNCHANGED <<poolInited, size>>

(* vFreeTensor: the top of the stack is given back, any other tensor       *)
(* leaves a hole.                                                          *)
vFreeTensor(h) ==
  /\ h \in live
  /\ live' = live \ {h}
  /\ offset' = [offset EXCEPT ![h] = 0]
  /\ top' = IF EndOf(h) = top THEN offset[h] ELSE top
  /\ count' = IF count > 0 THEN count - 1 ELSE count
  /\ lifo' = (lifo /\ Topmost(h))
  /\ UNCHANGED <<poolInited, size>>

TensorNext ==
  \/ iTensorPoolInit
  \/ vTensorPoolDeinit
  \/ \E s \in TensorSizes : xAllocTensor(s)
  \/ \E h \in Handles : vFreeTensor(h)

TensorSpec == TensorInit /\ [][TensorNext]_tensorVars

-----------------------------------------------------------------------------

(* The bytes of tensor h. *)
Block(h) == offset[h]..(EndOf(h) - 1)

(* Two tensors that are both in use never share a byte, whatever the order *)
(* in which tensors were freed.                                            *)
LiveDisjoint ==
  poolInited => \A h, k \in live : h # k => Block(h) \cap Block(k) = {}

(* A tensor in use lies below the top of the stack, with room for all the  *)
(* bytes that were asked for: a request that does not fit got NULL         *)
(* (test_core.c:41).                                                       *)
LiveBelowTop ==
  poolInited => \A h \in live : offset[h] + size[h] <= top

(* The count that xGetTensorPoolStats reports is the number of tensors in  *)
(* use, through exhaustion, resets and frees of handles that are not live. *)
CountIsLive == poolInited => count = Cardinality(live)

(* No request is so large that its end leaves the word. *)
NoWrap == \A s \in TensorSizes : TempSize + SizeOf(s) + Align <= Word

(* Zero fragmentation (tensor_mem.h:7), for a client that frees in the     *)
(* opposite order of its allocations: every byte below the top belongs to  *)
(* a tensor in use, so that what is free is the area above it.             *)
ZeroFragmentation ==
  poolInited /\ lifo => \A b \in 0..(top - 1) : \E h \in live : b \in Block(h)

(* With no tensor in use the whole area is free again: fragmentation stays *)
(* below one per cent over thirty days (tensor_mem.h:8).                   *)
IdleAreaIsFree == poolInited /\ live = {} => top = 0
=============================================================================
