----------------------------- MODULE ModelStore -----------------------------
(***************************************************************************)
(* Where the weights of the models live: the persistent area of the tensor *)
(* pool, a bump allocator, and the model table that points into it.        *)
(*                                                                         *)
(* What a caller registers or swaps in is a size and a filling: every byte *)
(* of it has the same value, and the checksum is right when the bytes that *)
(* it covers have the value it was taken of.  The sums of offset and size  *)
(* are below 2^32, because a size is that of a buffer in memory.           *)
(*                                                                         *)
(* No model is RUNNING here; module Inference has the runs.                *)
(***************************************************************************)
EXTENDS Integers

CONSTANTS
  PersistBytes,  \* g_pool.persist_size
  WeightAlign,   \* the alignment of weights, 8
  MaxModels,     \* ZHIO_CFG_MAX_LOCAL_MODELS
  WeightSizes,   \* the sizes of weights that are registered; a swap may also be to none
  Fillings,      \* their contents
  Garbage        \* what a byte holds before anything is written to it

ModelSlots == 0..(MaxModels - 1)
Bytes == 0..(PersistBytes - 1)

ASSUME StoreAssumption ==
  /\ PersistBytes \in Nat
  /\ WeightAlign \in Nat \ {0}
  /\ MaxModels \in Nat

ASSUME ContentAssumption ==
  /\ WeightSizes \subseteq Nat \ {0}
  /\ Garbage \notin Fillings

VARIABLES
  modelsInited,  \* g_model_initialized
  used,          \* g_pool.persist_used
  mem,           \* the bytes of the persistent area
  reg,           \* slots of g_models that are inited
  off,           \* where the data pointer of every slot points
  wsize,         \* its size
  sum,           \* the filling its checksum was taken of
  fatal,         \* registered models in state ERROR_FATAL
  stale          \* history: registered models whose weights were given up by a
                 \* reset of the persistent area

storeVars == <<modelsInited, used, mem, reg, off, wsize, sum, fatal, stale>>

(* The range of every variable; the bump pointer stays in the area. *)
StoreTypes ==
  /\ modelsInited \in BOOLEAN
  /\ used \in 0..PersistBytes
  /\ mem \in [Bytes -> Fillings \cup {Garbage}]
  /\ reg \subseteq ModelSlots
  /\ off \in [ModelSlots -> 0..PersistBytes]
  /\ wsize \in [ModelSlots -> Nat]
  /\ sum \in [ModelSlots -> Fillings \cup {Garbage}]
  /\ fatal \subseteq reg
  /\ stale \subseteq reg

StoreInit ==
  /\ modelsInited = FALSE
  /\ used = 0
  /\ mem = [a \in Bytes |-> Garbage]
  /\ reg = {}
  /\ off = [i \in ModelSlots |-> 0]
  /\ wsize = [i \in ModelSlots |-> 0]
  /\ sum = [i \in ModelSlots |-> Garbage]
  /\ fatal = {}
  /\ stale = {}

-----------------------------------------------------------------------------

WeightAlignUp(v) == ((v + (WeightAlign - 1)) \div WeightAlign) * WeightAlign

Region(start, length) == {a \in Bytes : start <= a /\ a < start + length}

(* memcpy *)
Filled(start, length, b) ==
  [a \in Bytes |-> IF a \in Region(start, length) THEN b ELSE mem[a]]

(* iVerifyModelChecksum *)
Intact(i) == \A a \in Region(off[i], wsize[i]) : mem[a] = sum[i]

(* zhio_persist_reset, and iTensorPoolInit on a pool that is there: the    *)
(* area is free again.  The model table is not told.                       *)
zhio_persist_reset ==
  /\ used' = 0
  /\ stale' = reg
  /\ UNCHANGED <<modelsInited, mem, reg, off, wsize, sum, fatal>>

(* iModelRuntimeInit and vModelRuntimeDeinit forget every model.  The area *)
(* stays used.                                                             *)
RuntimeReset(up) ==
  /\ modelsInited' = up
  /\ reg' = {}
  /\ off' = [i \in ModelSlots |-> 0]
  /\ wsize' = [i \in ModelSlots |-> 0]
  /\ sum' = [i \in ModelSlots |-> Garbage]
  /\ fatal' = {}
  /\ stale' = {}
  /\ UNCHANGED <<used, mem>>

(* The first free slot gets a copy of the data in new space; without a     *)
(* slot or without space, NULL and no change.                              *)
xRegisterModel(s, b) ==
  /\ modelsInited
  /\ WeightAlignUp(used) + s <= PersistBytes
  /\ \E i \in ModelSlots \ reg :
       /\ 0..(i - 1) \subseteq reg
       /\ reg' = reg \cup {i}
       /\ off' = [off EXCEPT ![i] = WeightAlignUp(used)]
       /\ wsize' = [wsize EXCEPT ![i] = s]
       /\ sum' = [sum EXCEPT ![i] = b]
  /\ mem' = Filled(WeightAlignUp(used), s, b)
  /\ used' = WeightAlignUp(used) + s
  /\ UNCHANGED <<modelsInited, fatal, stale>>

(* ERROR_FATAL when the checksum is wrong, another state otherwise. *)
iLoadModel(i) ==
  /\ i \in reg
  /\ fatal' = IF Intact(i) THEN fatal \ {i} ELSE fatal \cup {i}
  /\ UNCHANGED <<modelsInited, used, mem, reg, off, wsize, sum, stale>>

iUnloadModel(i) ==
  /\ i \in reg
  /\ fatal' = fatal \ {i}
  /\ UNCHANGED <<modelsInited, used, mem, reg, off, wsize, sum, stale>>

iSwapModelUnbounded(i, s, b) ==
  /\ i \in reg
  /\ mem' = Filled(off[i], s, b)
  /\ wsize' = [wsize EXCEPT ![i] = s]
  /\ sum' = [sum EXCEPT ![i] = b]
  /\ fatal' = fatal \ {i}
  /\ UNCHANGED <<modelsInited, used, reg, off, stale>>

iSwapModelKeepsChecksum(i, s, b) ==
  /\ i \in reg
  /\ s <= wsize[i]
  /\ mem' = Filled(off[i], s, b)
  /\ wsize' = [wsize EXCEPT ![i] = s]
  /\ fatal' = fatal \ {i}
  /\ UNCHANGED <<modelsInited, used, reg, off, sum, stale>>

(* New weights are written over the old ones if they are not longer than   *)
(* those are now, which may be shorter than what was registered; none at   *)
(* all are weights too.                                                    *)
iSwapModel(i, s, b) ==
  /\ i \in reg
  /\ s <= wsize[i]
  /\ mem' = Filled(off[i], s, b)
  /\ wsize' = [wsize EXCEPT ![i] = s]
  /\ sum' = [sum EXCEPT ![i] = b]
  /\ fatal' = fatal \ {i}
  /\ UNCHANGED <<modelsInited, used, reg, off, stale>>

StoreNext ==
  \/ zhio_persist_reset
  \/ \E up \in BOOLEAN : RuntimeReset(up)
  \/ \E s \in WeightSizes, b \in Fillings : xRegisterModel(s, b)
  \/ \E i \in ModelSlots :
       \/ iLoadModel(i)
       \/ iUnloadModel(i)
       \/ \E s \in WeightSizes \cup {0}, b \in Fillings : iSwapModel(i, s, b)

StoreSpec == StoreInit /\ [][StoreNext]_storeVars

-----------------------------------------------------------------------------

(* As long as no registered model has lost its weights to a reset of the   *)
(* area, the checksum of every model is right: no sequence of              *)
(* registrations and swaps, of whatever sizes, lets one model write into   *)
(* another's weights.                                                      *)
WeightsIntact == stale = {} => \A i \in reg : Intact(i)

(* ERROR_FATAL is never a false alarm: without such a reset no load finds  *)
(* a model corrupted.                                                      *)
NoFalseAlarm == stale = {} => fatal = {}
=============================================================================
