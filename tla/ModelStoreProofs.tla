-------------------------- MODULE ModelStoreProofs --------------------------
(***************************************************************************)
(* No sequence of registrations and swaps corrupts a model, for any area,  *)
(* alignment, table and sizes.                                             *)
(***************************************************************************)
EXTENDS ModelStore, TLAPS

(* Where the weights are, as long as none was given up: below the bump     *)
(* pointer, and one model's before or after another's.                     *)
Placed == \A i \in reg : off[i] + wsize[i] <= used

Apart ==
  \A i, j \in reg : i # j => \/ off[i] + wsize[i] <= off[j]
                             \/ off[j] + wsize[j] <= off[i]

Sound == Placed /\ Apart /\ WeightsIntact /\ fatal = {}

IInv == StoreTypes /\ (stale = {} => Sound)

(* align_up rounds up. *)
LEMMA AlignUpFact ==
  ASSUME NEW v \in Nat
  PROVE  WeightAlignUp(v) \in Nat /\ v <= WeightAlignUp(v)
<1>1. WeightAlign \in Nat /\ WeightAlign > 0
  BY StoreAssumption
<1> DEFINE n == v + (WeightAlign - 1)
           q == n \div WeightAlign
<1>2. n \in Nat
  BY <1>1
<1>3. n = WeightAlign * q + (n % WeightAlign) /\ q \in Nat /\ n % WeightAlign \in 0..(WeightAlign - 1)
  BY <1>1, <1>2
<1>4. WeightAlign * q \in Nat
  BY <1>1, <1>3
<1>5. WeightAlignUp(v) = WeightAlign * q
  BY <1>1, <1>3 DEF WeightAlignUp
<1> HIDE DEF q
<1> QED BY <1>1, <1>3, <1>4, <1>5

(* Writing one region leaves a region beside it as it was. *)
LEMMA OtherRegion ==
  ASSUME NEW o \in Nat, NEW s \in Nat, NEW b, NEW i \in ModelSlots,
         off[i] \in Nat, wsize[i] \in Nat, Intact(i),
         \/ off[i] + wsize[i] <= o
         \/ o + s <= off[i],
         mem' = Filled(o, s, b),
         off'[i] = off[i], wsize'[i] = wsize[i], sum'[i] = sum[i]
  PROVE  Intact(i)'
<1>1. \A a \in Region(off[i], wsize[i]) : a \notin Region(o, s)
  BY StoreAssumption DEF Region, Bytes
<1> QED BY <1>1 DEF Intact, Filled, Region

LEMMA OwnRegion ==
  ASSUME NEW b, NEW i \in ModelSlots,
         mem' = Filled(off'[i], wsize'[i], b), sum'[i] = b
  PROVE  Intact(i)'
BY DEF Intact, Filled, Region

LEMMA FilledType ==
  ASSUME StoreTypes, NEW o, NEW s, NEW b \in Fillings
  PROVE  Filled(o, s, b) \in [Bytes -> Fillings \cup {Garbage}]
BY DEF StoreTypes, Filled

LEMMA RegisterStep ==
  ASSUME IInv, NEW s \in WeightSizes, NEW b \in Fillings, xRegisterModel(s, b)
  PROVE  IInv'
<1> DEFINE o == WeightAlignUp(used)
<1>1. used \in Nat /\ s \in Nat /\ PersistBytes \in Nat /\ o \in Nat /\ used <= o
  BY AlignUpFact, StoreAssumption, ContentAssumption DEF IInv, StoreTypes
<1> HIDE DEF o
<1>2. PICK i \in ModelSlots \ reg :
        /\ reg' = reg \cup {i}
        /\ off' = [off EXCEPT ![i] = o]
        /\ wsize' = [wsize EXCEPT ![i] = s]
        /\ sum' = [sum EXCEPT ![i] = b]
  BY DEF xRegisterModel, o
<1>3. /\ o + s <= PersistBytes
      /\ mem' = Filled(o, s, b)
      /\ used' = o + s
      /\ UNCHANGED <<modelsInited, fatal, stale>>
  BY DEF xRegisterModel, o
<1>4. StoreTypes'
  BY <1>1, <1>2, <1>3, FilledType DEF IInv, StoreTypes
<1>5. ASSUME stale = {}
      PROVE  Sound'
  <2>1. Sound
    BY <1>5 DEF IInv
  <2>2. off \in [ModelSlots -> 0..PersistBytes] /\ wsize \in [ModelSlots -> Nat]
        /\ sum \in [ModelSlots -> Fillings \cup {Garbage}] /\ reg \subseteq ModelSlots
    BY DEF IInv, StoreTypes
  <2>3. off'[i] = o /\ wsize'[i] = s /\ sum'[i] = b
    BY <1>2, <2>2
  <2>4. \A j \in reg : /\ j # i
                       /\ off'[j] = off[j] /\ wsize'[j] = wsize[j] /\ sum'[j] = sum[j]
                       /\ off[j] \in Nat /\ wsize[j] \in Nat
                       /\ off[j] + wsize[j] <= used
    BY <1>1, <1>2, <2>1, <2>2 DEF Sound, Placed
  <2>5. Placed'
    BY <1>1, <1>2, <1>3, <2>3, <2>4 DEF Placed
  <2>6. Apart'
    <3> SUFFICES ASSUME NEW j \in reg', NEW k \in reg', j # k
                 PROVE  \/ off'[j] + wsize'[j] <= off'[k]
                        \/ off'[k] + wsize'[k] <= off'[j]
      BY DEF Apart
    <3>1. CASE j \in reg /\ k \in reg
      BY <2>1, <2>4, <3>1 DEF Sound, Apart
    <3>2. CASE j = i /\ k \in reg
      BY <1>1, <2>3, <2>4, <3>2
    <3>3. CASE j \in reg /\ k = i
      BY <1>1, <2>3, <2>4, <3>3
    <3> QED BY <1>2, <3>1, <3>2, <3>3
  <2>7. ASSUME NEW j \in reg'
        PROVE  Intact(j)'
    <3>1. CASE j = i
      BY <1>3, <2>3, <3>1, OwnRegion
    <3>2. CASE j \in reg
      <4>1. Intact(j)
        BY <1>5, <2>1, <3>2 DEF Sound, WeightsIntact
      <4>2. off[j] + wsize[j] <= o
        BY <1>1, <2>4, <3>2
      <4> QED
        BY <1>1, <1>3, <2>2, <2>4, <3>2, <4>1, <4>2, OtherRegion
    <3> QED BY <1>2, <3>1, <3>2
  <2> QED
    BY <1>3, <2>1, <2>5, <2>6, <2>7 DEF Sound, WeightsIntact
<1> QED BY <1>3, <1>4, <1>5 DEF IInv

LEMMA SwapStep ==
  ASSUME IInv, NEW i \in ModelSlots, NEW s \in WeightSizes \cup {0}, NEW b \in Fillings,
         iSwapModel(i, s, b)
  PROVE  IInv'
<1>1. /\ i \in reg /\ s <= wsize[i] /\ s \in Nat
      /\ mem' = Filled(off[i], s, b)
      /\ wsize' = [wsize EXCEPT ![i] = s]
      /\ sum' = [sum EXCEPT ![i] = b]
      /\ fatal' = fatal \ {i}
      /\ UNCHANGED <<modelsInited, used, reg, off, stale>>
  BY ContentAssumption DEF iSwapModel
<1>2. StoreTypes'
  BY <1>1, FilledType DEF IInv, StoreTypes
<1>3. ASSUME stale = {}
      PROVE  Sound'
  <2>1. Sound
    BY <1>3 DEF IInv
  <2>2. off \in [ModelSlots -> 0..PersistBytes] /\ wsize \in [ModelSlots -> Nat]
        /\ sum \in [ModelSlots -> Fillings \cup {Garbage}] /\ reg \subseteq ModelSlots
        /\ used \in Nat
    BY StoreAssumption DEF IInv, StoreTypes
  <2>3. off'[i] = off[i] /\ wsize'[i] = s /\ sum'[i] = b
    BY <1>1, <2>2
  <2>4. \A j \in reg \ {i} :
          off'[j] = off[j] /\ wsize'[j] = wsize[j] /\ sum'[j] = sum[j]
    BY <1>1, <2>2
  <2>5. \A j \in reg : off[j] \in Nat /\ wsize[j] \in Nat /\ wsize'[j] \in Nat
                       /\ off'[j] = off[j] /\ wsize'[j] <= wsize[j]
    BY <1>1, <2>2, <2>3, <2>4
  <2>6. Placed'
    BY <1>1, <2>1, <2>2, <2>5 DEF Sound, Placed
  <2>7. Apart'
    BY <1>1, <2>1, <2>5 DEF Sound, Apart
  <2>8. ASSUME NEW j \in reg
        PROVE  Intact(j)'
    <3>1. CASE j = i
      BY <1>1, <2>3, <3>1, OwnRegion
    <3>2. CASE j # i
      <4>1. Intact(j)
        BY <1>3, <2>1 DEF Sound, WeightsIntact
      <4>2. off[j] + wsize[j] <= off[i] \/ off[i] + s <= off[j]
        BY <1>1, <2>1, <2>5, <3>2 DEF Sound, Apart
      <4> QED
        BY <1>1, <2>2, <2>4, <2>5, <3>2, <4>1, <4>2, OtherRegion
    <3> QED BY <3>1, <3>2
  <2> QED
    BY <1>1, <2>1, <2>6, <2>7, <2>8 DEF Sound, WeightsIntact
<1> QED BY <1>1, <1>2, <1>3 DEF IInv

LEMMA InitInv == StoreInit => IInv
<1> SUFFICES ASSUME StoreInit PROVE IInv
  OBVIOUS
<1>1. used \in 0..PersistBytes /\ off \in [ModelSlots -> 0..PersistBytes]
  BY StoreAssumption DEF StoreInit
<1>2. /\ mem \in [Bytes -> Fillings \cup {Garbage}]
      /\ wsize \in [ModelSlots -> Nat]
      /\ sum \in [ModelSlots -> Fillings \cup {Garbage}]
  BY DEF StoreInit
<1>3. reg = {} /\ fatal = {} /\ stale = {} /\ modelsInited \in BOOLEAN
  BY DEF StoreInit
<1>4. StoreTypes
  BY <1>1, <1>2, <1>3 DEF StoreTypes
<1>5. Sound
  BY <1>3 DEF Sound, Placed, Apart, WeightsIntact
<1> QED BY <1>4, <1>5 DEF IInv

LEMMA NextInv == IInv /\ [StoreNext]_storeVars => IInv'
<1> SUFFICES ASSUME IInv, [StoreNext]_storeVars PROVE IInv'
  OBVIOUS
<1>1. CASE zhio_persist_reset
  BY <1>1, StoreAssumption
     DEF zhio_persist_reset, IInv, StoreTypes, Sound, Placed, Apart, WeightsIntact
<1>2. ASSUME NEW up \in BOOLEAN, RuntimeReset(up)
      PROVE  IInv'
  BY <1>2, StoreAssumption, ContentAssumption
     DEF RuntimeReset, IInv, StoreTypes, Sound, Placed, Apart, WeightsIntact
<1>3. ASSUME NEW s \in WeightSizes, NEW b \in Fillings, xRegisterModel(s, b)
      PROVE  IInv'
  BY <1>3, RegisterStep
<1>4. ASSUME NEW i \in ModelSlots, iLoadModel(i)
      PROVE  IInv'
  BY <1>4 DEF iLoadModel, IInv, StoreTypes, Sound, Placed, Apart, WeightsIntact, Intact
<1>5. ASSUME NEW i \in ModelSlots, iUnloadModel(i)
      PROVE  IInv'
  BY <1>5 DEF iUnloadModel, IInv, StoreTypes, Sound, Placed, Apart, WeightsIntact, Intact
<1>6. ASSUME NEW i \in ModelSlots, NEW s \in WeightSizes \cup {0}, NEW b \in Fillings, iSwapModel(i, s, b)
      PROVE  IInv'
  BY <1>6, SwapStep
<1>7. CASE UNCHANGED storeVars
  BY <1>7 DEF storeVars, IInv, StoreTypes, Sound, Placed, Apart, WeightsIntact, Intact
<1> QED
  BY <1>1, <1>2, <1>3, <1>4, <1>5, <1>6, <1>7 DEF StoreNext

LEMMA Inductive == StoreSpec => []IInv
BY InitInv, NextInv, PTL DEF StoreSpec

(* The bump pointer never leaves the area, and every table its range. *)
THEOREM TypeCorrect == StoreSpec => []StoreTypes
<1>1. IInv => StoreTypes
  BY DEF IInv
<1> QED BY <1>1, Inductive, PTL

(* The weights of every model are what was registered or swapped in last,  *)
(* byte for byte, until the area is reset under the model table.           *)
THEOREM WeightsKept == StoreSpec => []WeightsIntact
<1>1. IInv => WeightsIntact
  BY DEF IInv, Sound, WeightsIntact
<1> QED BY <1>1, Inductive, PTL

(* And so iLoadModel never puts a sound model into ERROR_FATAL. *)
THEOREM NoModelCondemned == StoreSpec => []NoFalseAlarm
<1>1. IInv => NoFalseAlarm
  BY DEF IInv, Sound, NoFalseAlarm
<1> QED BY <1>1, Inductive, PTL
=============================================================================
