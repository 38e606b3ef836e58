-------------------------------- MODULE Tables --------------------------------
(***************************************************************************)
(* The three tables below inference, side by side: the inference tasks,    *)
(* the tensors of the temporary area, and the models with their weights in *)
(* the persistent area.  None reads what another writes, so a behaviour    *)
(* exercises one of them, chosen at the start, and the state space is the  *)
(* sum of theirs.  Both areas belong to one pool: iTensorPoolInit on a     *)
(* pool that is there gives up the persistent area as well, which is the   *)
(* step zhio_persist_reset of ModelStore.                                  *)
(***************************************************************************)
EXTENDS InferenceTasks, TensorMem, ModelStore

VARIABLE table

tablesVars == <<table, taskVars, tensorVars, storeVars>>

TablesTypes ==
  /\ table \in {"tasks", "tensors", "weights"}
  /\ TaskTypes /\ TensorTypes /\ StoreTypes

TablesInit ==
  /\ table \in {"tasks", "tensors", "weights"}
  /\ TasksInit /\ TensorInit /\ StoreInit

TablesNext ==
  /\ \/ table = "tasks" /\ TasksNext /\ UNCHANGED <<tensorVars, storeVars>>
     \/ table = "tensors" /\ TensorNext /\ UNCHANGED <<taskVars, storeVars>>
     \/ table = "weights" /\ StoreNext /\ UNCHANGED <<taskVars, tensorVars>>
  /\ UNCHANGED table

TablesSpec == TablesInit /\ [][TablesNext]_tablesVars
=============================================================================
