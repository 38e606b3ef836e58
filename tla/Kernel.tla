-------------------------------- MODULE Kernel --------------------------------
(***************************************************************************)
(* Starting the system, the accelerators inference may run on, and the     *)
(* watchdogs of models.  The start sets the firewall up and forgets every  *)
(* accelerator and watchdog; what it does to the scheduler, the pool and   *)
(* the models is in the modules about them.                                *)
(***************************************************************************)
EXTENDS Firewall, SequencesExt

CONSTANTS
  Accelerators,  \* accelerators of a board
  HostSim,       \* the simulated one
  NpuSlots,      \* ZHIO_MAX_NPU_DEVICES
  WdModels,      \* models with a watchdog
  WdPeriods,     \* periods of their watchdogs
  WdSlots,       \* ZHIO_CFG_MAX_LOCAL_MODELS
  BootCmds,      \* the commands the start allows, 4 in the code
  BootPayload    \* the payload it allows, 512

ASSUME KernelAssumption ==
  /\ HostSim \notin Accelerators /\ NpuSlots \in Nat \ {0}
  /\ WdPeriods \subseteq Nat /\ WdSlots \in Nat
  /\ BootCmds \subseteq FwCmds /\ Cardinality(BootCmds) <= FwRuleSlots
  /\ BootPayload \in FwLens

VARIABLES
  devices,    \* g_devices
  running,    \* whether zhio_system_init has succeeded
  watchdogs,  \* g_wd: the valid entries
  fedAt       \* history: when each model was last fed, or first watched

kernelVars == <<devices, running, watchdogs, fedAt>>

Never == [period |-> 0, fed |-> 0]

KernelTypes ==
  /\ Len(devices) <= NpuSlots /\ IsInjective(devices)
  /\ ToSet(devices) \subseteq Accelerators \cup {HostSim}
  /\ Len(watchdogs) <= WdSlots
  /\ \A i \in DOMAIN watchdogs : watchdogs[i].fed <= fwNow

KernelStart ==
  /\ devices = <<>>
  /\ running = FALSE
  /\ watchdogs = <<>>
  /\ fedAt = [m \in WdModels |-> Never]

-----------------------------------------------------------------------------
(* As WithDevice, without the search for the device.                       *)
WithDeviceTwice(list, d) == IF Len(list) >= NpuSlots THEN list ELSE Append(list, d)

(* iRegisterNPUDevice on a list of devices.                                *)
WithDevice(list, d) ==
  IF Len(list) >= NpuSlots \/ d \in ToSet(list) THEN list ELSE Append(list, d)

RegisterNPUDevice(d) ==
  /\ devices' = WithDevice(devices, d)
  /\ UNCHANGED <<fwVars, running, watchdogs, fedAt>>

NPUUnregisterAll ==
  /\ devices' = <<>>
  /\ UNCHANGED <<fwVars, running, watchdogs, fedAt>>

(* xNPUGetDefault, on which every inference runs.                          *)
DefaultDevice == IF devices # <<>> THEN devices[1] ELSE HostSim

(* zhio_system_init with a board and a pool that start; if one does not,   *)
(* it returns before any of this.                                          *)
SystemInit ==
  /\ devices' = WithDevice(<<>>, HostSim)
  /\ fwRules' = [cmds |-> BootCmds, srcs |-> {}, max |-> BootPayload]
  /\ bucket' = FullBucket(FwDefaultRate, FwDefaultBurst)
  /\ fwStats' = NoStats
  /\ fwHistory' = [checked |-> 0, spent |-> 0, setAt |-> fwNow]
  /\ running' = TRUE
  /\ watchdogs' = <<>>
  /\ fedAt' = [m \in WdModels |-> Never]
  /\ UNCHANGED fwNow

-----------------------------------------------------------------------------
IsWatched(m) == \E i \in DOMAIN watchdogs : watchdogs[i].model = m

(* Starting the watchdog of a model again adds an entry and leaves the     *)
(* first as it is; a watchdog is never stopped.                            *)
InferenceWatchdogStart(m, period) ==
  /\ Len(watchdogs) < WdSlots
  /\ watchdogs' = Append(watchdogs, [model |-> m, period |-> period, fed |-> fwNow])
  /\ fedAt' = IF IsWatched(m) THEN fedAt
              ELSE [fedAt EXCEPT ![m] = [period |-> period, fed |-> fwNow]]
  /\ UNCHANGED <<fwVars, devices, running>>

(* As InferenceWatchdogFeed, ending at the newest entry.                   *)
InferenceWatchdogFeedNewest(m) ==
  /\ IsWatched(m)
  /\ LET newest == CHOOSE i \in DOMAIN watchdogs :
                     /\ watchdogs[i].model = m
                     /\ \A j \in DOMAIN watchdogs : watchdogs[j].model = m => j <= i
     IN  watchdogs' = [watchdogs EXCEPT ![newest].fed = fwNow]
  /\ fedAt' = [fedAt EXCEPT ![m].fed = fwNow]
  /\ UNCHANGED <<fwVars, devices, running>>

InferenceWatchdogFeed(m) ==
  /\ IsWatched(m)
  /\ watchdogs' = [i \in DOMAIN watchdogs |->
       IF watchdogs[i].model = m THEN [watchdogs[i] EXCEPT !.fed = fwNow] ELSE watchdogs[i]]
  /\ fedAt' = [fedAt EXCEPT ![m].fed = fwNow]
  /\ UNCHANGED <<fwVars, devices, running>>

(* zhio_watchdog_expired: the first entry of the model decides.            *)
WatchdogExpired(m) ==
  \E i \in DOMAIN watchdogs :
    /\ watchdogs[i].model = m
    /\ \A j \in 1..(i - 1) : watchdogs[j].model # m
    /\ (fwNow - watchdogs[i].fed) % FwWord > watchdogs[i].period

DevicesNext ==
  \/ SystemInit
  \/ NPUUnregisterAll
  \/ \E d \in Accelerators \cup {HostSim} : RegisterNPUDevice(d)

WatchdogsNext ==
  \/ SystemInit
  \/ \E m \in WdModels :
       \/ InferenceWatchdogFeed(m)
       \/ \E period \in WdPeriods : InferenceWatchdogStart(m, period)
  \/ FirewallTick /\ UNCHANGED kernelVars

KernelNext == (FirewallNext /\ UNCHANGED kernelVars) \/ DevicesNext \/ WatchdogsNext

KernelSpec == FirewallStart /\ KernelStart /\ [][KernelNext]_<<fwVars, kernelVars>>

-----------------------------------------------------------------------------
(* A model whose watchdog has expired was not fed for more than its        *)
(* period, however many entries restarts have added and however the tick   *)
(* wraps (xInferenceWatchdogFeed, zhio_watchdog_expired).                  *)
ExpiredWasUnfed ==
  \A m \in WdModels : WatchdogExpired(m) => fwNow - fedAt[m].fed > fedAt[m].period

(* What npu_dsp.c:17 says of a real accelerator, that it only has to be    *)
(* registered and nothing above it changes: while the system runs and an   *)
(* accelerator is registered, inference runs on an accelerator.            *)
RegisteredAcceleratorRuns ==
  running /\ ToSet(devices) \cap Accelerators # {} => DefaultDevice \in Accelerators
=============================================================================
