------------------------------- MODULE Services -------------------------------
(***************************************************************************)
(* The services around inference, side by side.  Services of different     *)
(* units share no state, so what they do together is what each does on its *)
(* own: a behaviour exercises one unit, chosen at the start, and the state *)
(* space is the sum of theirs and not the product.  The units "team",      *)
(* "preferences", "patrol" and "bus" are four sides of the agents, "calls" *)
(* and "routing" two of the cloud, and "firewall", "devices" and           *)
(* "watchdogs" three of what zhio_system_init starts.                      *)
(***************************************************************************)
EXTENDS MessageBus, CloudRouting, UartRing, Frames, Kernel, Console

CONSTANT AgMaxBusy  \* bound of a run: agents created under patrol and bus

VARIABLE unit

servicesVars ==
  <<unit, agVars, busVars, cloudVars, uartVars, link, fwVars, kernelVars, consoleVars>>

Units == {"team", "preferences", "patrol", "bus", "registry", "calls", "routing", "uart",
          "frames", "firewall", "devices", "watchdogs", "console"}

ServicesTypes ==
  /\ unit \in Units
  /\ AgentTypes /\ BusTypes /\ CloudTypes /\ UartTypes
  /\ FirewallTypes /\ KernelTypes /\ ConsoleTypes

ServicesInit ==
  /\ unit \in Units
  /\ AgentStart /\ BusStart /\ CloudStart /\ UartStart /\ FramesStart
  /\ FirewallStart /\ KernelStart /\ ConsoleStart

AgentsNext ==
  /\ \/ unit = "team" /\ TeamNext /\ UNCHANGED busVars
     \/ unit = "preferences" /\ PreferenceNext /\ UNCHANGED busVars
     \/ unit = "preferences" /\ queues = <<>> /\ CreateAutoAgent /\ UNCHANGED busVars
     \/ unit = "patrol" /\ WatchNext /\ Len(queues') <= AgMaxBusy /\ UNCHANGED busVars
     \/ unit = "bus" /\ MessageBusNext /\ Len(queues') <= AgMaxBusy
  /\ UNCHANGED <<unit, cloudVars, uartVars, link, fwVars, kernelVars, consoleVars>>

CloudsNext ==
  /\ \/ unit = "registry" /\ RegistryNext
     \/ unit = "calls" /\ CallNext
     \/ unit = "routing" /\ RouteNext
  /\ UNCHANGED <<unit, agVars, busVars, uartVars, link, fwVars, kernelVars, consoleVars>>

LinesNext ==
  /\ \/ unit = "uart" /\ UartNext /\ UNCHANGED link
     \/ unit = "frames" /\ FramesNext /\ UNCHANGED uartVars
  /\ UNCHANGED <<unit, agVars, busVars, cloudVars, fwVars, kernelVars, consoleVars>>

SystemNext ==
  /\ \/ unit = "firewall" /\ FirewallNext /\ UNCHANGED kernelVars
     \/ unit = "firewall" /\ SystemInit
     \/ unit = "devices" /\ DevicesNext
     \/ unit = "watchdogs" /\ WatchdogsNext
  /\ UNCHANGED <<unit, agVars, busVars, cloudVars, uartVars, link, consoleVars>>

ConsolesNext ==
  /\ unit = "console" /\ ConsoleNext
  /\ UNCHANGED <<unit, agVars, busVars, cloudVars, uartVars, link, fwVars, kernelVars>>

ServicesNext == AgentsNext \/ CloudsNext \/ LinesNext \/ SystemNext \/ ConsolesNext

ServicesSpec == ServicesInit /\ [][ServicesNext]_servicesVars

-----------------------------------------------------------------------------
(* Inputs of the run. *)
SomeWords == {"cautious", "highestSafety", "visionFirst", "visionPlus", "safetyFirst",
              "allowCloud", "maskCloud", "localOnly", "cloudOnly", "auto", ""}
WordLists == [1..2 -> SomeWords]
SomePayloads == {<<>>, <<{0, 2, 4, 6}, {1, 3, 5, 7}>>}
SomeTypes == {{0}}
=============================================================================
