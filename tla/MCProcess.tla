------------------------------ MODULE MCProcess -----------------------------
(***************************************************************************)
(* Four parts of one process that have no variable in common: a request of *)
(* an HTTP gateway, the registry of descriptors, the history, the start-up *)
(* and the shutdown.  No property relates two of them, so that one part    *)
(* runs while the others stay as they begin.                               *)
(***************************************************************************)
EXTENDS MCGateways, MCDescriptors, MCHistory, Server

VARIABLE part

partVars == <<part, vars, descriptorVars, historyVars, processVars>>

PartsInit ==
  /\ part \in {"gateway", "registry", "history", "process"}
  /\ Init /\ (part # "gateway" => req = CHOOSE r \in Requests : TRUE)
  /\ RegistryInit /\ HistoryInit /\ ProcessInit

GatewayRuns ==
  /\ part = "gateway" /\ Next
  /\ UNCHANGED <<part, descriptorVars, historyVars, processVars>>

RegistryRuns ==
  /\ part = "registry" /\ RegistryNext
  /\ UNCHANGED <<part, vars, historyVars, processVars>>

HistoryRuns ==
  /\ part = "history" /\ HistoryNext
  /\ UNCHANGED <<part, vars, descriptorVars, processVars>>

Process(step) ==
  /\ part = "process" /\ step
  /\ UNCHANGED <<part, vars, descriptorVars, historyVars>>

PartsNext == GatewayRuns \/ RegistryRuns \/ HistoryRuns \/ Process(ProcessNext)

\* The fairness is that of ProcessSpec, for the part that has it.
PartsSpec ==
  /\ PartsInit /\ [][PartsNext]_partVars
  /\ WF_partVars(Process(Main))
  /\ \A s \in Servers : WF_partVars(Process(RequestEnds(s)))
=============================================================================
