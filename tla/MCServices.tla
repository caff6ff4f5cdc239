------------------------------ MODULE MCServices -------------------------------
(***************************************************************************)
(* Small instances of the components that serve calls and events, side by     *)
(* side: they share no state, and a behaviour is one of any of them.           *)
(***************************************************************************)
EXTENDS FunctionService, FlowEngine, RealtimeClient, WebhookService, EventBus, TLC

VARIABLE part        \* the component that moves

Collections == [t \in {"a"} |-> "A"]
Topics == DOMAIN Collections

\* A hook of every operation, and a disabled function.
SomeSettings ==
  {[present |-> TRUE, enabled |-> TRUE, trigger |-> "any"],
   [present |-> TRUE, enabled |-> FALSE, trigger |-> "none"]}

Symmetry == Permutations(Frame)

ServicesInit ==
  /\ part \in {"functions", "flow", "realtime", "webhooks", "bus"}
  /\ FunctionInit /\ EngineInit /\ RealtimeInit /\ WebhookInit /\ BusInit
  /\ part # "flow" => tracker = 0

FunctionPart ==
  /\ part = "functions" /\ FunctionNext
  /\ UNCHANGED <<engineVars, realtimeVars, webhookVars, busVars>>
EnginePart ==
  /\ part = "flow" /\ EngineNext
  /\ UNCHANGED <<functionVars, realtimeVars, webhookVars, busVars>>
RealtimePart ==
  /\ part = "realtime" /\ RealtimeNext
  /\ UNCHANGED <<functionVars, engineVars, webhookVars, busVars>>
WebhookPart ==
  /\ part = "webhooks" /\ WebhookNext
  /\ UNCHANGED <<functionVars, engineVars, realtimeVars, busVars>>
BusPart ==
  /\ part = "bus" /\ BusNext
  /\ UNCHANGED <<functionVars, engineVars, realtimeVars, webhookVars>>

ServicesNext ==
  (FunctionPart \/ EnginePart \/ RealtimePart \/ WebhookPart \/ BusPart) /\ UNCHANGED part

ServicesSpec ==
  ServicesInit /\ [][ServicesNext]_<<part, functionVars, engineVars, realtimeVars, webhookVars, busVars>>
=============================================================================
