----------------------------- MODULE CloudRouting -----------------------------
(***************************************************************************)
(* Local inference with a cloud behind it: the adapters that turn a        *)
(* request into the body of an HTTP post, the transport that posts it, and *)
(* the routing that decides which of the two answers.                      *)
(*                                                                         *)
(* A text is its length in bytes and where its first NUL is: a payload may *)
(* be binary, and a string of the code ends at its first NUL.  Buffers are *)
(* the bytes that are written to them.  The numbers of the builders are    *)
(* the bytes of their format strings (UTF-8).  A routed inference is two   *)
(* steps, the local run and the post, because other tasks may configure an *)
(* adapter or set the transport in between.                                *)
(***************************************************************************)
EXTENDS Integers, SequencesExt

CONSTANTS
  CloudLens,      \* lengths of texts
  CloudModels,    \* lengths of the model names of configurations; 0: no name
  CloudSlots,     \* ZHIO_CFG_MAX_CLOUD_ADAPTERS
  LocalBytes,     \* first bytes of local outputs: the confidence
  AnswerLens,     \* lengths of the cloud's answers
  NoAdapter       \* the null handle, or an adapter without chat_completion

Adapters == {"openai", "claude", "a2a", "mcp"}

ASSUME CloudAssumption ==
  /\ CloudLens \cup CloudModels \cup AnswerLens \subseteq Nat
  /\ LocalBytes \subseteq 0..255
  /\ CloudSlots \in Nat /\ NoAdapter \notin Adapters

VARIABLES
  registry,   \* g_adapters
  contexts,   \* what priv_data of each adapter points at
  transport,  \* g_transport: the HAL's (none was set) or one of an application
  posted,     \* the last call: its text, its result, and the body it posted
  route       \* a routed inference

cloudVars == <<registry, contexts, transport, posted, route>>

BodySize == 512  \* of the two buffers, msgbuf and body

(* What a request comes to before the transport: refused, or a post.  body *)
(* is the length the transport is told, printed what snprintf stored of    *)
(* it, and copied what was written to msgbuf.                              *)
Refused == [rc |-> "INVAL", body |-> 0, printed |-> 0, copied |-> 0]

(* snprintf returns the length it would need and stores what has room      *)
(* beside the NUL.                                                         *)
Stored(length) == IF length < BodySize THEN length ELSE BodySize - 1

Printed(length) ==
  [rc |-> "POST", body |-> length, printed |-> Stored(length), copied |-> 0]

(* As Body, letting the length of the buffer pass.                         *)
BodyOffByOne(length) == IF length > BodySize THEN Refused ELSE Printed(length)

Body(length) == IF length >= BodySize THEN Refused ELSE Printed(length)

(* A payload is copied to msgbuf and closed with a NUL, and is a string    *)
(* from there on.                                                          *)
Payload(text, sent) ==
  IF text.len = 0 \/ text.len >= BodySize THEN Refused
  ELSE [sent EXCEPT !.copied = text.len + 1]

(* init is what the adapter's init last said of the context.               *)
DefaultContext == [endpoint |-> TRUE, model |-> 11, tokens |-> 256, init |-> "never"]

(* A name that is not there is printed as "(null)".                        *)
Name(c) == IF c.model = 0 THEN 6 ELSE c.model
Digits(n) == IF n = 0 THEN 1 ELSE 3

-----------------------------------------------------------------------------
(* The adapters.  tool is the length of a tool's name.                     *)

OpenAIContext == DefaultContext
OpenAIInit(c) == IF c.endpoint /\ c.model # 0 THEN "OK" ELSE "INVAL"
OpenAIBody(c, length) == Body(54 + Name(c) + length)
OpenAIChat(c, text) == OpenAIBody(c, text.nul)
OpenAIAgentRun(c, text) == Payload(text, OpenAIBody(c, text.nul))
OpenAIToolCall(c, tool, text) ==
  Payload(text, Body(54 + 21 + Name(c) + tool + text.nul))

ClaudeContext == [DefaultContext EXCEPT !.model = 14]
ClaudeInit(c) == IF c.endpoint /\ c.model # 0 /\ c.tokens # 0 THEN "OK" ELSE "INVAL"
ClaudeBody(c, length) == Body(68 + Name(c) + Digits(c.tokens) + length)
ClaudeChat(c, text) == ClaudeBody(c, text.nul)
ClaudeAgentRun(c, text) == Payload(text, ClaudeBody(c, text.nul))
ClaudeToolCall(c, tool, text) ==
  Payload(text, Body(68 + 21 + Name(c) + Digits(c.tokens) + tool + text.nul))

A2AContext == DefaultContext
A2AInit(c) == IF c.endpoint THEN "OK" ELSE "INVAL"
A2ABody(length) == Body(107 + length)
A2AChat(c, text) == A2ABody(text.nul)
A2AAgentRun(c, text) == Payload(text, A2ABody(text.nul))
(* The name of the tool is not part of the body.                           *)
A2AToolCall(c, tool, text) == Payload(text, A2ABody(text.nul))

MCPContext == DefaultContext
MCPInit(c) == IF c.endpoint THEN "OK" ELSE "INVAL"
MCPBody(tool, length) == Body(75 + tool + length)
MCPToolCall(c, tool, text) == Payload(text, MCPBody(tool, text.nul))
(* The tools "chat" and "agent_run".                                       *)
MCPChat(c, text) == MCPBody(4, text.nul)
MCPAgentRun(c, text) == Payload(text, MCPBody(9, text.nul))

AdapterContext ==
  [openai |-> OpenAIContext, claude |-> ClaudeContext, a2a |-> A2AContext, mcp |-> MCPContext]

AdapterInit(a, c) ==
  CASE a = "openai" -> OpenAIInit(c) [] a = "claude" -> ClaudeInit(c)
    [] a = "a2a" -> A2AInit(c)       [] a = "mcp" -> MCPInit(c)

ChatBody(a, c, text) ==
  CASE a = "openai" -> OpenAIChat(c, text) [] a = "claude" -> ClaudeChat(c, text)
    [] a = "a2a" -> A2AChat(c, text)       [] a = "mcp" -> MCPChat(c, text)

AgentRunBody(a, c, text) ==
  CASE a = "openai" -> OpenAIAgentRun(c, text) [] a = "claude" -> ClaudeAgentRun(c, text)
    [] a = "a2a" -> A2AAgentRun(c, text)       [] a = "mcp" -> MCPAgentRun(c, text)

ToolCallBody(a, c, tool, text) ==
  CASE a = "openai" -> OpenAIToolCall(c, tool, text)
    [] a = "claude" -> ClaudeToolCall(c, tool, text)
    [] a = "a2a" -> A2AToolCall(c, tool, text) [] a = "mcp" -> MCPToolCall(c, tool, text)

-----------------------------------------------------------------------------
(* The HAL of the host has no cloud; another transport answers anything.   *)
Answers == IF transport = "hal" THEN {"NOCLOUD"} ELSE {"OK", "NOCLOUD", "BUSY"}

NoText == [len |-> 0, nul |-> 0]
NoRoute == [pc |-> "rest", mode |-> "AUTO", adapter |-> NoAdapter, byte |-> 0, from |-> "before",
            posted |-> FALSE, rc |-> "OK"]

CloudTypes ==
  /\ ToSet(registry) \subseteq Adapters /\ Len(registry) <= CloudSlots
  /\ transport \in {"hal", "application"}
  /\ posted.sent.body < BodySize
  /\ route.pc \in {"rest", "cloud", "done"} /\ route.byte \in 0..255

CloudStart ==
  /\ registry = <<>>
  /\ contexts = AdapterContext
  /\ transport = "hal"
  /\ posted = [adapter |-> NoAdapter, text |-> NoText, sent |-> Refused]
  /\ route = NoRoute

AIServiceInit ==
  /\ registry' = <<>>
  /\ UNCHANGED <<contexts, transport, posted, route>>

RegisterCloudAdapter(a) ==
  /\ Len(registry) < CloudSlots
  /\ a \notin ToSet(registry)
  /\ registry' = Append(registry, a)
  /\ UNCHANGED <<contexts, transport, posted, route>>

(* iCloudAdapterInit keeps a configuration that the adapter then refuses.  *)
CloudAdapterInit(a, config) ==
  /\ contexts' = [contexts EXCEPT ![a] = [config EXCEPT !.init = AdapterInit(a, config)]]
  /\ UNCHANGED <<registry, transport, posted, route>>

SetTransport(t) ==
  /\ transport' = t
  /\ UNCHANGED <<registry, contexts, posted, route>>

(* iCloudChatCompletion, iCloudAgentRun and iCloudToolCall.  Bound of a    *)
(* run: one call, and one routed inference; they leave nothing behind that *)
(* another reads.                                                          *)
CloudCall(a, text, tool) ==
  /\ posted.adapter = NoAdapter
  /\ \E sent \in {ChatBody(a, contexts[a], text),
                  AgentRunBody(a, contexts[a], text),
                  ToolCallBody(a, contexts[a], tool, text)} :
       posted' = [adapter |-> a, text |-> text, sent |-> sent]
  /\ UNCHANGED <<registry, contexts, transport, route>>

-----------------------------------------------------------------------------
(* local_confidence, against hundredths.                                   *)
Confident(byte, hundredths) == byte * 100 >= hundredths * 255

(* As LocalWillDo, a confident output serving every mode.                  *)
LocalWillDoForAll(mode, a, byte, slow) ==
  mode = "LOCAL_ONLY" \/ Confident(byte, 70) \/ (mode = "AUTO" /\ a = NoAdapter)

(* What is decided after the local run, slow saying that it took more than *)
(* 60 ms: its output will do, or the cloud is asked.  The thresholds are   *)
(* the code's own, whatever the capability of the model says.              *)
LocalWillDo(mode, a, byte, slow) ==
  \/ mode = "LOCAL_ONLY"
  \/ mode = "LOCAL_FIRST" /\ Confident(byte, 70)
  \/ mode = "AUTO" /\ (a = NoAdapter \/ (Confident(byte, 85) /\ ~slow))

(* A mode the code does not know is found out after the local run.         *)
LocalOutcome(mode, a, rc, byte, slow) ==
  IF rc # "OK" THEN rc
  ELSE IF mode = "UNKNOWN" THEN "INVAL"
  ELSE IF LocalWillDo(mode, a, byte, slow) THEN "OK"
  ELSE IF a = NoAdapter THEN "NOCLOUD" ELSE "ASK"

RouteLocal(mode, a, rc, byte, slow) ==
  LET outcome == LocalOutcome(mode, a, rc, byte, slow)
  IN  /\ route.pc = "rest"
      /\ route' =
           [NoRoute EXCEPT
              !.mode = mode, !.adapter = a,
              !.byte = byte, !.from = IF rc = "OK" THEN "local" ELSE "before",
              !.pc = IF outcome = "ASK" THEN "cloud" ELSE "done",
              !.rc = IF outcome = "ASK" THEN "OK" ELSE outcome]
      /\ UNCHANGED <<registry, contexts, transport, posted>>

(* The flags have room for modes that are none.                            *)
Modes == {"LOCAL_ONLY", "LOCAL_FIRST", "CLOUD_FIRST", "CLOUD_ONLY", "AUTO", "UNKNOWN"}

(* The length of the mode's name (xCapabilityRoutingName).                 *)
RoutingNameLen(mode) ==
  IF mode = "AUTO" THEN 4 ELSE IF mode \in {"LOCAL_FIRST", "CLOUD_FIRST"} THEN 11 ELSE 10

(* The prompt: a task, a sum of at most 1024 bytes and the routing mode.   *)
Prompt(mode) ==
  LET n == 33 + 6 + RoutingNameLen(mode) IN [len |-> n, nul |-> n]

RouteCloud(answer, length) ==
  LET sent == ChatBody(route.adapter, contexts[route.adapter], Prompt(route.mode))
  IN  /\ route.pc = "cloud"
      /\ IF sent.rc = "INVAL"
           THEN route' = [route EXCEPT !.pc = "done", !.rc = "TIMEOUT"]
           ELSE route' = [route EXCEPT
                  !.pc = "done", !.posted = TRUE,
                  !.rc = IF answer = "OK" \/ answer = "NOCLOUD" THEN answer ELSE "TIMEOUT",
                  !.byte = IF answer = "OK" THEN length % 256 ELSE @,
                  !.from = IF answer = "OK" THEN "cloud" ELSE @]
      /\ UNCHANGED <<registry, contexts, transport, posted>>

Configs == [endpoint : BOOLEAN, model : CloudModels, tokens : {0, 256}, init : {"never"}]
Texts == {t \in [len : CloudLens, nul : CloudLens] : t.nul <= t.len}
RegistryNext == AIServiceInit \/ \E a \in Adapters : RegisterCloudAdapter(a)

(* Bound of a run: one adapter at a time has a configuration of its own.   *)
ConfigureNext ==
  \E a \in Adapters :
    /\ \A b \in Adapters \ {a} : contexts[b] = AdapterContext[b]
    /\ \E config \in Configs : CloudAdapterInit(a, config)

CallNext ==
  \/ ConfigureNext
  \/ \E a \in Adapters, text \in Texts, tool \in {0, 8} : CloudCall(a, text, tool)

RouteNext ==
  \/ ConfigureNext
  \/ \E t \in {"hal", "application"} : SetTransport(t)
  \/ \E mode \in Modes, a \in Adapters \cup {NoAdapter} :
       \/ RouteLocal(mode, a, "FAIL", 0, FALSE)
       \/ \E byte \in LocalBytes, slow \in BOOLEAN : RouteLocal(mode, a, "OK", byte, slow)
  \/ \E answer \in Answers, length \in AnswerLens : RouteCloud(answer, length)

CloudNext == RegistryNext \/ CallNext \/ RouteNext

CloudSpec == CloudStart /\ [][CloudNext]_cloudVars

-----------------------------------------------------------------------------
(* Whatever configuration an adapter prints beside the caller's bytes,     *)
(* what it copies stays in its buffer, and what it tells the transport to  *)
(* post is what it printed, the whole of it: no body that was cut short,   *)
(* and no byte behind the end of one (chat_completion, agent_run and       *)
(* tool_call of the adapters).                                             *)
PostsFitBuffers ==
  /\ posted.sent.copied <= BodySize
  /\ posted.sent.rc = "POST" => posted.sent.body = posted.sent.printed

(* A routed inference keeps to its mode, whatever becomes of adapters and  *)
(* transport between the local run and the post (xRouteInference): local   *)
(* only and a mode that is none never post, and the latter never succeeds; *)
(* success under the two cloud modes means the cloud's answer, and local   *)
(* first keeps a local output only when it is confident; a failure leaves  *)
(* no answer of the cloud behind, and an answer of the cloud is there only *)
(* if something was posted.                                                *)
RouteHonoursMode ==
  route.pc = "done" =>
    /\ route.mode \in {"LOCAL_ONLY", "UNKNOWN"} => ~route.posted
    /\ route.mode = "UNKNOWN" => route.rc # "OK"
    /\ route.rc = "OK" /\ route.mode \in {"CLOUD_FIRST", "CLOUD_ONLY"} => route.from = "cloud"
    /\ route.rc = "OK" /\ route.mode = "LOCAL_FIRST" /\ route.from = "local" =>
         Confident(route.byte, 70)
    /\ route.rc # "OK" => route.from # "cloud"
    /\ route.from = "cloud" => route.posted
=============================================================================
