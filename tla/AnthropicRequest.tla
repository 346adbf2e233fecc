--------------------------- MODULE AnthropicRequest --------------------------
(***************************************************************************)
(* The anthropic request codec: backend/codec/anthropic/decode_request.go  *)
(* (what an anthropic client's body becomes) and encode_request.go (what   *)
(* an anthropic upstream is sent).                                         *)
(*                                                                         *)
(* A wire body has the shape of a request: params with what the upstream   *)
(* will understand, tools, choice and messages.  A block that cannot be    *)
(* encoded at all becomes a block of type "error", and the body is then    *)
(* refused.                                                                *)
(***************************************************************************)
EXTENDS Shaping

-----------------------------------------------------------------------------
(* Decoding: parameters *)

SameInAnthropic ==
    {"max_tokens", "temperature", "top_p", "top_k", "stop_sequences",
     "user_id", "cache_control", "inference_geo", "container",
     "service_tier", "mcp_servers", "context_management", "diagnostics"}

(* thinking {type, budget_tokens, display} and output_config.effort: an    *)
(* effort alone turns thinking on.                                         *)
DecodeAnthropicThinking(raw) ==
    LET kind == Get(raw, "thinking", "absent") IN
    CASE kind = "absent" /\ ~Has(raw, "effort") -> << >>
      [] kind = "absent" /\ Has(raw, "effort") ->
            ("thinking" := "on") ++ ("thinking_effort" := raw["effort"])
      [] OTHER ->
            ("thinking" := IF kind = "disabled" THEN "off" ELSE "on")
            ++ (IF kind = "adaptive" THEN "adaptive_thinking" := "yes"
                                     ELSE << >>)
            ++ (IF Has(raw, "budget_tokens")
                THEN "thinking_budget" := raw["budget_tokens"] ELSE << >>)
            ++ (IF Has(raw, "display")
                THEN "thinking_display_preference" := "yes" ELSE << >>)
            ++ (IF Has(raw, "effort")
                THEN "thinking_effort" := raw["effort"] ELSE << >>)

(* output_config.format or output_format: always schema-strict. *)
DecodeAnthropicFormat(raw) ==
    IF ~Has(raw, "output_format") THEN << >>
    ELSE ("response_format" := "schema") ++ ("response_format.schema" := "yes")
         ++ ("response_format.strict" := "strict")

DecodeAnthropicParams(raw) ==
    Keep(raw, SameInAnthropic)
    ++ (IF Get(raw, "disable_parallel_tool_use", "no") = "yes"
        THEN "parallel_tool_calls" := "no" ELSE << >>)
    ++ DecodeAnthropicThinking(raw) ++ DecodeAnthropicFormat(raw)

-----------------------------------------------------------------------------
(* Decoding: blocks *)

(* decodeBlock: an attachment is what its media type says, unless it is    *)
(* only a file id; a signature is this protocol's; an unknown type is kept *)
(* as it is.                                                               *)
KnownToAnthropic ==
    {"text", "tool_use", "tool_result", "thinking", "container_upload",
     "image", "document"} \cup ServerToolTypes

DecodeAnthropicLeaf(b) ==
    CASE b.type \notin KnownToAnthropic ->
            [type |-> "opaque", from |-> "anthropic"] ++ b
      [] b.type \in {"image", "document"} /\ ~Has(b, "file") ->
            [b EXCEPT !.type = MediaKindFor(Get(b, "kind", "unknown"))]
      [] b.type = "thinking" /\ Has(b, "sig") -> [b EXCEPT !.sig = "anthropic"]
      [] OTHER -> b

DecodeAnthropicBlocks(blocks) ==
    [i \in DOMAIN blocks |->
        IF blocks[i].type = "tool_result"
        THEN [blocks[i] EXCEPT !.content =
                 [j \in DOMAIN @ |-> DecodeAnthropicLeaf(@[j])]]
        ELSE DecodeAnthropicLeaf(blocks[i])]

DecodeAnthropic(raw) ==
    [params   |-> DecodeAnthropicParams(raw.params),
     tools    |-> raw.tools,
     choice   |-> raw.choice,
     system   |-> DecodeAnthropicBlocks(raw.system),
     messages |-> [i \in DOMAIN raw.messages |->
                      [raw.messages[i] EXCEPT !.content =
                          DecodeAnthropicBlocks(@)]]]

-----------------------------------------------------------------------------
(* Encoding: parameters *)

(* budgetForEffort: a share of the bound, at least the protocol's minimum  *)
(* and below the bound.                                                    *)
AnthropicBudgetFor(effort, most) ==
    LET share == CASE effort \in {"low", "minimal"} -> most \div 5
                   [] effort \in {"high", "max"}    -> (most * 4) \div 5
                   [] OTHER                         -> most \div 2
        least == IF share < 1024 THEN 1024 ELSE share
    IN IF least >= most THEN most - 1 ELSE least

AnthropicEfforts == {"low", "medium", "high", "xhigh", "max"}

EncodeAnthropicThinking(params, most) ==
    CASE ThinkingOff(params) -> "thinking" := "off"
      [] ThinkingOn(params) /\ Has(params, "adaptive_thinking") ->
            Keep(params, {"thinking", "adaptive_thinking",
                          "thinking_display_preference"})
      [] ThinkingOn(params) /\ ~Has(params, "adaptive_thinking") ->
            ("thinking_budget" :=
                IF Get(params, "thinking_budget", 0) > 0
                THEN params["thinking_budget"]
                ELSE AnthropicBudgetFor(Get(params, "thinking_effort", "unset"),
                                        most))
            ++ Keep(params, {"thinking", "thinking_display_preference"})
      [] OTHER -> << >>

(* metadata.user_id is the only identity slot. *)
EncodeAnthropicIdentity(params) ==
    CASE Has(params, "user_id") -> Keep(params, {"user_id"})
      [] ~Has(params, "user_id") -> Keep(params, {"safety_identifier"})

(* output_config: only a schema constrains the output, and always.  An     *)
(* effort outside the set is left out.                                     *)
EncodeAnthropicOutput(params) ==
    (IF Get(params, "response_format", "absent") = "schema"
        /\ Has(params, "response_format.schema")
     THEN ("response_format.strict" := "strict")
          ++ Keep(params, {"response_format", "response_format.schema"})
     ELSE << >>)
    ++ (IF Get(params, "thinking_effort", "unset") \in AnthropicEfforts
        THEN Keep(params, {"thinking_effort"}) ELSE << >>)

EncodeAnthropicParams(params, tools) ==
    LET most == MaxTokensFor("anthropic", params)
        tier == MapServiceTier("anthropic", Get(params, "service_tier", "auto"))
    IN Keep(params, {"temperature", "top_p", "top_k", "stop_sequences",
                     "cache_control", "inference_geo", "container",
                     "mcp_servers", "context_management", "diagnostics"})
       ++ ("max_tokens" := most)
       ++ EncodeAnthropicThinking(params, most)
       ++ EncodeAnthropicIdentity(params) ++ EncodeAnthropicOutput(params)
       ++ (IF Has(params, "service_tier") /\ tier # NoTier
           THEN "service_tier" := tier ELSE << >>)
       ++ (IF Get(params, "parallel_tool_calls", "yes") = "no" /\ tools # <<>>
           THEN "parallel_tool_calls" := "no" ELSE << >>)

-----------------------------------------------------------------------------
(* Encoding: blocks, tools and messages *)

(* An attachment: by file id where the block has a slot for one, left out  *)
(* when it carries nothing, described in words when the type is not taken. *)
EncodeAnthropicMedia(b) ==
    LET document == {"name", "context"} IN
    CASE ~HasPayload(b) /\ Has(b, "file") /\ b.type = "image" ->
            <<Keep(b, {"tag", "type", "file", "cache"})>>
      [] ~HasPayload(b) /\ Has(b, "file") /\ b.type = "document" ->
            <<Keep(b, {"tag", "type", "file", "cache"} \cup document)>>
      [] ~HasPayload(b) /\ ~(Has(b, "file")
                             /\ b.type \in {"image", "document"}) -> <<>>
      [] HasPayload(b) /\ ~AcceptsMedia("anthropic", b) ->
            <<[type |-> "text", text |-> AttachmentOmitted]
              ++ Keep(b, {"tag", "cache"})>>
      [] HasPayload(b) /\ AcceptsMedia("anthropic", b) ->
            <<Keep(b, {"tag", "type", "kind", "data", "url", "oversized",
                       "cache"}
                      \cup IF b.kind = "pdf" THEN document ELSE {})>>

EncodeAnthropicThought(b) ==
    CASE Has(b, "redacted") ->
            IF Has(b, "ciphertext")
            THEN <<Keep(b, {"tag", "type", "redacted", "ciphertext",
                            "cache"})>>
            ELSE <<>>
      [] ~Has(b, "redacted") /\ b.text = ""
         /\ (~Has(b, "sig") \/ ForeignSignature(b, "anthropic")) -> <<>>
      [] OTHER ->
            <<Keep(b, {"tag", "type", "text", "cache"}
                      \cup IF ForeignSignature(b, "anthropic") THEN {}
                           ELSE {"sig"})>>

(* What encodeBlock makes of a block that is not a tool result. *)
EncodeAnthropicLeaf(b) ==
    CASE b.type \in {"text", "refusal"} ->
            <<[type |-> "text"] ++ Keep(b, {"tag", "text", "cache"})>>
      [] IsMedia(b) -> EncodeAnthropicMedia(b)
      [] b.type = "thinking" -> EncodeAnthropicThought(b)
      [] b.type = "tool_use" ->
            <<Keep(b, {"tag", "type", "id", "name", "caller", "cache"})
              ++ (IF Has(b, "malformed") THEN [rewrapped |-> TRUE]
                                         ELSE << >>)>>
      [] b.type \in ServerToolTypes \cup {"container_upload"} -> <<b>>
      [] b.type = "opaque" ->
            IF OpaqueVerbatimFor(b, "anthropic") THEN <<b>> ELSE <<Error>>
      [] OTHER -> <<Error>>

EncodeAnthropicBlock(b) ==
    IF b.type # "tool_result" THEN EncodeAnthropicLeaf(b)
    ELSE <<[content |-> FlattenSeq([i \in DOMAIN b.content |->
                                      EncodeAnthropicLeaf(b.content[i])])]
           ++ Keep(b, {"tag", "type", "id", "is_error", "toolset", "cache"})>>

EncodeAnthropicBlocks(blocks) ==
    FlattenSeq([i \in DOMAIN blocks |-> EncodeAnthropicBlock(blocks[i])])

AnthropicPlaceholder == <<Text(ConversationPlaceholder)>>

(* The conversation starts with the user, and a message whose blocks all   *)
(* vanished says something.                                                *)
EncodeAnthropicMessage(m) ==
    LET blocks == EncodeAnthropicBlocks(m.content)
    IN Message(m.role,
               IF blocks = <<>> /\ (m.content # <<>> \/ Has(m, "audio"))
               THEN AnthropicPlaceholder ELSE blocks)

EncodeAnthropicMessages(messages) ==
    (IF messages # <<>> /\ messages[1].role # "user"
     THEN <<Message("user", AnthropicPlaceholder)>> ELSE <<>>)
    \o [i \in DOMAIN messages |-> EncodeAnthropicMessage(messages[i])]

EncodeAnthropicChoice(choice) ==
    IF choice.mode \in {"auto", "any", "none", "tool"}
    THEN Keep(choice, {"mode", "name"}) ELSE NoChoice

EncodeAnthropicTools(tools) ==
    [i \in DOMAIN tools |->
        Keep(tools[i], {"name", "server", "schema", "strict", "modifiers",
                        "cache"})]

EncodeAnthropic(req) ==
    [params   |-> EncodeAnthropicParams(req.params, req.tools),
     tools    |-> EncodeAnthropicTools(req.tools),
     choice   |-> EncodeAnthropicChoice(req.choice),
     system   |-> EncodeAnthropicBlocks(req.system),
     messages |-> EncodeAnthropicMessages(req.messages)]
=============================================================================
