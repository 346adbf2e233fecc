----------------------------- MODULE ChatRequest ----------------------------
(***************************************************************************)
(* The chat completions request codec:                                     *)
(* backend/codec/chatcompletions/decode_request.go and encode_request.go.  *)
(***************************************************************************)
EXTENDS Shaping

-----------------------------------------------------------------------------
(* Decoding: parameters *)

SameInChat ==
    {"temperature", "top_p", "presence_penalty", "frequency_penalty",
     "seed", "n", "logprobs", "top_logprobs", "logit_bias", "service_tier",
     "prompt_cache_key", "parallel_tool_calls", "store", "verbosity",
     "safety_identifier", "moderation", "prompt_cache_options",
     "prompt_cache_retention", "modalities", "audio", "prediction",
     "web_search_options", "metadata", "include_obfuscation"}

(* reasoning_effort: "none" turns thinking off, anything else turns it on. *)
DecodeChatThinking(raw) ==
    CASE ~Has(raw, "reasoning_effort") -> << >>
      [] Get(raw, "reasoning_effort", "unset") = "none" -> "thinking" := "off"
      [] OTHER -> ("thinking" := "on")
                  ++ ("thinking_effort" := raw["reasoning_effort"])

(* decodeResponseFormat: "text" asks for nothing. *)
DecodeFormat(raw) ==
    IF Get(raw, "response_format", "text") = "text" THEN << >>
    ELSE IF raw["response_format"] = "schema" THEN Keep(raw, FormatDims)
    ELSE Keep(raw, {"response_format"})

(* max_completion_tokens wins over max_tokens; stop may be one string. *)
DecodeChatParams(raw) ==
    Keep(raw, SameInChat)
    ++ (IF Has(raw, "max_completion_tokens")
        THEN "max_tokens" := raw["max_completion_tokens"]
        ELSE Keep(raw, {"max_tokens"}))
    ++ (IF Has(raw, "stop") THEN "stop_sequences" := raw["stop"] ELSE << >>)
    ++ (IF Has(raw, "user") THEN "user_id" := raw["user"] ELSE << >>)
    ++ DecodeChatThinking(raw) ++ DecodeFormat(raw)

(* Tools: what is not a function here is skipped. *)
DecodeChatTools(raw) == Filter(raw, LAMBDA t : ~Has(t, "server"))

(* A choice of a custom tool keeps its original text. *)
DecodeChatChoice(raw) ==
    IF raw.mode = "custom"
    THEN [mode |-> "tool", name |-> raw.name, rawName |-> raw.name,
          raw |-> "chat"]
    ELSE raw

-----------------------------------------------------------------------------
(* Decoding: messages.  A raw message has a role, content parts, and where *)
(* they were given a name, a tool call id, reasoning, a refusal, calls and *)
(* an audio reference.                                                     *)

OnlyToolResults(blocks) ==
    blocks # <<>> /\ \A i \in DOMAIN blocks : blocks[i].type = "tool_result"

(* decodePart, here and in the responses protocol. *)
KnownToOpenAI(p) ==
    {"text", "image", "audio", "file"}
    \cup IF p = "responses" THEN {"refusal", "thinking"} ELSE {}

DecodePart(p, b) ==
    CASE b.type \notin KnownToOpenAI(p) -> [type |-> "opaque", from |-> p] ++ b
      [] b.type = "file" -> [b EXCEPT !.type = MediaKindFor(Get(b, "kind", "unknown"))]
      [] OTHER -> b

DecodeParts(p, parts) == [i \in DOMAIN parts |-> DecodePart(p, parts[i])]

(* codec.AdoptToolResultError: a failure this service wrote into the text  *)
(* in an earlier turn becomes a failure again.                             *)
AdoptToolResultError(result) ==
    IF result.content # <<>> /\ result.content[1].type = "text"
       /\ Has(result.content[1], "errorPrefix")
    THEN [is_error |-> TRUE,
          content |-> (IF result.content[1].text = "" THEN <<>>
                       ELSE <<Without(result.content[1], {"errorPrefix"})>>)
                      \o Tail(result.content)] ++ result
    ELSE result

(* appendMessage for role tool: results of one round share a message. *)
AppendToolMessage(req, m) ==
    LET result == AdoptToolResultError(
                     [type |-> "tool_result", id |-> m.id,
                      content |-> DecodeParts("chat", m.content)]
                     ++ Keep(m, {"tag"}))
        n == Len(req.messages)
    IN IF n > 0 /\ req.messages[n].role = "user"
          /\ OnlyToolResults(req.messages[n].content)
       THEN [req EXCEPT !.messages[n].content = Append(@, result)]
       ELSE [req EXCEPT !.messages =
                Append(@, Message("user", <<result>>) ++ Keep(m, {"name"}))]

AppendChatMessage(req, m) ==
    CASE m.role \in {"system", "developer"} ->
            [req EXCEPT !.system = @ \o DecodeParts("chat", m.content)]
      [] m.role = "tool" -> AppendToolMessage(req, m)
      [] m.role = "assistant" ->
            [req EXCEPT !.messages = Append(@,
                Message("assistant", Get(m, "reasoning", <<>>)
                                     \o DecodeParts("chat", m.content)
                                     \o Get(m, "refusal", <<>>)
                                     \o Get(m, "calls", <<>>))
                ++ Keep(m, {"name", "audio"}))]
      [] m.role = "user" ->
            [req EXCEPT !.messages = Append(@,
                Message("user", DecodeParts("chat", m.content))
                ++ Keep(m, {"name"}))]

DecodeChat(raw) ==
    FoldLeft(AppendChatMessage,
             [params |-> DecodeChatParams(raw.params),
              tools  |-> DecodeChatTools(raw.tools),
              choice |-> DecodeChatChoice(raw.choice),
              system |-> <<>>, messages |-> <<>>],
             raw.messages)

-----------------------------------------------------------------------------
(* Encoding: parameters *)

(* effortForBudget: a budget becomes a coarse level. *)
EffortForBudget(budget) ==
    CASE budget <= 0     -> "medium"
      [] budget \in 1 .. 4095     -> "low"
      [] budget \in 4096 .. 16383 -> "medium"
      [] OTHER -> "high"

EncodeEffort(params) ==
    CASE ThinkingOn(params) ->
            ("thinking" := "on")
            ++ ("thinking_effort" :=
                  Get(params, "thinking_effort",
                      EffortForBudget(Get(params, "thinking_budget", 0))))
      [] ThinkingOff(params) -> "thinking" := "off"
      [] OTHER -> << >>

(* encodeResponseFormat, and encodeText of the responses protocol. *)
EncodeFormat(params) ==
    CASE ~Has(params, "response_format") -> << >>
      [] Get(params, "response_format", "absent") = "schema"
         /\ Has(params, "response_format.schema") -> Keep(params, FormatDims)
      [] OTHER -> "response_format" := "json"

(* Only text and audio are output modalities here. *)
EncodeModalities(params) ==
    LET kept == Get(params, "modalities", {}) \cap {"text", "audio"} IN
    IF kept = {} THEN << >> ELSE "modalities" := kept

EncodeChatParams(params) ==
    LET tier == MapServiceTier("chat", Get(params, "service_tier", "auto"))
    IN Keep(params, {"temperature", "top_p", "include_obfuscation",
                     "max_tokens", "stop_sequences", "presence_penalty",
                     "frequency_penalty", "seed", "n", "logprobs",
                     "top_logprobs", "logit_bias", "prompt_cache_key",
                     "parallel_tool_calls", "verbosity",
                     "safety_identifier", "moderation",
                     "prompt_cache_options", "prompt_cache_retention",
                     "audio", "prediction", "web_search_options",
                     "metadata", "user_id"})
       ++ (IF Has(params, "service_tier") /\ tier # NoTier
           THEN "service_tier" := tier ELSE << >>)
       ++ EncodeModalities(params)
       ++ EncodeFormat(params) ++ EncodeEffort(params)

-----------------------------------------------------------------------------
(* Encoding: content *)

ChatOmitted(b) == <<[type |-> "text", text |-> AttachmentOmitted]
                    ++ Keep(b, {"tag"})>>

(* encodeContent and encodeMediaPart: an image without its bytes or a URL  *)
(* is left out; other media go by file id, by value, or described.         *)
EncodeChatMedia(b) ==
    CASE b.type = "image" /\ ~HasPayload(b) -> <<>>
      [] b.type # "image" /\ ~HasPayload(b) /\ Has(b, "file") ->
            <<Keep(b, {"tag", "type", "file", "name"})>>
      [] AcceptsMedia("chat", b) /\ HasPayload(b) /\ b.kind = "png" ->
            <<Keep(b, {"tag", "type", "kind", "data", "url", "detail"})>>
      [] AcceptsMedia("chat", b) /\ Has(b, "data") /\ b.kind = "wav" ->
            <<Keep(b, {"tag", "type", "kind", "data"})>>
      [] AcceptsMedia("chat", b) /\ Has(b, "data") /\ b.kind = "pdf" ->
            <<Keep(b, {"tag", "type", "kind", "data", "name"})>>
      [] OTHER -> ChatOmitted(b)

EncodeChatPart(b) ==
    CASE b.type = "text" ->
            <<Keep(b, {"tag", "type", "text", "errorPrefix"})>>
      [] IsMedia(b) -> EncodeChatMedia(b)
      [] b.type = "opaque" ->
            IF OpaqueVerbatimFor(b, "chat") THEN <<b>> ELSE <<Error>>
      [] OTHER -> <<Error>>

EncodeChatContent(blocks) ==
    FlattenSeq([i \in DOMAIN blocks |-> EncodeChatPart(blocks[i])])

(* codec.PrefixToolResultError: without a failure flag, the text says so. *)
PrefixToolResultError(b) ==
    IF Has(b, "is_error")
    THEN <<[type |-> "text", text |-> "", errorPrefix |-> TRUE]>> \o b.content
    ELSE b.content

-----------------------------------------------------------------------------
(* Encoding: messages.  The parts of a wire message are listed in order:   *)
(* reasoning, refusal, content, calls.                                     *)

EncodeChatCall(b) ==
    Keep(b, {"tag", "type", "id", "name", "custom", "malformed"})

ChatToolMessage(b) ==
    [id |-> b.id] ++ Keep(b, {"tag"})
    ++ Message("tool", EncodeChatContent(PrefixToolResultError(b)))

EncodeChatMessage(m) ==
    LET pick(types) == SelectSeq(m.content, LAMBDA b : b.type \in types)
        results == pick({"tool_result"})
        plain   == pick({"text", "opaque"} \cup MediaTypes)
        calls   == pick({"tool_use"})
        refusal == pick({"refusal"})
        thought == SelectSeq(m.content, LAMBDA b :
                       b.type = "thinking" /\ b.text # "")
        content == EncodeChatContent(plain)
        said    == IF plain # <<>> /\ content = <<>>
                   THEN <<Text(ConversationPlaceholder)>> ELSE content
        parts   ==
            [i \in DOMAIN thought |-> Keep(thought[i], {"tag", "type", "text"})]
            \o (IF m.role = "assistant" THEN refusal ELSE <<>>)
            \o said
            \o [i \in DOMAIN calls |-> EncodeChatCall(calls[i])]
    IN [i \in DOMAIN results |-> ChatToolMessage(results[i])]
       \o IF plain \o calls \o thought \o refusal = <<>> /\ ~Has(m, "audio")
          THEN <<>>
          ELSE <<Message(m.role, parts)
                 ++ Keep(m, {"name"} \cup IF m.role = "assistant"
                                          THEN {"audio"} ELSE {})>>

(* encodeToolChoice: the original text when it came from this protocol. *)
EncodeOpenAIChoice(p, choice) ==
    CASE Get(choice, "raw", "none") = p /\ Has(choice, "rawName") ->
            [mode |-> "tool", name |-> choice.rawName]
      [] Get(choice, "raw", "none") = p /\ ~Has(choice, "rawName") ->
            Keep(choice, {"mode"})
      [] Get(choice, "raw", "none") # p
         /\ choice.mode \in {"auto", "any", "none", "tool"} ->
            Keep(choice, {"mode", "name"})
      [] OTHER -> NoChoice

EncodeChat(req) ==
    [params   |-> EncodeChatParams(req.params),
     tools    |-> [i \in DOMAIN req.tools |->
                      Keep(req.tools[i], {"name", "schema", "strict"})],
     choice   |-> EncodeOpenAIChoice("chat", req.choice),
     system   |-> EncodeChatContent(req.system),
     messages |-> FlattenSeq([i \in DOMAIN req.messages |->
                                 EncodeChatMessage(req.messages[i])])]
=============================================================================
