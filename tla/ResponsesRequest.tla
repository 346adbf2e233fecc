-------------------------- MODULE ResponsesRequest --------------------------
(***************************************************************************)
(* The responses request codec: backend/codec/responses/decode_request.go  *)
(* and encode_request.go.                                                  *)
(*                                                                         *)
(* Where the other protocols have messages, this one has items:            *)
(*   [item |-> "message", role, content] with optional id and phase        *)
(*   [item |-> "call" | "output" | "reasoning" | "opaque", block |-> b]    *)
(* A client's body is decoded from items and an upstream's is encoded      *)
(* into them.                                                              *)
(***************************************************************************)
EXTENDS ChatRequest

MessageItem(role, content) ==
    [item |-> "message", role |-> role, content |-> content]
BlockItem(kind, b) == [item |-> kind, block |-> b]

-----------------------------------------------------------------------------
(* Decoding: parameters *)

(* statefulFields: conversation state kept by the upstream is refused. *)
StatefulDims ==
    {"previous_response_id", "conversation", "context_management", "prompt"}

SameInResponses ==
    {"temperature", "top_p", "include", "background", "store", "truncation",
     "max_tool_calls", "access_programs", "include_obfuscation", "metadata",
     "service_tier", "prompt_cache_key", "safety_identifier", "moderation",
     "prompt_cache_options", "prompt_cache_retention",
     "parallel_tool_calls", "top_logprobs", "verbosity"}

(* reasoning: no effort leaves thinking to the upstream, "none" turns it   *)
(* off.  generate_summary is the old name of summary.                      *)
DecodeReasoning(raw) ==
    LET effort == Get(raw, "reasoning_effort", "unset") IN
    (CASE effort = "unset" -> << >>
       [] effort = "none" -> "thinking" := "off"
       [] OTHER -> ("thinking" := "on") ++ ("thinking_effort" := effort))
    ++ (IF {"summary", "generate_summary"} \cap DOMAIN raw = {} THEN << >>
        ELSE "reasoning_summary_preference" :=
                 Get(raw, "summary", Get(raw, "generate_summary", "none")))
    ++ Keep(raw, {"reasoning_context_scope", "reasoning_mode"})

DecodeResponsesParams(raw) ==
    Keep(raw, SameInResponses)
    ++ (IF Has(raw, "max_output_tokens")
        THEN "max_tokens" := raw["max_output_tokens"] ELSE << >>)
    ++ (IF Has(raw, "user") THEN "user_id" := raw["user"] ELSE << >>)
    ++ DecodeReasoning(raw) ++ DecodeFormat(raw)

(* A choice of a named function or custom tool keeps its original text; a  *)
(* choice of a hosted tool is nothing but its original text.               *)
DecodeResponsesChoice(raw) ==
    CASE raw.mode \in {"function", "custom"} ->
            [mode |-> "tool", name |-> raw.name, rawName |-> raw.name,
             raw |-> "responses"]
      [] raw.mode = "typed" -> [mode |-> "typed", raw |-> "responses"]
      [] OTHER -> raw

-----------------------------------------------------------------------------
(* Decoding: items *)

(* appendBlocks: neighbours of one role share a message, whose id is the   *)
(* last one given; the phase of an assistant item likewise.                *)
AppendBlocks(req, role, blocks, marks) ==
    LET n == Len(req.messages) IN
    CASE blocks = <<>> -> req
      [] blocks # <<>> /\ n > 0 /\ req.messages[n].role = role ->
            [req EXCEPT !.messages[n] =
                marks ++ [@ EXCEPT !.content = @ \o blocks]]
      [] OTHER ->
            [req EXCEPT !.messages = Append(@, Message(role, blocks) ++ marks)]

(* decodeToolCallOutput: an empty output is an empty text. *)
DecodeOutput(b) ==
    AdoptToolResultError(
        [b EXCEPT !.content = IF @ = <<>> THEN <<Text("")>>
                              ELSE DecodeParts("responses", @)])

AppendItem(req, it) ==
    LET content == DecodeParts("responses", it.content) IN
    CASE it.item = "message" /\ it.role \in {"system", "developer"} ->
            [req EXCEPT !.system = @ \o content]
      [] it.item = "message" /\ it.role = "assistant" ->
            AppendBlocks(req, "assistant", content, Keep(it, {"id", "phase"}))
      [] it.item = "message" /\ it.role = "user" ->
            AppendBlocks(req, "user", content, Keep(it, {"id"}))
      [] it.item = "call" -> AppendBlocks(req, "assistant", <<it.block>>, << >>)
      [] it.item = "output" ->
            AppendBlocks(req, "user", <<DecodeOutput(it.block)>>, << >>)
      [] it.item = "reasoning" ->
            IF it.block.text = "" /\ ~Has(it.block, "sig") THEN req
            ELSE AppendBlocks(req, "assistant", <<it.block>>, << >>)
      [] it.item = "opaque" ->
            AppendBlocks(req, "assistant",
                         <<[from |-> "responses", whole |-> TRUE] ++ it.block>>,
                         << >>)

(* instructions are the first system text. *)
DecodeResponses(raw) ==
    FoldLeft(AppendItem,
             [params |-> DecodeResponsesParams(raw.params),
              tools  |-> DecodeChatTools(raw.tools),
              choice |-> DecodeResponsesChoice(raw.choice),
              system |-> raw.system, messages |-> <<>>],
             raw.messages)

-----------------------------------------------------------------------------
(* Encoding: parameters *)

(* Nothing is stored upstream, so the reasoning of later turns has to be   *)
(* asked for in full; a summary has to be asked for to be seen at all.     *)
EncodeReasoning(params) ==
    LET scope == Keep(params, {"reasoning_context_scope", "reasoning_mode"})
    IN CASE ThinkingOn(params) ->
              scope ++ EncodeEffort(params)
              ++ ("reasoning_summary_preference" :=
                    Get(params, "reasoning_summary_preference", "auto"))
         [] ThinkingOff(params) -> scope ++ ("thinking" := "off")
         [] OTHER -> scope ++ Keep(params, {"reasoning_summary_preference"})

WithIncluded(params) ==
    LET asked == Get(params, "include", {})
                 \cup (IF ThinkingOn(params)
                       THEN {"reasoning.encrypted_content"} ELSE {})
    IN IF asked = {} THEN << >> ELSE "include" := asked

(* There is no logprobs switch: a number of alternatives stands for it. *)
EncodeTopLogprobs(params) ==
    CASE Has(params, "top_logprobs") -> Keep(params, {"top_logprobs"})
      [] ~Has(params, "top_logprobs") /\ Get(params, "logprobs", "no") = "yes" ->
            "top_logprobs" := 1
      [] OTHER -> << >>

EncodeResponsesParams(params) ==
    LET tier == MapServiceTier("responses", Get(params, "service_tier", "auto"))
    IN Keep(params, {"temperature", "top_p", "max_tokens", "truncation",
                     "max_tool_calls", "access_programs",
                     "include_obfuscation", "metadata", "prompt_cache_key",
                     "safety_identifier", "moderation",
                     "prompt_cache_options", "prompt_cache_retention",
                     "parallel_tool_calls", "verbosity", "user_id"})
       ++ (IF Has(params, "service_tier") /\ tier # NoTier
           THEN "service_tier" := tier ELSE << >>)
       ++ WithIncluded(params) ++ EncodeTopLogprobs(params)
       ++ EncodeFormat(params) ++ EncodeReasoning(params)

-----------------------------------------------------------------------------
(* Encoding: messages *)

(* encodeImagePart sends whatever names an image, of any type; other media *)
(* as the chat protocol does.                                              *)
EncodeResponsesMedia(b) ==
    CASE b.type = "image" /\ (HasPayload(b) \/ Has(b, "file")) ->
            <<Keep(b, {"tag", "type", "kind", "data", "url", "file",
                       "detail"})>>
      [] b.type = "image" /\ ~(HasPayload(b) \/ Has(b, "file")) -> <<>>
      [] OTHER -> EncodeChatMedia(b)

EncodeResponsesPart(b) ==
    CASE b.type \in {"text", "refusal"} -> <<Keep(b, {"tag", "type", "text"})>>
      [] IsMedia(b) -> EncodeResponsesMedia(b)
      [] b.type = "opaque" ->
            IF OpaqueVerbatimFor(b, "responses") THEN <<b>> ELSE <<Error>>

(* Outputs are one string, so only texts are left of them. *)
EncodeResponsesOutput(b) ==
    BlockItem("output",
        [content |-> SelectSeq(PrefixToolResultError(b),
                               LAMBDA c : c.type = "text")]
        ++ Keep(b, {"tag", "type", "id", "custom"}))

EncodeResponsesThought(b) ==
    BlockItem("reasoning",
        Keep(b, {"tag", "type", "text", "item", "channel"}
                \cup IF ForeignSignature(b, "responses") THEN {}
                     ELSE {"sig", "codex"}))

EncodeResponsesCall(b) ==
    BlockItem("call", Keep(b, {"tag", "type", "id", "name", "custom", "item",
                               "respCaller", "malformed"}))

(* encodeMessage: outputs and whole opaque items in place, then reasoning, *)
(* then one message, then the calls.                                       *)
EncodeResponsesMessage(m) ==
    LET pick(Test(_)) == SelectSeq(m.content, Test)
        whole(b)   == b.type = "tool_result"
                      \/ (b.type = "opaque" /\ Has(b, "whole"))
        part(b)    == b.type \in {"text", "refusal"} \cup MediaTypes
                      \/ (b.type = "opaque" /\ ~Has(b, "whole"))
        wholes     == pick(whole)
        placed     == [i \in DOMAIN wholes |->
                          IF wholes[i].type = "tool_result"
                          THEN EncodeResponsesOutput(wholes[i])
                          ELSE IF OpaqueVerbatimFor(wholes[i], "responses")
                               THEN BlockItem("opaque", wholes[i])
                               ELSE BlockItem("opaque", Error)]
        thoughts   == pick(LAMBDA b : b.type = "thinking" /\ ~Has(b, "redacted"))
        reasoning  == [i \in DOMAIN thoughts |->
                          EncodeResponsesThought(thoughts[i])]
        found      == pick(part)
        parts      == FlattenSeq([i \in DOMAIN found |->
                                    EncodeResponsesPart(found[i])])
        calls      == pick(LAMBDA b : b.type = "tool_use")
        called     == [i \in DOMAIN calls |-> EncodeResponsesCall(calls[i])]
        say(content) == <<MessageItem(m.role, content)
                          ++ Keep(m, {"id", "phase"})>>
        items      == placed \o reasoning
                      \o (IF parts # <<>> THEN say(parts) ELSE <<>>) \o called
    IN IF items = <<>> /\ m.content # <<>>
       THEN say(<<Text(ConversationPlaceholder)>>) ELSE items

EncodeResponses(req) ==
    [params   |-> EncodeResponsesParams(req.params),
     tools    |-> [i \in DOMAIN req.tools |->
                      Keep(req.tools[i], {"name", "schema", "strict"})],
     choice   |-> EncodeOpenAIChoice("responses", req.choice),
     system   |-> SelectSeq(req.system, LAMBDA b : b.type = "text"),
     messages |-> FlattenSeq([i \in DOMAIN req.messages |->
                                 EncodeResponsesMessage(req.messages[i])])]
=============================================================================
