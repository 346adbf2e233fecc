---------------------------- MODULE GeminiRequest ---------------------------
(***************************************************************************)
(* The gemini request encoder (backend/codec/gemini/encode_request.go).    *)
(* Gemini is only ever a target: no client speaks it.                      *)
(***************************************************************************)
EXTENDS Shaping

-----------------------------------------------------------------------------
(* Parameters *)

(* budgetForEffort *)
GeminiBudgetFor(effort, most) ==
    CASE effort \in {"low", "minimal"} -> 2048
      [] effort \in {"high", "max"} -> IF most > 0 THEN most ELSE 24576
      [] OTHER -> 8192

EncodeGeminiThinking(params) ==
    CASE ThinkingOff(params) -> "thinking" := "off"
      [] ThinkingOn(params) ->
            ("thinking" := "on")
            ++ ("thinking_budget" :=
                  IF Get(params, "thinking_budget", 0) > 0
                  THEN params["thinking_budget"]
                  ELSE GeminiBudgetFor(Get(params, "thinking_effort", "unset"),
                                       Get(params, "max_tokens", 0)))
      [] OTHER -> << >>

(* applyResponseFormat: JSON output, constrained when there is a schema. *)
EncodeGeminiFormat(params) ==
    IF ~Has(params, "response_format") THEN << >>
    ELSE IF Has(params, "response_format.schema")
         THEN ("response_format.strict" := "strict")
              ++ Keep(params, {"response_format", "response_format.schema"})
         ELSE "response_format" := "json"

(* responseLogprobs is implied by a number of alternatives. *)
EncodeGeminiParams(params) ==
    Keep(params, {"temperature", "top_p", "top_k", "stop_sequences",
                  "max_tokens", "n", "logprobs", "top_logprobs", "seed",
                  "presence_penalty", "frequency_penalty"})
    ++ (IF Has(params, "top_logprobs") THEN "logprobs" := "yes" ELSE << >>)
    ++ EncodeGeminiThinking(params) ++ EncodeGeminiFormat(params)

-----------------------------------------------------------------------------
(* Messages.  Results of tools go first in a content of their own.         *)

GeminiOmitted(b) == <<[type |-> "text", text |-> AttachmentOmitted]
                      ++ Keep(b, {"tag"})>>

EncodeGeminiPart(b) ==
    CASE b.type \in {"text", "refusal"} ->
            <<[type |-> "text"] ++ Keep(b, {"tag", "text"})>>
      [] IsMedia(b) ->
            IF HasPayload(b) /\ AcceptsMedia("gemini", b)
            THEN <<Keep(b, {"tag", "type", "kind", "data", "url", "name"})>>
            ELSE GeminiOmitted(b)
      [] b.type = "thinking" ->
            IF b.text = "" /\ (~Has(b, "sig") \/ ForeignSignature(b, "gemini"))
            THEN <<>>
            ELSE <<Keep(b, {"tag", "type", "text"}
                           \cup IF ForeignSignature(b, "gemini") THEN {}
                                ELSE {"sig"})>>
      [] b.type = "tool_use" ->
            <<Keep(b, {"tag", "type", "id", "name"}
                      \cup IF ForeignSignature(b, "gemini") THEN {}
                           ELSE {"sig"})
              ++ (IF Has(b, "malformed") THEN [rewrapped |-> TRUE]
                                         ELSE << >>)>>
      [] b.type = "opaque" -> <<Error>>
      [] OTHER -> <<>>

(* Only the text of a result survives, under "error" or "output". *)
EncodeGeminiResult(b) ==
    <<[content |-> SelectSeq(b.content, LAMBDA c : c.type = "text")]
      ++ Keep(b, {"tag", "type", "id", "is_error"})>>

EncodeGeminiMessage(m) ==
    LET results == SelectSeq(m.content, LAMBDA b : b.type = "tool_result")
        others  == SelectSeq(m.content, LAMBDA b : b.type # "tool_result")
        answers == FlattenSeq([i \in DOMAIN results |->
                                  EncodeGeminiResult(results[i])])
        parts   == FlattenSeq([i \in DOMAIN others |->
                                  EncodeGeminiPart(others[i])])
    IN (IF answers # <<>> THEN <<Message("user", answers)>> ELSE <<>>)
       \o (IF parts # <<>> THEN <<Message(m.role, parts)>> ELSE <<>>)

EncodeGeminiChoice(choice) ==
    IF choice.mode \in {"auto", "any", "none", "tool"}
    THEN Keep(choice, {"mode", "name"}) ELSE NoChoice

EncodeGemini(req) ==
    [params   |-> EncodeGeminiParams(req.params),
     tools    |-> [i \in DOMAIN req.tools |->
                      Keep(req.tools[i], {"name", "schema"})],
     choice   |-> EncodeGeminiChoice(req.choice),
     system   |-> SelectSeq(req.system, LAMBDA b : b.type = "text"),
     messages |-> FlattenSeq([i \in DOMAIN req.messages |->
                                 EncodeGeminiMessage(req.messages[i])])]
=============================================================================
