------------------------------ MODULE Requests ------------------------------
(***************************************************************************)
(* The vocabulary of the request path: what the neutral request can        *)
(* express (backend/ir/types.go) and what each protocol declares it can    *)
(* carry (Capabilities in backend/codec/codec.go and the four Caps         *)
(* methods).                                                               *)
(*                                                                         *)
(* A request is a record                                                   *)
(*   params    a partial function from dimension to value: a dimension     *)
(*             that is not in its domain was not given.  Nested            *)
(*             configuration (thinking, response_format) is flattened, and *)
(*             dimensions have the names the loss notes use                *)
(*   tools     the declarations, in order                                  *)
(*   choice    the tool choice, or NoChoice                                *)
(*   system    blocks                                                      *)
(*   messages  records with role and content, and optional identity fields *)
(* Messages, blocks and tools are records whose optional fields are        *)
(* present exactly when they were given.                                   *)
(***************************************************************************)
EXTENDS Integers, SequencesExt, FiniteSets

Protocols == {"anthropic", "chat", "responses", "gemini"}

(* The protocols a client may speak: gemini has no inbound codec. *)
Clients == {"anthropic", "chat", "responses"}

Has(x, field) == field \in DOMAIN x

(* The value of an optional field, or a default. *)
Get(x, field, default) == IF Has(x, field) THEN x[field] ELSE default

(* One dimension with its value, and a partial function with what another  *)
(* one adds to it: where both have a value, the left one stands.           *)
d := v == [x \in {d} |-> v]
f ++ g ==
    [x \in DOMAIN f \cup DOMAIN g |-> IF x \in DOMAIN f THEN f[x] ELSE g[x]]

(* A partial function with only, or without, some of its domain. *)
Keep(x, fields) == Restrict(x, DOMAIN x \cap fields)
Without(f, dims) == Restrict(f, DOMAIN f \ dims)

(* The elements of a sequence that pass a test. *)
Filter(s, Test(_)) ==
    FoldLeft(LAMBDA kept, x : IF Test(x) THEN Append(kept, x) ELSE kept,
             <<>>, s)

-----------------------------------------------------------------------------
(* Messages and blocks *)

Message(role, content) == [role |-> role, content |-> content]
Text(t) == [type |-> "text", text |-> t]
ToolUse(id, name) == [type |-> "tool_use", id |-> id, name |-> name]
ToolResult(id, content) ==
    [type |-> "tool_result", id |-> id, content |-> content]

MediaTypes == {"image", "audio", "document", "file"}
ServerToolTypes == {"server_tool_use", "web_search_tool_result"}

IsMedia(b) == b.type \in MediaTypes

(* codec.MediaKindFor: the type of block a media type belongs to. *)
MediaKindFor(kind) == CASE kind \in {"png", "bmp"}  -> "image"
                        [] kind \in {"wav", "flac"} -> "audio"
                        [] kind = "pdf"             -> "document"
                        [] OTHER                    -> "file"

(* Media.HasPayload: inlined bytes or a URL; a file id alone is neither. *)
HasPayload(b) == Has(b, "data") \/ Has(b, "url")

Error == [type |-> "error"]

(* The opaque block can be repeated: its body came from the same protocol. *)
OpaqueVerbatimFor(b, p) == b.from = p

(* codec.ForeignSignature: "sig" is the protocol the signature is said to  *)
(* come from, "codex" marks the ciphertext only responses can have made.   *)
PrefixSaysForeign(b, p) == Has(b, "codex") /\ p # "responses"

ForeignSignature(b, p) == Has(b, "sig") /\ (PrefixSaysForeign(b, p) \/ b.sig # p)

(* Every block of a request, at the top level of the system prompt and of  *)
(* the messages.                                                           *)
TopBlocks(req) ==
    req.system \o FlattenSeq([i \in DOMAIN req.messages |->
                                req.messages[i].content])

-----------------------------------------------------------------------------
(* Tool choice *)

NoChoice == [mode |-> "absent"]

(* forcedToolChoice: the model must call some tool. *)
Forced(choice) == choice.mode \in {"any", "tool"}

AllowlistApplies(choice) ==
    choice.mode \in {"auto", "any"} /\ Get(choice, "allowed", {}) # {}

(* Request.AllowlistNarrow: server tools stay; when no name of the list is *)
(* declared the list cannot be enforced.                                   *)
AllowlistMatches(req) ==
    AllowlistApplies(req.choice)
    /\ \E i \in DOMAIN req.tools :
          ~Has(req.tools[i], "server")
          /\ req.tools[i].name \in req.choice.allowed

AllowlistNarrow(req) ==
    Filter(req.tools,
           LAMBDA t : Has(t, "server") \/ t.name \in req.choice.allowed)

-----------------------------------------------------------------------------
(* Thinking: the dimensions of one ThinkingConfig, which live and die      *)
(* together when shaping removes the configuration.                        *)

ThinkingDims ==
    {"thinking", "thinking_budget", "thinking_effort", "adaptive_thinking",
     "thinking_display_preference", "reasoning_summary_preference",
     "reasoning_context_scope", "reasoning_mode"}

ThinkingOn(params) == Get(params, "thinking", "unset") = "on"
ThinkingOff(params) == Get(params, "thinking", "unset") = "off"

FormatDims ==
    {"response_format", "response_format.schema", "response_format.name",
     "response_format.description", "response_format.strict"}

-----------------------------------------------------------------------------
(* Capabilities.  "can" holds the names of the switches that are true.     *)

AnthropicCaps ==
    [can |-> {"Thinking", "ThinkingSig", "Tools", "ToolInputObject",
              "ToolStrict", "Images", "ImageFileRef", "CacheControl", "TopK",
              "StopSequences", "ThinkingExcludesSampling",
              "ThinkingExcludesForcedTools", "ServerTools",
              "ToolResultError", "Citations", "ResponseSchema",
              "RequiresMaxTokens", "ServiceTier", "SafetyIdentifier",
              "ParallelToolCalls", "NonImageMediaURL"},
     media |-> {"png", "pdf"}, DefaultMaxTokens |-> 4096,
     MinThinkingBudget |-> 1024, CacheBreakpoints |-> 4,
     MaxStopSequences |-> 0, MaxTemperature |-> 10]

ChatCaps ==
    [can |-> {"Thinking", "Tools", "ToolResultTextOnly", "ToolStrict",
              "Images", "StopSequences", "Penalties", "Seed", "Candidates",
              "LogProbs", "Verbosity", "SafetyIdentifier", "Moderation",
              "PromptCacheOptions", "PromptCacheRetention",
              "StreamObfuscation", "ClientMetadata", "ImageDetail",
              "NativeFileRef", "LogitBias", "ServiceTier",
              "PromptCacheKey", "ParallelToolCalls", "ResponseFormat",
              "ResponseSchema", "Citations", "Refusal"},
     media |-> {"png", "wav", "pdf"}, DefaultMaxTokens |-> 0,
     MinThinkingBudget |-> 0, CacheBreakpoints |-> 0,
     MaxStopSequences |-> 4, MaxTemperature |-> 0]

ResponsesCaps ==
    [can |-> {"Thinking", "ThinkingSig", "Tools", "ToolResultTextOnly",
              "ToolStrict", "Images", "SystemAsText", "ServiceTier",
              "PromptCacheKey", "ParallelToolCalls", "SafetyIdentifier",
              "Moderation", "PromptCacheOptions", "PromptCacheRetention",
              "ResponseFormat", "ResponseSchema", "Verbosity", "Include",
              "Background", "Truncation", "MaxToolCalls",
              "StreamObfuscation", "ClientMetadata", "Citations",
              "Refusal", "LogProbs", "LogProbsViaTopN", "ImageDetail",
              "ImageFileRef", "NativeFileRef"},
     media |-> {"png", "wav", "pdf"}, DefaultMaxTokens |-> 0,
     MinThinkingBudget |-> 0, CacheBreakpoints |-> 0,
     MaxStopSequences |-> 0, MaxTemperature |-> 0]

GeminiCaps ==
    [can |-> {"Thinking", "ThinkingSig", "ToolCallSig", "Tools",
              "ToolInputObject", "Images", "TopK", "StopSequences",
              "ToolResultError", "ToolResultTextOnly", "SystemAsText",
              "Candidates", "LogProbs", "ResponseFormat",
              "ResponseSchema", "Seed", "Penalties", "ToolIDOptional",
              "NonImageMediaURL", "ImageFilename", "SchemaDialect"},
     media |-> {"png", "wav", "flac", "pdf", "mp4"}, DefaultMaxTokens |-> 0,
     MinThinkingBudget |-> 0, CacheBreakpoints |-> 0,
     MaxStopSequences |-> 5, MaxTemperature |-> 0]

Caps(p) == CASE p = "anthropic" -> AnthropicCaps
             [] p = "chat"      -> ChatCaps
             [] p = "responses" -> ResponsesCaps
             [] p = "gemini"    -> GeminiCaps

Can(p, switch) == switch \in Caps(p).can

(* Capabilities.AcceptsMedia after SniffMediaType: "kind" is the media     *)
(* type found, and a reference whose type cannot be told has none.         *)
AcceptsMedia(p, b) == Can(p, "Images") /\ Get(b, "kind", "unknown") \in Caps(p).media

(* codec.MaxTokensFor: the bound the encoder sends, 0 for none. *)
MaxTokensFor(p, params) ==
    Get(params, "max_tokens",
        IF Can(p, "RequiresMaxTokens") THEN Caps(p).DefaultMaxTokens ELSE 0)

NoTier == "no_tier"

(* codec.MapServiceTier: the target's name of a tier, NoTier when its set  *)
(* has no equivalent.                                                      *)
MapServiceTier(p, tier) ==
    CASE tier = "auto" -> tier
      [] p = "anthropic" ->
           IF tier \in {"standard_only", "default"}
           THEN "standard_only" ELSE NoTier
      [] p \in {"chat", "responses"} /\ tier = "standard_only" -> "default"
      [] p = "chat" /\ tier = "ultrafast" -> NoTier
      [] OTHER -> tier

-----------------------------------------------------------------------------
(* Loss notes are <<verb, field>>; the wording is left out.                *)

Dropped(field)    == <<"dropped", field>>
Rewrote(field)    == <<"rewrote", field>>
Filled(field)     == <<"filled", field>>
Unreturned(field) == <<"unreturned", field>>

(* A note that is there exactly when a condition holds. *)
When(condition, note) == IF condition THEN {note} ELSE {}
=============================================================================
