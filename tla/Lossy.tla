-------------------------------- MODULE Lossy -------------------------------
(***************************************************************************)
(* codec.DescribeLossy (backend/codec/lossy.go): what the client is told   *)
(* the target cannot express.  It reads the request as it was before       *)
(* shaping, so it must know by itself what shaping and encoding will do.   *)
(*                                                                         *)
(* A note is <<verb, field>>; the field is named after the dimension of    *)
(* Requests it is about, or after the kind of block.                       *)
(***************************************************************************)
EXTENDS Shaping

OpenAI == {"chat", "responses"}

(* The blocks of the system prompt, of the messages and in tool results. *)
AllBlocks(req) ==
    LET top == TopBlocks(req)
    IN FlattenSeq([i \in DOMAIN top |-> <<top[i]>> \o Nested(top[i])])

BlockSet(req) == ToSet(AllBlocks(req))
TopSet(req) == ToSet(TopBlocks(req))
ToolSet(req) == ToSet(req.tools)

AnyMessage(req, field) ==
    \E i \in DOMAIN req.messages : Has(req.messages[i], field)

-----------------------------------------------------------------------------
(* Tools, and what can be wrong with their history *)

ToolNotes(p, req) ==
    UNION {
      When(~Can(p, "ToolStrict") /\ (\E t \in ToolSet(req) : Has(t, "strict")),
           Dropped("strict_flag")),
      When(p # "anthropic" /\ (\E t \in ToolSet(req) : Has(t, "modifiers")),
           Dropped("tool_modifiers")),
      When(~Can(p, "CacheControl") /\ (\E t \in ToolSet(req) : Has(t, "cache")),
           Dropped("tool_cache_breakpoints")),
      When(~Can(p, "ToolResultError")
           /\ (\E b \in TopSet(req) : b.type = "tool_result" /\ Has(b, "is_error")),
           Rewrote("tool_result.is_error"))}

(* Arguments that are not a JSON object: an upstream that wants an object  *)
(* gets them wrapped, another gets them as they are.                       *)
ArgumentNotes(p, req) ==
    When(\E b \in TopSet(req) : b.type = "tool_use" /\ Has(b, "malformed"),
         <<IF Can(p, "ToolInputObject") THEN "rewrapped" ELSE "passed_through",
           "tool_arguments">>)

-----------------------------------------------------------------------------
(* describeParamsLossy *)

(* A dimension that one switch of the target decides about. *)
SamplingSwitch ==
    ("presence_penalty"       := "Penalties")
    ++ ("frequency_penalty"   := "Penalties")
    ++ ("seed"                := "Seed")
    ++ ("n"                   := "Candidates")
    ++ ("top_k"               := "TopK")
    ++ ("stop_sequences"      := "StopSequences")
    ++ ("logit_bias"          := "LogitBias")

ServiceSwitch ==
    ("service_tier"           := "ServiceTier")
    ++ ("prompt_cache_key"    := "PromptCacheKey")
    ++ ("safety_identifier"   := "SafetyIdentifier")
    ++ ("moderation"          := "Moderation")
    ++ ("prompt_cache_options"   := "PromptCacheOptions")
    ++ ("prompt_cache_retention" := "PromptCacheRetention")
    ++ ("metadata"            := "ClientMetadata")

AnswerSwitch ==
    ("parallel_tool_calls"    := "ParallelToolCalls")
    ++ ("verbosity"           := "Verbosity")
    ++ ("include"             := "Include")
    ++ ("truncation"          := "Truncation")
    ++ ("max_tool_calls"      := "MaxToolCalls")
    ++ ("include_obfuscation" := "StreamObfuscation")
    ++ ("top_logprobs"        := "LogProbs")

Switch == SamplingSwitch ++ ServiceSwitch ++ AnswerSwitch

SwitchNotes(p, params) ==
    {Dropped(d) : d \in {e \in DOMAIN params \cap DOMAIN Switch :
                            ~Can(p, Switch[e])}}

LogprobsNotes(p, params) ==
    LET wanted == Get(params, "logprobs", "no") = "yes" IN
    When(~Can(p, "LogProbs") /\ wanted, Dropped("logprobs"))
    \cup When(Can(p, "LogProbs") /\ (wanted \/ Has(params, "top_logprobs")),
              Unreturned("logprobs"))

(* Fields with a value the target's set does not have, or whose slot is    *)
(* already taken.                                                          *)
TierNotes(p, params) ==
    When(Has(params, "service_tier") /\ Can(p, "ServiceTier")
         /\ MapServiceTier(p, Get(params, "service_tier", "auto")) = NoTier,
         Dropped("service_tier"))

(* Mutant: nobody notices that the one slot is taken. *)
IdentityNotesApart(p, params) ==
    When(p = "gemini" /\ Has(params, "user_id"), Dropped("user_id"))

IdentityNotes(p, params) ==
    When(p = "anthropic" /\ {"safety_identifier", "user_id"} \subseteq DOMAIN params,
         Dropped("safety_identifier"))
    \cup When(p = "gemini" /\ Has(params, "user_id"), Dropped("user_id"))

FormatNotes(p, params) ==
    LET schema == Get(params, "response_format", "absent") = "schema"
        bare   == ~Has(params, "response_format.schema")
    IN IF ~Has(params, "response_format") THEN {}
       ELSE UNION {
         When(schema /\ Can(p, "ResponseSchema") /\ bare
              /\ ~Can(p, "ResponseFormat"), Dropped("response_format")),
         When(schema /\ ~Can(p, "ResponseSchema"),
              Dropped(IF Can(p, "ResponseFormat") THEN "response_format.schema"
                      ELSE "response_format")),
         When(~schema /\ ~Can(p, "ResponseFormat"), Dropped("response_format")),
         When(p \notin OpenAI /\ Has(params, "response_format.description"),
              Dropped("response_format.description")),
         When(p \notin OpenAI
              /\ Get(params, "response_format.strict", "strict") = "lenient",
              Dropped("response_format.strict")),
         When(p \notin OpenAI /\ Has(params, "response_format.name"),
              Dropped("response_format.name"))}

ParamNotes(p, params) ==
    UNION {SwitchNotes(p, params), LogprobsNotes(p, params),
           TierNotes(p, params), IdentityNotes(p, params),
           FormatNotes(p, params),
           When(Get(params, "background", "no") = "yes", Dropped("background")),
           When(Get(params, "store", "no") = "yes", Dropped("store")),
           When(~Has(params, "max_tokens") /\ Can(p, "RequiresMaxTokens"),
                Filled("max_tokens"))}

-----------------------------------------------------------------------------
(* Dimensions only one protocol has *)

OnlyIn ==
    ("inference_geo"         := "anthropic")
    ++ ("container"          := "anthropic")
    ++ ("mcp_servers"        := "anthropic")
    ++ ("context_management" := "anthropic")
    ++ ("diagnostics"        := "anthropic")
    ++ ("access_programs"    := "responses")
    ++ ("prediction"         := "chat")
    ++ ("web_search_options" := "chat")

(* An empty JSON container asks for nothing (jsonContainerEmpty), in the   *)
(* four dimensions where DescribeLossy looks for one.                      *)
Containers == {"mcp_servers", "context_management", "diagnostics", "access_programs"}

Void(d, v) == d \in Containers /\ v = "empty"

OnlyInNotes(p, params) ==
    {Dropped(d) : d \in {e \in DOMAIN params \cap DOMAIN OnlyIn :
                            ~Void(e, params[e]) /\ OnlyIn[e] # p}}
    \cup When(Has(params, "cache_control") /\ ~Can(p, "CacheControl"),
              Dropped("cache_control"))

AudioOutNotes(p, params) ==
    IF p = "chat"
    THEN When(~(Get(params, "modalities", {}) \subseteq {"text", "audio"}),
              Dropped("modalities"))
    ELSE When({"modalities", "audio"} \cap DOMAIN params # {},
              Dropped("modalities/audio"))

ChoiceNotes(p, req) ==
    When(req.choice.mode = "typed" /\ p # "responses", Dropped("tool_choice"))

-----------------------------------------------------------------------------
(* describeThinkingModernLossy *)

(* Whether thinking is still there after shaping: the conditions are those *)
(* of shapeParams, over the request before shaping.                        *)
ThinkingSurvivesShaping(p, req) ==
    /\ ThinkingOn(req.params) /\ Can(p, "Thinking")
    /\ ~(Can(p, "ThinkingExcludesForcedTools") /\ Forced(req.choice))
    /\ ~NoRoomToThink(p, req.params)

DepthNotes(p, req) ==
    LET params == req.params
        budget == Get(params, "thinking_budget", 0) > 0
    IN UNION {
      When(ThinkingOn(params) /\ ~Has(params, "thinking_effort")
           /\ p \in OpenAI /\ budget, Rewrote("thinking_budget")),
      When(ThinkingOn(params) /\ ~Has(params, "thinking_effort")
           /\ p \in OpenAI /\ ~budget, Filled("thinking_effort")),
      When(~budget
           /\ (p = "gemini"
               \/ (p = "anthropic" /\ ~Has(params, "adaptive_thinking")))
           /\ ThinkingSurvivesShaping(p, req), Filled("thinking_budget"))}

(* Settings of thinking only one protocol has, and efforts anthropic's set *)
(* does not.                                                               *)
ThinkingNotes(p, req) ==
    LET params == req.params
        only(dims) == {Dropped(d) : d \in dims \cap DOMAIN params}
        effort == Get(params, "thinking_effort", "low")
    IN UNION {
      DepthNotes(p, req),
      IF p = "responses" THEN {}
      ELSE only({"reasoning_summary_preference", "reasoning_context_scope",
                 "reasoning_mode"}),
      IF p = "anthropic" THEN {}
      ELSE only({"adaptive_thinking", "thinking_display_preference"}),
      When(p = "anthropic"
           /\ effort \notin {"none", "low", "medium", "high", "xhigh", "max"},
           Dropped("thinking_effort"))}

-----------------------------------------------------------------------------
(* describeBlocksLossy *)

ThoughtNotes(p, b) ==
    LET shell == p = "anthropic" /\ b.text = ""
                 /\ (~Has(b, "sig") \/ ForeignSignature(b, p))
    IN IF Has(b, "redacted")
       THEN When(p # "anthropic" \/ ~Has(b, "ciphertext"),
                 Dropped("redacted_thinking"))
       ELSE When(shell, Dropped("empty_thinking_blocks"))
            \cup When(~shell /\ Has(b, "sig")
                      /\ (~Can(p, "ThinkingSig") \/ ForeignSignature(b, p)),
                      Dropped("thinking_signature"))

(* imageDelivered: an image reaches the upstream as an image. *)
ImageDelivered(p, b) ==
    /\ HasPayload(b) \/ Has(b, "file")
    /\ AcceptsMedia(p, b) \/ Has(b, "file")
    /\ HasPayload(b) \/ Can(p, "ImageFileRef")

(* describeImageLossy *)
ImageNotes(p, b) ==
    LET named == HasPayload(b) \/ Has(b, "file")
        shown == named /\ (AcceptsMedia(p, b) \/ Has(b, "file"))
    IN UNION {
      When(~named, Dropped("image_payload")),
      When(shown /\ Has(b, "detail") /\ ~Can(p, "ImageDetail")
           /\ ImageDelivered(p, b), Dropped("image_detail")),
      When(shown /\ Has(b, "name") /\ HasPayload(b)
           /\ ~Can(p, "ImageFilename"), Dropped("image_filename")),
      When(shown /\ ~HasPayload(b) /\ ~Can(p, "ImageFileRef"),
           Dropped("image_file_reference")),
      When(p # "anthropic" /\ Has(b, "oversized") /\ ImageDelivered(p, b),
           Dropped("image_transformations"))}

(* Mutant: only a general place for files counts. *)
FileDeliverableAnywhere(p, b) == Has(b, "file") /\ Can(p, "NativeFileRef")

(* Media of other types without a payload need a slot for their file id. *)
FileDeliverable(p, b) ==
    /\ Has(b, "file")
    /\ Can(p, "NativeFileRef") \/ (p = "anthropic" /\ b.type = "document")

MediaNotes(p, b) ==
    LET lost == Dropped(b.type \o "_blocks") IN
    (IF b.type = "image" THEN ImageNotes(p, b) ELSE {})
    \cup IF b.type # "image" /\ ~HasPayload(b)
         THEN When(~FileDeliverable(p, b), lost)
         ELSE When(HasPayload(b) /\ ~AcceptsMedia(p, b), lost)
              \cup When(b.type # "image" /\ ~Has(b, "data") /\ Has(b, "url")
                        /\ AcceptsMedia(p, b) /\ ~Can(p, "NonImageMediaURL"),
                        lost)

(* Marks of where a call or a result came from. *)
ProvenanceNotes(p, b) ==
    UNION {
      When(b.type = "tool_use" /\ p # "anthropic" /\ Has(b, "caller"),
           Dropped("tool_call_caller/toolset_name")),
      When(b.type = "tool_use" /\ p # "responses" /\ Has(b, "respCaller"),
           Dropped("tool_call_caller/namespace/async")),
      When(b.type = "tool_result" /\ p # "anthropic" /\ Has(b, "toolset"),
           Dropped("tool_result_toolset_name"))}

BlockNotes(p, b) ==
    When(Has(b, "cache") /\ ~Can(p, "CacheControl"), Dropped("cache_control"))
    \cup CASE b.type = "thinking" -> ThoughtNotes(p, b)
           [] IsMedia(b)          -> MediaNotes(p, b)
           [] OTHER               -> ProvenanceNotes(p, b)

-----------------------------------------------------------------------------
(* Kinds of blocks and marks that are counted over the whole request *)

(* In a tool result that becomes one string, only texts survive (media     *)
(* leave it before).                                                       *)
FlattenedResult(p, b) ==
    /\ p \in {"responses", "gemini"}
    /\ b.type = "tool_result"
    /\ \E i \in DOMAIN b.content : b.content[i].type \in {"refusal", "opaque"}

KindNotes(p, req) ==
    LET has(types) == \E b \in TopSet(req) : b.type \in types
        custom(type) == \E b \in TopSet(req) : b.type = type /\ Has(b, "custom")
    IN UNION {
      When(~Can(p, "Refusal") /\ has({"refusal"}), Rewrote("refusal_blocks")),
      When(\E b \in TopSet(req) : FlattenedResult(p, b),
           Dropped("tool_result_non-text_content")),
      When(p # "anthropic" /\ has(ServerToolTypes), Dropped("server_tool_blocks")),
      When(p # "anthropic" /\ has({"container_upload"}),
           Dropped("container_upload_blocks")),
      When(p # "anthropic"
           /\ (\E b \in BlockSet(req) : IsMedia(b) /\ Has(b, "context")),
           Dropped("document_config")),
      When(p \notin OpenAI /\ custom("tool_use"), Rewrote("custom_tool_calls")),
      When(p # "responses" /\ custom("tool_result"),
           Rewrote("custom_tool_outputs"))}

MarkNotes(p, req) ==
    UNION {
      When(p # "chat" /\ AnyMessage(req, "name"), Dropped("message_sender_name")),
      When(p # "chat" /\ AnyMessage(req, "audio"),
           Dropped("assistant_audio_references")),
      When(p # "responses"
           /\ (AnyMessage(req, "id") \/ (\E b \in TopSet(req) : Has(b, "item"))),
           Dropped("item_id")),
      When(p # "responses" /\ AnyMessage(req, "phase"), Dropped("message_phase")),
      When(p # "responses"
           /\ (\E b \in TopSet(req) : b.type = "thinking" /\ Has(b, "channel")),
           Dropped("reasoning_channel"))}

-----------------------------------------------------------------------------

DescribeLossy(p, req) ==
    LET blocks == AllBlocks(req)
        about  == UNION {BlockNotes(p, blocks[i]) : i \in DOMAIN blocks}
    IN UNION {ToolNotes(p, req), ArgumentNotes(p, req),
              ParamNotes(p, req.params), OnlyInNotes(p, req.params),
              AudioOutNotes(p, req.params), ChoiceNotes(p, req),
              ThinkingNotes(p, req), KindNotes(p, req), MarkNotes(p, req),
              about}

(* MergeNotes keeps every note of both. *)
NotesOf(p, req, shaped) == DescribeLossy(p, req) \cup shaped.notes
=============================================================================
