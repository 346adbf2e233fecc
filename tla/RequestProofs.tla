---------------------------- MODULE RequestProofs -----------------------------
(***************************************************************************)
(* Proofs about the way of a request, for every body and every target:     *)
(* what a decoder returns, what the repair leaves, that an attempt sees    *)
(* nothing of the attempts before it, and that no parameter and no tool    *)
(* is lost in silence.                                                     *)
(*                                                                         *)
(* Three parts of the code must agree for the last: the shaping of the     *)
(* copy that is sent, the encoder of each protocol, and the list of        *)
(* losses, which is made from the request as it was before shaping.        *)
(*                                                                         *)
(* Loops of the code are folds here.  What a loop keeps is proved by       *)
(* instantiating FoldFacts with the step of the loop and with what it      *)
(* keeps.                                                                  *)
(***************************************************************************)
EXTENDS RequestPath, FiniteSetTheorems, TLAPS

-----------------------------------------------------------------------------
(* Records.                                                                *)

\* A merged record takes a field from its left side where both have it.
LEMMA Merged ==
  ASSUME NEW f, NEW g, NEW x
  PROVE  /\ x \in DOMAIN (f ++ g) <=> x \in DOMAIN f \/ x \in DOMAIN g
         /\ x \in DOMAIN f => (f ++ g)[x] = f[x]
         /\ x \in DOMAIN g /\ x \notin DOMAIN f => (f ++ g)[x] = g[x]
  <1>1. x \in DOMAIN (f ++ g) <=> x \in DOMAIN f \/ x \in DOMAIN g BY DEF ++
  <1>2. x \in DOMAIN f => (f ++ g)[x] = f[x] BY DEF ++
  <1>3. x \in DOMAIN g /\ x \notin DOMAIN f => (f ++ g)[x] = g[x] BY DEF ++
  <1> QED BY <1>1, <1>2, <1>3

\* A record of one field.
LEMMA Single ==
  ASSUME NEW d, NEW v
  PROVE  /\ \A x : x \in DOMAIN (d := v) <=> x = d
         /\ (d := v)[d] = v
  BY DEF :=

\* The empty record has no fields.
LEMMA Empty ==
  ASSUME NEW x
  PROVE  x \notin DOMAIN << >>
  OBVIOUS

\* Keep keeps the fields named and their values.
LEMMA Kept ==
  ASSUME NEW f, NEW fields, NEW x
  PROVE  /\ x \in DOMAIN Keep(f, fields) <=> x \in DOMAIN f /\ x \in fields
         /\ x \in DOMAIN f /\ x \in fields => Keep(f, fields)[x] = f[x]
  BY DEF Keep, Restrict

\* Without removes the fields named and keeps the other values.
LEMMA Removed ==
  ASSUME NEW f, NEW fields, NEW x
  PROVE  /\ x \in DOMAIN Without(f, fields) <=> x \in DOMAIN f /\ x \notin fields
         /\ x \in DOMAIN f /\ x \notin fields => Without(f, fields)[x] = f[x]
  BY DEF Without, Restrict

-----------------------------------------------------------------------------
(* What a decoder makes of parameters: for every body, whatever its        *)
(* values, only known dimensions, with the values the encoders branch on.  *)

\* The dimensions that are sent when a capability allows it, in three
\* groups as Switch has them: how to sample,
SamplingDims == {"presence_penalty", "frequency_penalty", "seed", "n", "top_k",
                 "stop_sequences", "logit_bias"}

\* how to serve the request,
ServiceDims == {"service_tier", "prompt_cache_key", "safety_identifier",
                "moderation", "prompt_cache_options", "prompt_cache_retention",
                "metadata"}

\* and what the answer may be.
AnswerDims == {"parallel_tool_calls", "verbosity", "include", "truncation",
               "max_tool_calls", "include_obfuscation", "top_logprobs"}

\* All dimensions with a capability of their own.
SwitchDims == SamplingDims \cup ServiceDims \cup AnswerDims

\* The dimensions of one protocol only.
OnlyInDims == {"inference_geo", "container", "mcp_servers",
               "context_management", "diagnostics", "access_programs",
               "prediction", "web_search_options"}

\* Dimensions the codecs treat one by one.
OtherDims == {"logprobs", "user_id", "background", "store", "modalities",
              "audio", "temperature", "top_p", "max_tokens", "cache_control"}

\* Every dimension a decoder can set.
Dims == SwitchDims \cup OnlyInDims \cup ThinkingDims \cup FormatDims
        \cup OtherDims

\* A format is JSON or a schema, and only a schema has properties.
FormatFacts(f) ==
    /\ GivenIn(f, {"response_format"}, {"json", "schema"})
    /\ GivenIn(f, {"response_format.strict"}, {"strict", "lenient"})
    /\ \A d \in FormatDims \ {"response_format"} : Has(f, d) =>
          Has(f, "response_format") /\ f["response_format"] = "schema"

\* What is known of the parameters a decoder returns, whatever the body
\* was: the dimensions, and the values the encoders and the notes branch
\* on.
Understood(f) ==
    /\ \A d \in DOMAIN f : d \in Dims
    /\ GivenIn(f, {"logprobs", "background", "store", "parallel_tool_calls"},
               {"yes", "no"})
    /\ GivenIn(f, {"max_tokens", "thinking_budget"}, Nat \ {0})
    /\ GivenIn(f, {"stop_sequences"}, Nat \ {0})
    /\ GivenIn(f, {"temperature"}, Int)
    /\ GivenIn(f, {"thinking"}, {"on", "off"})
    /\ FormatFacts(f)
    /\ \A d \in DOMAIN f \cap {"modalities", "include"} : f[d] # {}

\* The anthropic decoder reads thinking as on or off, with a positive
\* budget where there is one.
LEMMA AnthropicThinkingDecoded ==
  ASSUME NEW raw, WellTyped(raw)
  PROVE  /\ \A d \in DOMAIN DecodeAnthropicThinking(raw) : d \in ThinkingDims
         /\ GivenIn(DecodeAnthropicThinking(raw), {"thinking_budget"}, Nat \ {0})
         /\ GivenIn(DecodeAnthropicThinking(raw), {"thinking"}, {"on", "off"})
  <1> DEFINE f == DecodeAnthropicThinking(raw)
  <1>1. \A d \in DOMAIN f : d \in ThinkingDims
    BY Merged, Single, Empty
       DEF DecodeAnthropicThinking, ThinkingDims, Get, Has
  <1>2. Has(f, "thinking_budget") => f["thinking_budget"] \in Nat \ {0}
    <2>1. Has(raw, "budget_tokens") => raw["budget_tokens"] \in Nat \ {0}
      BY DEF WellTyped, GivenIn, Has
    <2> QED BY <2>1, Merged, Single, Empty DEF DecodeAnthropicThinking, Get, Has
  <1>3. Has(f, "thinking") => f["thinking"] \in {"on", "off"}
    BY Merged, Single, Empty DEF DecodeAnthropicThinking, Get, Has
  <1> HIDE DEF f
  <1>4. GivenIn(f, {"thinking_budget"}, Nat \ {0}) BY <1>2 DEF GivenIn, Has
  <1>5. GivenIn(f, {"thinking"}, {"on", "off"}) BY <1>3 DEF GivenIn, Has
  <1> QED BY <1>1, <1>4, <1>5 DEF f

\* The anthropic decoder reads a schema or no format.
LEMMA AnthropicFormatDecoded ==
  ASSUME NEW raw
  PROVE  /\ \A d \in DOMAIN DecodeAnthropicFormat(raw) : d \in FormatDims
         /\ FormatFacts(DecodeAnthropicFormat(raw))
  <1> DEFINE f == DecodeAnthropicFormat(raw)
  <1>1. \A d \in DOMAIN f : d \in FormatDims
    BY Merged, Single, Empty DEF DecodeAnthropicFormat, FormatDims, Get, Has
  <1>2. \A d \in DOMAIN f : /\ Has(f, "response_format")
                            /\ f["response_format"] = "schema"
                            /\ d = "response_format.strict" => f[d] = "strict"
    BY Merged, Single, Empty DEF DecodeAnthropicFormat, FormatDims, Get, Has
  <1> HIDE DEF f
  <1>3. FormatFacts(f) BY <1>2 DEF FormatFacts, GivenIn, Has
  <1> QED BY <1>1, <1>3 DEF f

\* Parameters decoded from an anthropic body.
LEMMA AnthropicParamsDecoded ==
  ASSUME NEW raw, WellTyped(raw)
  PROVE  Understood(DecodeAnthropicParams(raw))
  <1> DEFINE think == DecodeAnthropicThinking(raw)
             format == DecodeAnthropicFormat(raw)
             f == DecodeAnthropicParams(raw)
  <1>1. \A d \in DOMAIN think : d \in ThinkingDims BY AnthropicThinkingDecoded
  <1>2. \A d \in DOMAIN format : d \in FormatDims BY AnthropicFormatDecoded
  <1>3. ASSUME NEW d
        PROVE  /\ d \in DOMAIN f <=>
                    \/ d \in DOMAIN raw /\ d \in SameInAnthropic
                    \/ d = "parallel_tool_calls"
                       /\ Get(raw, "disable_parallel_tool_use", "no") = "yes"
                    \/ d \in DOMAIN think \/ d \in DOMAIN format
               /\ d \in DOMAIN raw /\ d \in SameInAnthropic => f[d] = raw[d]
               /\ d = "parallel_tool_calls" /\ d \in DOMAIN f => f[d] = "no"
               /\ d \in DOMAIN think => f[d] = think[d]
               /\ d \in DOMAIN format => f[d] = format[d]
    <2>1. \A e \in SameInAnthropic :
             e # "parallel_tool_calls" /\ e \notin ThinkingDims /\ e \notin FormatDims
      BY DEF SameInAnthropic, ThinkingDims, FormatDims
    <2>2. \A e \in ThinkingDims : e # "parallel_tool_calls" /\ e \notin FormatDims
      BY DEF ThinkingDims, FormatDims
    <2>3. "parallel_tool_calls" \notin FormatDims BY DEF FormatDims
    <2> HIDE DEF think, format
    <2> QED BY <1>1, <1>2, <2>1, <2>2, <2>3, Merged, Single, Empty, Kept
            DEF DecodeAnthropicParams, think, format
  <1>4. \A d \in DOMAIN f : d \in Dims
    <2>1. \A d \in SameInAnthropic : d \in Dims
      BY DEF SameInAnthropic, Dims, SwitchDims, SamplingDims, ServiceDims, AnswerDims,
             OnlyInDims, OtherDims
    <2>2. "parallel_tool_calls" \in Dims BY DEF Dims, SwitchDims, AnswerDims
    <2> HIDE DEF f, think, format
    <2> QED BY <1>1, <1>2, <1>3, <2>1, <2>2 DEF Dims
  <1>5. GivenIn(f, {"logprobs", "background", "store", "parallel_tool_calls"},
                {"yes", "no"})
    BY <1>1, <1>2, <1>3 DEF GivenIn, SameInAnthropic, ThinkingDims, FormatDims
  <1>6. GivenIn(f, {"max_tokens", "thinking_budget"}, Nat \ {0})
    <2>1. GivenIn(think, {"thinking_budget"}, Nat \ {0})
      BY AnthropicThinkingDecoded
    <2>2. "max_tokens" \notin ThinkingDims /\ "max_tokens" \notin FormatDims
          /\ "thinking_budget" \notin FormatDims
          /\ "thinking_budget" \notin SameInAnthropic
      BY DEF ThinkingDims, FormatDims, SameInAnthropic
    <2>3. "max_tokens" \in DOMAIN raw => raw["max_tokens"] \in Nat \ {0}
      BY DEF WellTyped, GivenIn
    <2> HIDE DEF f, think, format
    <2> QED BY <1>1, <1>2, <1>3, <2>1, <2>2, <2>3 DEF GivenIn
  <1>7. GivenIn(f, {"thinking"}, {"on", "off"})
    <2>1. GivenIn(think, {"thinking"}, {"on", "off"})
      BY AnthropicThinkingDecoded
    <2>2. "thinking" \notin FormatDims /\ "thinking" \notin SameInAnthropic
      BY DEF FormatDims, SameInAnthropic
    <2> HIDE DEF f, think, format
    <2> QED BY <1>2, <1>3, <2>1, <2>2 DEF GivenIn
  <1>8. FormatFacts(f)
    <2>1. FormatFacts(format) BY AnthropicFormatDecoded
    <2>2. \A d \in FormatDims : d \in DOMAIN f <=> d \in DOMAIN format
      <3>1. \A d \in FormatDims : d \notin ThinkingDims /\ d \notin SameInAnthropic
                                  /\ d # "parallel_tool_calls"
        BY DEF ThinkingDims, FormatDims, SameInAnthropic
      <3> HIDE DEF f, think, format
      <3> QED BY <1>1, <1>3, <3>1
    <2> HIDE DEF f, think, format
    <2> QED BY <1>3, <2>1, <2>2 DEF FormatFacts, GivenIn, FormatDims, Has
  <1>9. \A d \in DOMAIN f \cap {"modalities", "include"} : f[d] # {}
    <2>1. {"modalities", "include"} \cap
          (SameInAnthropic \cup ThinkingDims \cup FormatDims) = {}
      BY DEF ThinkingDims, FormatDims, SameInAnthropic
    <2> HIDE DEF f, think, format
    <2> QED BY <1>1, <1>2, <1>3, <2>1
  <1>10. GivenIn(f, {"stop_sequences"}, Nat \ {0}) /\ GivenIn(f, {"temperature"}, Int)
    <2>1. {"stop_sequences", "temperature", "parallel_tool_calls"}
          \cap (ThinkingDims \cup FormatDims) = {}
      BY DEF ThinkingDims, FormatDims
    <2>2. /\ "stop_sequences" \in DOMAIN raw => raw["stop_sequences"] \in Nat \ {0}
          /\ "temperature" \in DOMAIN raw => raw["temperature"] \in Int
      BY DEF WellTyped, GivenIn
    <2> HIDE DEF f, think, format
    <2> QED BY <1>1, <1>2, <1>3, <2>1, <2>2 DEF GivenIn
  <1> HIDE DEF f
  <1>11. Understood(f) BY <1>4, <1>5, <1>6, <1>7, <1>8, <1>9, <1>10 DEF Understood
  <1> QED BY <1>11 DEF f

\* The chat and responses decoders read a format in the same way; a text
\* format is no format.
LEMMA FormatDecoded ==
  ASSUME NEW raw, WellTyped(raw)
  PROVE  /\ \A d \in DOMAIN DecodeFormat(raw) : d \in FormatDims
         /\ FormatFacts(DecodeFormat(raw))
  <1> DEFINE f == DecodeFormat(raw)
  <1>1. Has(raw, "response_format") =>
            raw["response_format"] \in {"text", "json", "schema"}
    BY DEF WellTyped, GivenIn, Has
  <1>2. \A d : /\ d \in DOMAIN f => d \in FormatDims
               /\ d \in DOMAIN f => Has(f, "response_format")
               /\ d \in DOMAIN f =>
                     Has(raw, "response_format") /\ raw["response_format"] # "text"
               /\ d \in DOMAIN f /\ d # "response_format" =>
                     raw["response_format"] = "schema"
               /\ d \in DOMAIN f => d \in DOMAIN raw /\ f[d] = raw[d]
    BY Kept, Empty DEF DecodeFormat, FormatDims, Get, Has
  <1> HIDE DEF f
  <1>3. GivenIn(f, {"response_format"}, {"json", "schema"})
    BY <1>1, <1>2 DEF GivenIn, Has
  <1>4. GivenIn(f, {"response_format.strict"}, {"strict", "lenient"})
    BY <1>2 DEF GivenIn, WellTyped
  <1>5. FormatFacts(f) BY <1>2, <1>3, <1>4 DEF FormatFacts, Has
  <1> QED BY <1>2, <1>5 DEF f

\* The chat decoder reads an effort, and nothing else, as thinking.
LEMMA ChatThinkingDecoded ==
  ASSUME NEW raw
  PROVE  /\ \A d \in DOMAIN DecodeChatThinking(raw) :
               d \in {"thinking", "thinking_effort"}
         /\ GivenIn(DecodeChatThinking(raw), {"thinking"}, {"on", "off"})
  <1> DEFINE f == DecodeChatThinking(raw)
  <1>1. \A d \in DOMAIN f : d \in {"thinking", "thinking_effort"}
    BY Merged, Single, Empty DEF DecodeChatThinking
  <1>2. Has(f, "thinking") => f["thinking"] \in {"on", "off"}
    BY Merged, Single, Empty DEF DecodeChatThinking, Has
  <1> HIDE DEF f
  <1>3. GivenIn(f, {"thinking"}, {"on", "off"}) BY <1>2 DEF GivenIn, Has
  <1> QED BY <1>1, <1>3 DEF f

\* The responses decoder reads the members of reasoning, never a budget.
LEMMA ReasoningDecoded ==
  ASSUME NEW raw
  PROVE  /\ \A d \in DOMAIN DecodeReasoning(raw) :
               d \in ThinkingDims \ {"thinking_budget"}
         /\ GivenIn(DecodeReasoning(raw), {"thinking"}, {"on", "off"})
  <1> DEFINE f == DecodeReasoning(raw)
  <1>1. \A d \in DOMAIN f :
           d \in {"thinking", "thinking_effort", "reasoning_summary_preference",
                  "reasoning_context_scope", "reasoning_mode"}
    BY Merged, Single, Empty, Kept DEF DecodeReasoning
  <1>2. Has(f, "thinking") => f["thinking"] \in {"on", "off"}
    BY Merged, Single, Empty, Kept DEF DecodeReasoning, Has
  <1> HIDE DEF f
  <1>3. GivenIn(f, {"thinking"}, {"on", "off"}) BY <1>2 DEF GivenIn, Has
  <1>4. \A d \in DOMAIN f : d \in ThinkingDims \ {"thinking_budget"}
    BY <1>1 DEF ThinkingDims
  <1> QED BY <1>3, <1>4 DEF f

\* Parameters decoded from a chat body.
LEMMA ChatParamsDecoded ==
  ASSUME NEW raw, WellTyped(raw)
  PROVE  Understood(DecodeChatParams(raw))
  <1> DEFINE think == DecodeChatThinking(raw)
             format == DecodeFormat(raw)
             f == DecodeChatParams(raw)
             named == {"max_tokens", "stop_sequences", "user_id"}
  <1>1. \A d \in DOMAIN think : d \in {"thinking", "thinking_effort"}
    BY ChatThinkingDecoded
  <1>2. \A d \in DOMAIN format : d \in FormatDims BY FormatDecoded
  <1>3. \A d \in SameInChat : d \notin ThinkingDims /\ d \notin FormatDims
                              /\ d \notin named
    BY DEF SameInChat, ThinkingDims, FormatDims
  <1>4. \A d \in FormatDims : d \notin ThinkingDims /\ d \notin named
    BY DEF ThinkingDims, FormatDims
  <1>5. \A d \in {"thinking", "thinking_effort"} : d \in ThinkingDims /\ d \notin named
    BY DEF ThinkingDims
  <1>6. /\ \A d \in DOMAIN f : \/ d \in DOMAIN raw /\ d \in SameInChat
                               \/ d \in named
                               \/ d \in DOMAIN think \/ d \in DOMAIN format
        /\ \A d \in DOMAIN raw : d \in SameInChat => d \in DOMAIN f /\ f[d] = raw[d]
        /\ \A d \in DOMAIN think : d \in DOMAIN f /\ f[d] = think[d]
        /\ \A d \in DOMAIN format : d \in DOMAIN f /\ f[d] = format[d]
    <2> HIDE DEF think, format
    <2> QED BY <1>1, <1>2, <1>3, <1>4, <1>5, Merged, Single, Empty, Kept
            DEF DecodeChatParams, think, format
  <1>7. "stop_sequences" \in DOMAIN f => f["stop_sequences"] \in Nat \ {0}
    <2>1. "stop" \in DOMAIN raw => raw["stop"] \in Nat \ {0}
      BY DEF WellTyped, GivenIn
    <2>2. "stop_sequences" \notin DOMAIN think
          /\ "stop_sequences" \notin DOMAIN format
          /\ "stop_sequences" \notin SameInChat
      BY <1>1, <1>2, <1>4, <1>3
    <2> HIDE DEF think, format
    <2> QED BY <2>1, <2>2, Merged, Single, Empty, Kept
            DEF DecodeChatParams, Has, think, format
  <1>8. "max_tokens" \in DOMAIN f => f["max_tokens"] \in Nat \ {0}
    <2>1. \A d \in {"max_tokens", "max_completion_tokens"} :
             d \in DOMAIN raw => raw[d] \in Nat \ {0}
      BY DEF WellTyped, GivenIn
    <2>2. "max_tokens" \notin DOMAIN think /\ "max_tokens" \notin DOMAIN format
          /\ "max_tokens" \notin SameInChat
      BY <1>1, <1>2, <1>4, <1>3
    <2> HIDE DEF think, format
    <2> QED BY <2>1, <2>2, Merged, Single, Empty, Kept
            DEF DecodeChatParams, Has, think, format
  <1> HIDE DEF f, think, format
  <1>9. \A d \in DOMAIN f : d \in Dims
    <2>1. \A d \in SameInChat : d \in Dims
      BY DEF SameInChat, Dims, SwitchDims, SamplingDims, ServiceDims, AnswerDims,
             OnlyInDims, OtherDims
    <2>2. \A d \in named : d \in Dims
      BY DEF Dims, SwitchDims, SamplingDims, OtherDims
    <2> QED BY <1>1, <1>2, <1>5, <1>6, <2>1, <2>2 DEF Dims
  <1>10. \A d \in DOMAIN f : d \in SameInChat => d \in DOMAIN raw /\ f[d] = raw[d]
    BY <1>1, <1>2, <1>3, <1>5, <1>6
  <1>11. GivenIn(f, {"logprobs", "background", "store", "parallel_tool_calls"},
                {"yes", "no"})
    <2>1. \A d \in {"logprobs", "store", "parallel_tool_calls"} :
             d \in SameInChat /\ (d \in DOMAIN raw => raw[d] \in {"yes", "no"})
      BY DEF SameInChat, WellTyped, GivenIn
    <2>2. "background" \notin DOMAIN f
      BY <1>1, <1>2, <1>6 DEF SameInChat, FormatDims
    <2> QED BY <1>10, <2>1, <2>2 DEF GivenIn
  <1>12. GivenIn(f, {"max_tokens", "thinking_budget"}, Nat \ {0})
    <2>1. "thinking_budget" \notin DOMAIN f
      BY <1>1, <1>2, <1>6 DEF SameInChat, FormatDims
    <2> QED BY <1>8, <2>1 DEF GivenIn
  <1>13. GivenIn(f, {"thinking"}, {"on", "off"})
    <2>1. GivenIn(think, {"thinking"}, {"on", "off"})
      BY ChatThinkingDecoded DEF think
    <2>2. "thinking" \in DOMAIN f => "thinking" \in DOMAIN think
      BY <1>2, <1>6 DEF SameInChat, FormatDims
    <2> QED BY <1>6, <2>1, <2>2 DEF GivenIn
  <1>14. FormatFacts(f)
    <2>1. FormatFacts(format) BY FormatDecoded DEF format
    <2>2. \A d \in FormatDims : d \in DOMAIN f => d \in DOMAIN format
      BY <1>1, <1>3, <1>4, <1>5, <1>6
    <2> QED BY <1>6, <2>1, <2>2 DEF FormatFacts, GivenIn, FormatDims, Has
  <1>15. \A d \in DOMAIN f \cap {"modalities", "include"} : f[d] # {}
    <2>1. "include" \notin DOMAIN f
      BY <1>1, <1>2, <1>6 DEF SameInChat, FormatDims
    <2>2. "modalities" \in SameInChat BY DEF SameInChat
    <2> QED BY <1>10, <2>1, <2>2 DEF WellTyped
  <1>16. GivenIn(f, {"temperature"}, Int)
    <2>1. "temperature" \in SameInChat BY DEF SameInChat
    <2>2. "temperature" \in DOMAIN raw => raw["temperature"] \in Int
      BY DEF WellTyped, GivenIn
    <2> QED BY <1>10, <2>1, <2>2 DEF GivenIn
  <1>17. GivenIn(f, {"stop_sequences"}, Nat \ {0}) BY <1>7 DEF GivenIn
  <1>18. Understood(f)
    BY <1>9, <1>11, <1>12, <1>13, <1>14, <1>15, <1>16, <1>17 DEF Understood
  <1> QED BY <1>18 DEF f

\* Parameters decoded from a responses body.
LEMMA ResponsesParamsDecoded ==
  ASSUME NEW raw, WellTyped(raw)
  PROVE  Understood(DecodeResponsesParams(raw))
  <1> DEFINE think == DecodeReasoning(raw)
             format == DecodeFormat(raw)
             f == DecodeResponsesParams(raw)
             named == {"max_tokens", "user_id"}
  <1>1. \A d \in DOMAIN think : d \in ThinkingDims \ {"thinking_budget"}
    BY ReasoningDecoded
  <1>2. \A d \in DOMAIN format : d \in FormatDims BY FormatDecoded
  <1>3. \A d \in SameInResponses : d \notin ThinkingDims /\ d \notin FormatDims
                                   /\ d \notin named
    BY DEF SameInResponses, ThinkingDims, FormatDims
  <1>4. \A d \in FormatDims : d \notin ThinkingDims /\ d \notin named
    BY DEF ThinkingDims, FormatDims
  <1>5. \A d \in ThinkingDims : d \notin named BY DEF ThinkingDims
  <1>6. /\ \A d \in DOMAIN f : \/ d \in DOMAIN raw /\ d \in SameInResponses
                               \/ d \in named
                               \/ d \in DOMAIN think \/ d \in DOMAIN format
        /\ \A d \in DOMAIN raw : d \in SameInResponses => d \in DOMAIN f /\ f[d] = raw[d]
        /\ \A d \in DOMAIN think : d \in DOMAIN f /\ f[d] = think[d]
        /\ \A d \in DOMAIN format : d \in DOMAIN f /\ f[d] = format[d]
    <2> HIDE DEF think, format
    <2> QED BY <1>1, <1>2, <1>3, <1>4, <1>5, Merged, Single, Empty, Kept
            DEF DecodeResponsesParams, think, format
  <1>7. "max_tokens" \in DOMAIN f => f["max_tokens"] \in Nat \ {0}
    <2>1. "max_output_tokens" \in DOMAIN raw => raw["max_output_tokens"] \in Nat \ {0}
      BY DEF WellTyped, GivenIn
    <2>2. "max_tokens" \notin DOMAIN think /\ "max_tokens" \notin DOMAIN format
          /\ "max_tokens" \notin SameInResponses
      BY <1>1, <1>2, <1>3, <1>4, <1>5
    <2> HIDE DEF think, format
    <2> QED BY <2>1, <2>2, Merged, Single, Empty, Kept
            DEF DecodeResponsesParams, Has, think, format
  <1> HIDE DEF f, think, format
  <1>8. \A d \in DOMAIN f : d \in Dims
    <2>1. \A d \in SameInResponses : d \in Dims
      BY DEF SameInResponses, Dims, SwitchDims, SamplingDims, ServiceDims, AnswerDims,
             OnlyInDims, OtherDims
    <2>2. \A d \in named : d \in Dims
      BY DEF Dims, OtherDims
    <2> QED BY <1>1, <1>2, <1>6, <2>1, <2>2 DEF Dims
  <1>9. \A d \in DOMAIN f : d \in SameInResponses => d \in DOMAIN raw /\ f[d] = raw[d]
    BY <1>1, <1>2, <1>3, <1>6
  <1>10. GivenIn(f, {"logprobs", "background", "store", "parallel_tool_calls"},
                {"yes", "no"})
    <2>1. \A d \in {"background", "store", "parallel_tool_calls"} :
             d \in SameInResponses /\ (d \in DOMAIN raw => raw[d] \in {"yes", "no"})
      BY DEF SameInResponses, WellTyped, GivenIn
    <2>2. "logprobs" \notin DOMAIN f
      BY <1>1, <1>2, <1>6 DEF SameInResponses, FormatDims, ThinkingDims
    <2> QED BY <1>9, <2>1, <2>2 DEF GivenIn
  <1>11. GivenIn(f, {"max_tokens", "thinking_budget"}, Nat \ {0})
    <2>1. "thinking_budget" \notin DOMAIN f
      BY <1>1, <1>2, <1>6 DEF SameInResponses, FormatDims
    <2> QED BY <1>7, <2>1 DEF GivenIn
  <1>12. GivenIn(f, {"thinking"}, {"on", "off"})
    <2>1. GivenIn(think, {"thinking"}, {"on", "off"})
      BY ReasoningDecoded DEF think
    <2>2. "thinking" \in DOMAIN f => "thinking" \in DOMAIN think
      BY <1>2, <1>6 DEF SameInResponses, FormatDims
    <2> QED BY <1>6, <2>1, <2>2 DEF GivenIn
  <1>13. FormatFacts(f)
    <2>1. FormatFacts(format) BY FormatDecoded DEF format
    <2>2. \A d \in FormatDims : d \in DOMAIN f => d \in DOMAIN format
      BY <1>1, <1>3, <1>4, <1>5, <1>6
    <2> QED BY <1>6, <2>1, <2>2 DEF FormatFacts, GivenIn, FormatDims, Has
  <1>14. \A d \in DOMAIN f \cap {"modalities", "include"} : f[d] # {}
    <2>1. "modalities" \notin DOMAIN f
      BY <1>1, <1>2, <1>6 DEF SameInResponses, FormatDims, ThinkingDims
    <2>2. "include" \in SameInResponses BY DEF SameInResponses
    <2> QED BY <1>9, <2>1, <2>2 DEF WellTyped
  <1>15. GivenIn(f, {"temperature"}, Int)
    <2>1. "temperature" \in SameInResponses BY DEF SameInResponses
    <2>2. "temperature" \in DOMAIN raw => raw["temperature"] \in Int
      BY DEF WellTyped, GivenIn
    <2> QED BY <1>9, <2>1, <2>2 DEF GivenIn
  <1>16. GivenIn(f, {"stop_sequences"}, Nat \ {0})
    <2>1. "stop_sequences" \notin DOMAIN f
      BY <1>1, <1>2, <1>6 DEF SameInResponses, FormatDims, ThinkingDims
    <2> QED BY <2>1 DEF GivenIn
  <1>17. Understood(f)
    BY <1>8, <1>10, <1>11, <1>12, <1>13, <1>14, <1>15, <1>16 DEF Understood
  <1> QED BY <1>17 DEF f

-----------------------------------------------------------------------------
(* What a decoder makes of the rest: its loop over messages or items       *)
(* changes the conversation only.                                          *)

\* Two records agree but for some fields.
SameBut(f, g, dims) ==
    \A d : d \notin dims =>
        /\ d \in DOMAIN f <=> d \in DOMAIN g
        /\ d \in DOMAIN f => g[d] = f[d]

\* A request has the fields of ir.Request.
Whole(r) == \A d \in {"params", "tools", "choice", "system", "messages"} : Has(r, d)

\* The folds over messages and items the decoders are loops of.
ChatStep(first, acc, m) == AppendChatMessage(acc, m)
ItemStep(first, acc, it) == AppendItem(acc, it)

\* What every step of these loops keeps: all but the conversation.
OnlyTalk(first, n, acc) ==
    /\ SameBut(first, acc, {"system", "messages"})
    /\ DOMAIN acc = DOMAIN first

\* The theorems about folds for these two loops.
ChatF == INSTANCE FoldFacts WITH Op <- ChatStep, Holds <- OnlyTalk
ItemF == INSTANCE FoldFacts WITH Op <- ItemStep, Holds <- OnlyTalk

\* A sequence by its indexes.
LEMMA Sequence ==
  ASSUME NEW s, IsSequence(s)
  PROVE  /\ Len(s) \in Nat
         /\ DOMAIN s = 1..Len(s)
         /\ \A k \in 1..Len(s) : s[k] \in ToSet(s)
  BY DEF IsSequence, ToSet

\* The chat decoder returns a whole request, and its loop over messages
\* leaves parameters, tools and choice as they were read.
LEMMA ChatDecoded ==
  ASSUME NEW raw, IsSequence(raw.messages),
         \A m \in ToSet(raw.messages) : KnownMessage("chat", m)
  PROVE  LET r == DecodeChat(raw) IN
         /\ Whole(r)
         /\ r.params = DecodeChatParams(raw.params)
         /\ r.tools = DecodeChatTools(raw.tools)
         /\ r.choice = DecodeChatChoice(raw.choice)
  <1> DEFINE first == [params |-> DecodeChatParams(raw.params),
                       tools  |-> DecodeChatTools(raw.tools),
                       choice |-> DecodeChatChoice(raw.choice),
                       system |-> <<>>, messages |-> <<>>]
             seq == raw.messages
  <1>1. DecodeChat(raw) = ChatF!Fold(first, first, seq)
    BY DEF DecodeChat, ChatF!Fold, ChatStep, FoldLeft, MapThenFoldSet,
           Max, ChatF!GreatestOf
  <1>2. Len(seq) \in Nat /\ DOMAIN seq = 1..Len(seq) BY Sequence
  <1>3. \A k \in 1..Len(seq) : KnownMessage("chat", seq[k]) BY Sequence
  <1>4. /\ Whole(first)
        /\ first.params = DecodeChatParams(raw.params)
        /\ first.tools = DecodeChatTools(raw.tools)
        /\ first.choice = DecodeChatChoice(raw.choice)
    BY DEF Whole, Has
  <1> HIDE DEF first, seq
  <1>5. OnlyTalk(first, 0, first) BY DEF OnlyTalk, SameBut
  <1>6. ASSUME NEW acc, NEW k \in 1..Len(seq), OnlyTalk(first, k - 1, acc)
        PROVE  OnlyTalk(first, k, ChatStep(first, acc, seq[k]))
    <2> DEFINE m == seq[k]
    <2>1. m.role \in {"system", "developer", "tool", "assistant", "user"}
      BY <1>3 DEF KnownMessage
    <2> HIDE DEF m
    <2>2. \E s, t : AppendChatMessage(acc, m) = [acc EXCEPT !.system = s]
                    \/ AppendChatMessage(acc, m) = [acc EXCEPT !.messages = t]
      BY <2>1 DEF AppendChatMessage, AppendToolMessage
    <2> QED BY <1>6, <2>2 DEF OnlyTalk, ChatStep, SameBut, m
  <1>7. OnlyTalk(first, Len(seq), ChatF!Fold(first, first, seq))
    BY <1>2, <1>5, <1>6, ChatF!FoldKeeps
  <1>8. OnlyTalk(first, Len(seq), DecodeChat(raw)) BY <1>1, <1>7
  <1> QED BY <1>4, <1>8 DEF OnlyTalk, SameBut, Whole, Has

\* An item of a known kind is a system prompt, or adds blocks to the
\* conversation, or is left out.
LEMMA ItemAppended ==
  ASSUME NEW acc, NEW it
  PROVE  /\ it.item = "message" /\ it.role \in {"system", "developer"} =>
               \E s : AppendItem(acc, it) = [acc EXCEPT !.system = s]
         /\ \/ it.item = "message" /\ it.role \in {"assistant", "user"}
            \/ it.item \in {"call", "output", "reasoning", "opaque"}
            => \/ AppendItem(acc, it) = acc
               \/ \E role, blocks, marks :
                     AppendItem(acc, it) = AppendBlocks(acc, role, blocks, marks)
  <1>1. ASSUME it.item = "message", it.role \in {"system", "developer"}
        PROVE  \E s : AppendItem(acc, it) = [acc EXCEPT !.system = s]
    BY <1>1 DEF AppendItem
  <1>2. ASSUME it.item = "message", it.role = "assistant"
        PROVE  \E blocks, marks :
                  AppendItem(acc, it) = AppendBlocks(acc, "assistant", blocks, marks)
    BY <1>2 DEF AppendItem
  <1>3. ASSUME it.item = "message", it.role = "user"
        PROVE  \E blocks, marks :
                  AppendItem(acc, it) = AppendBlocks(acc, "user", blocks, marks)
    BY <1>3 DEF AppendItem
  <1>4. ASSUME it.item = "call"
        PROVE  AppendItem(acc, it)
               = AppendBlocks(acc, "assistant", <<it.block>>, << >>)
    BY <1>4 DEF AppendItem
  <1>5. ASSUME it.item = "output"
        PROVE  AppendItem(acc, it)
               = AppendBlocks(acc, "user", <<DecodeOutput(it.block)>>, << >>)
    BY <1>5 DEF AppendItem
  <1>6. ASSUME it.item = "reasoning"
        PROVE  \/ AppendItem(acc, it) = acc
               \/ AppendItem(acc, it)
                  = AppendBlocks(acc, "assistant", <<it.block>>, << >>)
    BY <1>6 DEF AppendItem
  <1>7. ASSUME it.item = "opaque"
        PROVE  \E blocks :
                  AppendItem(acc, it) = AppendBlocks(acc, "assistant", blocks, << >>)
    BY <1>7 DEF AppendItem
  <1> QED BY <1>1, <1>2, <1>3, <1>4, <1>5, <1>6, <1>7

\* The responses decoder returns a whole request, and its loop over items
\* leaves parameters, tools and choice as they were read.
LEMMA ResponsesDecoded ==
  ASSUME NEW raw, IsSequence(raw.messages),
         \A m \in ToSet(raw.messages) : KnownMessage("responses", m)
  PROVE  LET r == DecodeResponses(raw) IN
         /\ Whole(r)
         /\ r.params = DecodeResponsesParams(raw.params)
         /\ r.tools = DecodeChatTools(raw.tools)
         /\ r.choice = DecodeResponsesChoice(raw.choice)
  <1> DEFINE first == [params |-> DecodeResponsesParams(raw.params),
                       tools  |-> DecodeChatTools(raw.tools),
                       choice |-> DecodeResponsesChoice(raw.choice),
                       system |-> raw.system, messages |-> <<>>]
             seq == raw.messages
  <1>1. DecodeResponses(raw) = ItemF!Fold(first, first, seq)
    BY DEF DecodeResponses, ItemF!Fold, ItemStep, FoldLeft, MapThenFoldSet,
           Max, ItemF!GreatestOf
  <1>2. Len(seq) \in Nat /\ DOMAIN seq = 1..Len(seq) BY Sequence
  <1>3. \A k \in 1..Len(seq) : KnownMessage("responses", seq[k]) BY Sequence
  <1>4. /\ Whole(first)
        /\ first.params = DecodeResponsesParams(raw.params)
        /\ first.tools = DecodeChatTools(raw.tools)
        /\ first.choice = DecodeResponsesChoice(raw.choice)
    BY DEF Whole, Has
  <1> HIDE DEF first, seq
  <1>5. OnlyTalk(first, 0, first) BY DEF OnlyTalk, SameBut
  <1>6. ASSUME NEW acc, NEW k \in 1..Len(seq), OnlyTalk(first, k - 1, acc)
        PROVE  OnlyTalk(first, k, ItemStep(first, acc, seq[k]))
    <2> DEFINE it == seq[k]
    <2>1. \/ /\ it.item = "message"
             /\ it.role \in {"system", "developer", "assistant", "user"}
          \/ it.item \in {"call", "output", "reasoning", "opaque"}
      BY <1>3 DEF KnownMessage
    <2> HIDE DEF it
    <2>2. ASSUME NEW role, NEW blocks, NEW marks
          PROVE  AppendBlocks(acc, role, blocks, marks) = acc
                 \/ \E t : AppendBlocks(acc, role, blocks, marks)
                            = [acc EXCEPT !.messages = t]
      BY DEF AppendBlocks
    <2>3. \E s, t : \/ AppendItem(acc, it) = acc
                    \/ AppendItem(acc, it) = [acc EXCEPT !.system = s]
                    \/ AppendItem(acc, it) = [acc EXCEPT !.messages = t]
      BY <2>1, <2>2, ItemAppended
    <2> QED BY <1>6, <2>3 DEF OnlyTalk, ItemStep, SameBut, it
  <1>7. OnlyTalk(first, Len(seq), ItemF!Fold(first, first, seq))
    BY <1>2, <1>5, <1>6, ItemF!FoldKeeps
  <1>8. OnlyTalk(first, Len(seq), DecodeResponses(raw)) BY <1>1, <1>7
  <1> QED BY <1>4, <1>8 DEF OnlyTalk, SameBut, Whole, Has

\* The anthropic decoder returns a whole request.
LEMMA AnthropicDecoded ==
  ASSUME NEW raw
  PROVE  LET r == DecodeAnthropic(raw) IN
         /\ Whole(r)
         /\ r.params = DecodeAnthropicParams(raw.params)
         /\ r.tools = raw.tools
         /\ r.choice = raw.choice
  BY DEF DecodeAnthropic, Whole, Has

-----------------------------------------------------------------------------
(* Declarations of tools and choices.                                      *)

\* A list of declarations as a decoder leaves it,
Declared(tools) ==
    IsSequence(tools) /\ \A i \in DOMAIN tools : WellFormedTool(tools[i])

\* and a choice: its mode is one of the dialect of ir.ToolChoice, and the
\* client's own words are kept only with a tool or a typed choice.
ChoiceKnown(choice) ==
    \/ choice = NoChoice
    \/ /\ Has(choice, "mode")
       /\ choice.mode \in {"auto", "any", "none", "tool", "typed"}
       /\ choice.mode = "tool" => Has(choice, "name")
       /\ choice.mode = "typed" => /\ Has(choice, "raw")
                                   /\ choice.raw = "responses"
                                   /\ ~Has(choice, "rawName")
       /\ Has(choice, "raw") /\ choice.mode # "typed" =>
             choice.mode = "tool" /\ Has(choice, "rawName")
       /\ Has(choice, "raw") => choice.raw \in OpenAI

\* Two loops that keep some tools: those that are not hosted,
LocalStep(env, kept, t) == IF ~Has(t, "server") THEN Append(kept, t) ELSE kept

\* Nothing else is kept by these loops.
Always(env, n, acc) == TRUE

\* The theorems about folds for the first loop,
LocalF == INSTANCE FoldFacts WITH Op <- LocalStep, Holds <- Always

\* A tool the client runs itself.
Local(t) == ~Has(t, "server")

\* The loop itself, as a filter.
LocalTools(tools) == Filter(tools, LAMBDA t : ~Has(t, "server"))

\* A sequence is one of its own members.
LEMMA Members ==
  ASSUME NEW s, IsSequence(s)
  PROVE  s \in Seq(ToSet(s)) /\ ToSet(s) = {s[k] : k \in DOMAIN s}
  BY DEF IsSequence, ToSet

\* A sequence over a set is a sequence, with members in the set.
LEMMA SequenceOf ==
  ASSUME NEW E, NEW s \in Seq(E)
  PROVE  IsSequence(s) /\ \A i \in DOMAIN s : s[i] \in E
  <1>1. \A i \in DOMAIN s : s[i] \in ToSet(s) BY DEF ToSet
  <1>2. s \in Seq(ToSet(s)) BY <1>1
  <1> QED BY <1>2 DEF IsSequence

\* Filtering out hosted tools keeps all others, and adds none.
LEMMA LocalKept ==
  ASSUME NEW s, IsSequence(s)
  PROVE  LET r == LocalTools(s) IN
         /\ IsSequence(r)
         /\ \A i \in DOMAIN r : ~Has(r[i], "server")
                                /\ \E k \in DOMAIN s : r[i] = s[k]
         /\ \A k \in DOMAIN s : ~Has(s[k], "server") =>
               \E i \in DOMAIN r : r[i] = s[k]
  <1> DEFINE T == {t \in ToSet(s) : ~Has(t, "server")}
             r == LocalTools(s)
  <1>1. r = LocalF!Fold(T, <<>>, s)
    BY DEF LocalTools, Filter, LocalF!Fold, LocalStep, FoldLeft, MapThenFoldSet,
           Max, LocalF!GreatestOf
  <1>2. s \in Seq(ToSet(s)) /\ ToSet(s) = {s[k] : k \in DOMAIN s} BY Members
  <1>3. \A k \in DOMAIN s : s[k] \in T <=> ~Has(s[k], "server") BY <1>2
  <1>4. \A acc : \A k \in DOMAIN s :
           LocalStep(T, acc, s[k]) = IF s[k] \in T THEN Append(acc, s[k]) ELSE acc
    BY <1>3 DEF LocalStep
  <1> HIDE DEF T, r
  <1>5. /\ r \in Seq(T)
        /\ \A k \in DOMAIN s : s[k] \in T => \E i \in DOMAIN r : r[i] = s[k]
    BY <1>1, <1>2, <1>4, LocalF!FilterMembers
  <1>6. IsSequence(r) /\ \A i \in DOMAIN r : r[i] \in T
    BY <1>5, SequenceOf
  <1>7. \A t \in T : ~Has(t, "server") /\ \E k \in DOMAIN s : t = s[k]
    BY <1>2 DEF T
  <1> QED BY <1>3, <1>5, <1>6, <1>7 DEF r

\* What is picked from declarations are declarations.
LEMMA DeclaredTool ==
  ASSUME NEW s, Declared(s), NEW r, IsSequence(r),
         \A i \in DOMAIN r : \E k \in DOMAIN s : r[i] = s[k]
  PROVE  Declared(r)
  BY DEF Declared

\* Tools decoded from a well-formed body are declarations.
LEMMA ToolsDecoded ==
  ASSUME NEW raw, IsSequence(raw), \A t \in ToSet(raw) : WellFormedTool(t)
  PROVE  Declared(raw) /\ Declared(DecodeChatTools(raw))
  <1>1. Declared(raw) BY DEF Declared, ToSet
  <1>2. DecodeChatTools(raw) = LocalTools(raw) BY DEF DecodeChatTools, LocalTools
  <1>3. IsSequence(LocalTools(raw))
        /\ \A i \in DOMAIN LocalTools(raw) : \E k \in DOMAIN raw :
              LocalTools(raw)[i] = raw[k]
    BY LocalKept
  <1> HIDE DEF LocalTools
  <1>4. Declared(LocalTools(raw)) BY <1>1, <1>3, DeclaredTool
  <1> QED BY <1>1, <1>2, <1>4

\* A choice decoded from a well-formed body has a mode of the dialect.
LEMMA ChoiceDecoded ==
  ASSUME NEW raw
  PROVE  /\ WellFormedChoice("anthropic", raw) => ChoiceKnown(raw)
         /\ WellFormedChoice("chat", raw) => ChoiceKnown(DecodeChatChoice(raw))
         /\ WellFormedChoice("responses", raw) =>
               ChoiceKnown(DecodeResponsesChoice(raw))
  <1>1. /\ ChoiceModes("anthropic") = {"auto", "any", "none", "tool"}
        /\ ChoiceModes("chat") = {"auto", "any", "none", "tool", "custom"}
        /\ ChoiceModes("responses")
           = {"auto", "any", "none", "tool", "function", "custom", "typed"}
    BY DEF ChoiceModes
  <1> HIDE DEF ChoiceModes
  <1>2. ASSUME WellFormedChoice("anthropic", raw) PROVE ChoiceKnown(raw)
    BY <1>1, <1>2 DEF WellFormedChoice, ChoiceKnown, Has
  <1>3. ASSUME WellFormedChoice("chat", raw)
        PROVE  ChoiceKnown(DecodeChatChoice(raw))
    <2>1. CASE raw = NoChoice
      BY <2>1 DEF DecodeChatChoice, ChoiceKnown, NoChoice
    <2>2. CASE raw # NoChoice /\ raw.mode = "custom"
      <3>1. DecodeChatChoice(raw)
            = [mode |-> "tool", name |-> raw.name, rawName |-> raw.name,
               raw |-> "chat"]
        BY <2>2 DEF DecodeChatChoice
      <3> QED BY <3>1 DEF ChoiceKnown, Has, OpenAI
    <2>3. CASE raw # NoChoice /\ raw.mode # "custom"
      BY <1>1, <1>3, <2>3 DEF DecodeChatChoice, WellFormedChoice, ChoiceKnown, Has
    <2> QED BY <2>1, <2>2, <2>3
  <1>4. ASSUME WellFormedChoice("responses", raw)
        PROVE  ChoiceKnown(DecodeResponsesChoice(raw))
    <2>1. CASE raw = NoChoice
      BY <2>1 DEF DecodeResponsesChoice, ChoiceKnown, NoChoice
    <2>2. CASE raw # NoChoice /\ raw.mode \in {"function", "custom"}
      <3>1. DecodeResponsesChoice(raw)
            = [mode |-> "tool", name |-> raw.name, rawName |-> raw.name,
               raw |-> "responses"]
        BY <2>2 DEF DecodeResponsesChoice
      <3> QED BY <3>1 DEF ChoiceKnown, Has, OpenAI
    <2>3. CASE raw # NoChoice /\ raw.mode = "typed"
      <3>1. DecodeResponsesChoice(raw) = [mode |-> "typed", raw |-> "responses"]
        BY <2>3 DEF DecodeResponsesChoice
      <3> QED BY <3>1 DEF ChoiceKnown, Has, OpenAI
    <2>4. CASE raw # NoChoice /\ raw.mode \notin {"function", "custom", "typed"}
      <3>1. DecodeResponsesChoice(raw) = raw BY <2>4 DEF DecodeResponsesChoice
      <3> QED BY <1>1, <1>4, <2>4, <3>1 DEF WellFormedChoice, ChoiceKnown, Has
    <2> QED BY <2>1, <2>2, <2>3, <2>4
  <1> QED BY <1>2, <1>3, <1>4

  (* What later steps rely on in a decoded or repaired request. *)

-----------------------------------------------------------------------------
(* Names of tools, and the repair.                                         *)

\* Appending, by indexes.
LEMMA Appended ==
  ASSUME NEW s, IsSequence(s), NEW t
  PROVE  LET r == Append(s, t) IN
         /\ IsSequence(r)
         /\ Len(s) \in Nat /\ Len(r) = Len(s) + 1
         /\ DOMAIN s = 1..Len(s) /\ DOMAIN r = 1..(Len(s) + 1)
         /\ \A i \in 1..Len(s) : r[i] = s[i]
         /\ r[Len(s) + 1] = t
  <1> DEFINE E == ToSet(s) \cup {t}
             r == Append(s, t)
  <1>1. s \in Seq(ToSet(s)) BY DEF IsSequence
  <1>2. ToSet(s) \subseteq E OBVIOUS
  <1>3. t \in E OBVIOUS
  <1> HIDE DEF E
  <1>4. s \in Seq(E) BY <1>1, <1>2
  <1>5. r \in Seq(E) BY <1>3, <1>4
  <1>6. IsSequence(r) BY <1>5, SequenceOf
  <1> QED BY <1>3, <1>4, <1>5, <1>6

\* The loop of governToolDecls,
KeepStep(env, acc, t) == KeepTool(acc, t)

\* the names an upstream takes: legal, not empty, each its own,
TaughtNames(tools) ==
    /\ \A i \in DOMAIN tools :
          tools[i].name # Unnamed /\ SanitizeToolName(tools[i].name) = tools[i].name
    /\ \A i, j \in DOMAIN tools : i # j => tools[i].name # tools[j].name

\* the declaration by which a name is governed,
Heard(tools, name) == \E j \in DOMAIN tools : tools[j].name = SanitizeToolName(name)

\* and what the loop keeps: the declarations governed so far have such
\* names, each name given is governed by one of them, and without a note
\* they are those of the request.
GovernedTo(seq, k, acc) ==
    /\ acc = [tools |-> acc.tools, notes |-> acc.notes]
    /\ Declared(acc.tools)
    /\ TaughtNames(acc.tools)
    /\ \A i \in 1..k : seq[i].name # Unnamed => Heard(acc.tools, seq[i].name)
    /\ acc.notes = {} =>
          /\ Len(acc.tools) = k
          /\ \A i \in 1..k : seq[i].name = acc.tools[i].name

\* The theorems about folds for this loop.
KeepF == INSTANCE FoldFacts WITH Op <- KeepStep, Holds <- GovernedTo

\* Cleaning a name again changes nothing, and no name is cleaned away.
LEMMA NameSanitized ==
  ASSUME NEW n
  PROVE  /\ SanitizeToolName(SanitizeToolName(n)) = SanitizeToolName(n)
         /\ n # Unnamed => SanitizeToolName(n) # Unnamed
  <1>1. SanitizeToolName(SanitizeToolName(n)) = SanitizeToolName(n)
    BY DEF SanitizeToolName
  <1>2. n # Unnamed => SanitizeToolName(n) # Unnamed
    <2>1. "get_weather" # Unnamed BY Zenon DEF Unnamed
    <2> QED BY <2>1 DEF SanitizeToolName
  <1> QED BY <1>1, <1>2

\* One declaration: dropped without a name or for a name that is taken, or
\* kept under its legal name, with a note whenever anything changes.
LEMMA ToolKept ==
  ASSUME NEW seq, NEW k \in Nat \ {0}, NEW acc, GovernedTo(seq, k - 1, acc),
         WellFormedTool(seq[k])
  PROVE  GovernedTo(seq, k, KeepStep(<<>>, acc, seq[k]))
  <1> DEFINE t == seq[k]
             name == SanitizeToolName(t.name)
             taken == \E i \in DOMAIN acc.tools : acc.tools[i].name = name
             more == When(t.name # name, <<"renamed", t.name>>)
                     \cup When(taken, <<"dropped_tool", name>>)
             r == KeepTool(acc, t)
  <1>1. CASE t.name = Unnamed \/ taken
    <2>1. PICK lost : r = [acc EXCEPT !.notes = @ \cup lost] /\ lost # {}
      <3>1. CASE t.name = Unnamed
        <4>1. r = [acc EXCEPT !.notes = @ \cup {<<"dropped_tool", Unnamed>>}]
          BY <3>1 DEF KeepTool
        <4> QED BY <4>1
      <3>2. CASE t.name # Unnamed /\ taken
        <4>1. r = [acc EXCEPT !.notes = @ \cup more]
          BY <3>2 DEF KeepTool
        <4>2. <<"dropped_tool", name>> \in more BY <3>2 DEF When
        <4> QED BY <4>1, <4>2
      <3> QED BY <1>1, <3>1, <3>2
    <2>2. r = [tools |-> acc.tools, notes |-> acc.notes \cup lost]
      BY <2>1 DEF GovernedTo
    <2>3. r.notes # {} BY <2>1, <2>2
    <2>4. r.tools = acc.tools BY <2>2
    <2>5. t.name # Unnamed => Heard(acc.tools, t.name) BY <1>1 DEF Heard
    <2>6. \A i \in 1..k : i \in 1..(k - 1) \/ i = k OBVIOUS
    <2>7. \A i \in 1..k : seq[i].name # Unnamed => Heard(acc.tools, seq[i].name)
      BY <2>5, <2>6 DEF GovernedTo
    <2> HIDE DEF r
    <2> QED BY <2>2, <2>3, <2>4, <2>7 DEF GovernedTo, KeepStep, r
  <1>2. CASE t.name # Unnamed /\ ~taken
    <2> DEFINE u == [t EXCEPT !.name = name]
               s == acc.tools
    <2>1. r = [tools |-> Append(s, u), notes |-> acc.notes \cup more]
      BY <1>2 DEF KeepTool
    <2>2. WellFormedTool(u) /\ u.name = name
      BY DEF WellFormedTool, GivenIn, Has
    <2>3. name # Unnamed /\ SanitizeToolName(name) = name
      BY <1>2, NameSanitized
    <2>4. more = {} => t.name = name BY DEF When
    <2>5. \A i \in DOMAIN s : s[i].name # name BY <1>2
    <2>6. Declared(s) /\ TaughtNames(s) /\ IsSequence(s)
      BY DEF GovernedTo, Declared
    <2> HIDE DEF u, name, more, r, s
    <2> DEFINE new == Append(s, u)
    <2>7. /\ IsSequence(new)
          /\ Len(s) \in Nat /\ Len(new) = Len(s) + 1
          /\ DOMAIN s = 1..Len(s) /\ DOMAIN new = 1..(Len(s) + 1)
          /\ \A i \in 1..Len(s) : new[i] = s[i]
          /\ new[Len(s) + 1] = u
      BY <2>6, Appended
    <2> HIDE DEF new
    <2>8. Declared(new)
      <3>1. \A i \in DOMAIN new : \/ i \in DOMAIN s /\ new[i] = s[i]
                                  \/ new[i] = u
        BY <2>7
      <3> QED BY <2>2, <2>6, <2>7, <3>1 DEF Declared
    <2>9. TaughtNames(new)
      <3>1. \A i \in DOMAIN new : \/ i \in DOMAIN s /\ new[i] = s[i]
                                  \/ i = Len(s) + 1 /\ new[i] = u
        BY <2>7
      <3> QED BY <2>2, <2>3, <2>5, <2>6, <2>7, <3>1 DEF TaughtNames
    <2>10. r.tools = new /\ r.notes = acc.notes \cup more
           /\ r = [tools |-> r.tools, notes |-> r.notes]
      BY <2>1 DEF new
    <2>11. ASSUME r.notes = {}
           PROVE  Len(new) = k /\ \A i \in 1..k : seq[i].name = new[i].name
      <3>1. acc.notes = {} /\ more = {} BY <2>10, <2>11
      <3>2. /\ Len(s) = k - 1
            /\ \A i \in 1..(k - 1) : seq[i].name = s[i].name
        BY <3>1 DEF GovernedTo, s
      <3>3. seq[k].name = u.name BY <2>2, <2>4, <3>1
      <3>4. \A i \in 1..k : i \in 1..(k - 1) \/ i = k OBVIOUS
      <3> HIDE DEF t
      <3> QED BY <2>7, <3>2, <3>3, <3>4
    <2>12. \A i \in 1..k : seq[i].name # Unnamed => Heard(new, seq[i].name)
      <3>1. \A n : Heard(s, n) => Heard(new, n) BY <2>7 DEF Heard
      <3>2. Heard(new, t.name) BY <2>2, <2>7 DEF Heard, name
      <3>3. \A i \in 1..(k - 1) : seq[i].name # Unnamed => Heard(s, seq[i].name)
        BY DEF GovernedTo, s
      <3>4. \A i \in 1..k : i \in 1..(k - 1) \/ i = k OBVIOUS
      <3> QED BY <3>1, <3>2, <3>3, <3>4
    <2> QED BY <2>8, <2>9, <2>10, <2>11, <2>12 DEF GovernedTo, KeepStep, r, t
  <1> QED BY <1>1, <1>2

\* After the loop all names are legal and distinct; if there is no note
\* they were so before.
LEMMA ToolDeclsKept ==
  ASSUME NEW seq, Declared(seq)
  PROVE  LET all == FoldLeft(KeepTool, [tools |-> <<>>, notes |-> {}], seq) IN
         /\ Declared(all.tools) /\ TaughtNames(all.tools)
         /\ \A i \in DOMAIN seq : seq[i].name # Unnamed => Heard(all.tools, seq[i].name)
         /\ all.notes = {} => TaughtNames(seq)
  <1> DEFINE base == [tools |-> <<>>, notes |-> {}]
             all == FoldLeft(KeepTool, base, seq)
             n == Len(seq)
  <1>1. all = KeepF!Fold(<<>>, base, seq)
    BY DEF KeepF!Fold, KeepStep, FoldLeft, MapThenFoldSet,
           Max, KeepF!GreatestOf
  <1>2. n \in Nat /\ DOMAIN seq = 1..n BY Sequence DEF Declared
  <1>3. GovernedTo(seq, 0, base)
    <2>1. IsSequence(<<>>) BY DEF IsSequence
    <2>2. DOMAIN <<>> = {} OBVIOUS
    <2> QED BY <2>1, <2>2 DEF GovernedTo, Declared, TaughtNames
  <1>4. ASSUME NEW acc, NEW k \in 1..n, GovernedTo(seq, k - 1, acc)
        PROVE  GovernedTo(seq, k, KeepStep(<<>>, acc, seq[k]))
    BY <1>2, <1>4, ToolKept DEF Declared
  <1> HIDE DEF base, n, all
  <1>5. GovernedTo(seq, n, KeepF!Fold(<<>>, base, seq))
    BY <1>2, <1>3, <1>4, KeepF!FoldKeeps
  <1>6. GovernedTo(seq, n, all) BY <1>1, <1>5
  <1>7. ASSUME all.notes = {} PROVE TaughtNames(seq)
    <2>1. Len(all.tools) = n /\ \A i \in 1..n : seq[i].name = all.tools[i].name
      BY <1>6, <1>7 DEF GovernedTo
    <2>2. DOMAIN all.tools = 1..n BY <1>6, <2>1, Sequence DEF GovernedTo, Declared
    <2> QED BY <1>2, <1>6, <2>1, <2>2 DEF GovernedTo, TaughtNames
  <1> QED BY <1>2, <1>6, <1>7 DEF GovernedTo, all, base

\* The repair changes tools, the choice and messages only.
LEMMA RequestSanitized ==
  ASSUME NEW r
  PROVE  SameBut(r, SanitizeRequest(r).req, {"tools", "choice", "messages"})
  <1> DEFINE tools == GovernToolDecls(r)
             pairs == PairTools(tools.req)
             prune == PruneEmpty(pairs.req)
             merge == MergeAdjacentRoles(prune.req)
  <1>1. SameBut(r, tools.req, {"tools", "choice", "messages"})
    <2>1. tools.req = r \/ \E t : tools.req = [ApplyToolRenames(r) EXCEPT !.tools = t]
      BY DEF GovernToolDecls
    <2>2. \E c, m : ApplyToolRenames(r) = [r EXCEPT !.choice = c, !.messages = m]
      BY DEF ApplyToolRenames
    <2> HIDE DEF tools
    <2> QED BY <2>1, <2>2 DEF SameBut
  <1>2. SameBut(tools.req, pairs.req, {"messages"})
    <2>1. \A q : SameBut(q, PairTools(q).req, {"messages"})
      <3>1. \A q : \E m : PairTools(q).req = [q EXCEPT !.messages = m]
        BY DEF PairTools
      <3> QED BY <3>1 DEF SameBut
    <2> QED BY <2>1
  <1>3. SameBut(pairs.req, prune.req, {"messages"})
    <2>1. \A q : SameBut(q, PruneEmpty(q).req, {"messages"})
      <3>1. \A q : \E m : PruneEmpty(q).req = [q EXCEPT !.messages = m]
        BY DEF PruneEmpty
      <3> QED BY <3>1 DEF SameBut
    <2> QED BY <2>1
  <1>4. SameBut(prune.req, merge.req, {"messages"})
    <2>1. \A q : SameBut(q, MergeAdjacentRoles(q).req, {"messages"})
      <3>1. \A q : \E m : MergeAdjacentRoles(q).req = [q EXCEPT !.messages = m]
        BY DEF MergeAdjacentRoles
      <3> QED BY <3>1 DEF SameBut
    <2> QED BY <2>1
  <1>5. SanitizeRequest(r).req = r \/ SanitizeRequest(r).req = merge.req
    BY DEF SanitizeRequest
  <1> HIDE DEF tools, pairs, prune, merge
  <1>6. SameBut(r, merge.req, {"tools", "choice", "messages"})
    BY <1>1, <1>2, <1>3, <1>4 DEF SameBut
  <1> QED BY <1>5, <1>6 DEF SameBut

\* What is known of a request between the decoder and the attempts.
Known(r) ==
    Whole(r) /\ Understood(r.params) /\ Declared(r.tools) /\ ChoiceKnown(r.choice)

\* Every body that is not refused is decoded to such a request.
LEMMA RequestDecoded ==
  ASSUME NEW b \in Bodies
  PROVE  Known(Decoded(b.client, b.raw))
  <1> DEFINE raw == b.raw
  <1>1. /\ b.client \in Clients /\ WellTyped(raw.params)
        /\ IsSequence(raw.tools) /\ IsSequence(raw.messages)
        /\ \A t \in ToSet(raw.tools) : WellFormedTool(t)
        /\ WellFormedChoice(b.client, raw.choice)
        /\ \A m \in ToSet(raw.messages) : KnownMessage(b.client, m)
    BY BodiesAssumption
  <1> HIDE DEF raw
  <1>2. Declared(raw.tools) /\ Declared(DecodeChatTools(raw.tools))
    BY <1>1, ToolsDecoded
  <1>3. CASE b.client = "anthropic"
    <2>1. Decoded(b.client, b.raw) = DecodeAnthropic(raw)
      BY <1>3 DEF Decoded, raw
    <2> QED BY <1>1, <1>2, <1>3, <2>1, AnthropicDecoded, AnthropicParamsDecoded,
               ChoiceDecoded
            DEF Known
  <1>4. CASE b.client = "chat"
    <2>1. Decoded(b.client, b.raw) = DecodeChat(raw)
      BY <1>4 DEF Decoded, raw
    <2> QED BY <1>1, <1>2, <1>4, <2>1, ChatDecoded, ChatParamsDecoded, ChoiceDecoded
            DEF Known
  <1>5. CASE b.client = "responses"
    <2>1. Decoded(b.client, b.raw) = DecodeResponses(raw)
      BY <1>5 DEF Decoded, raw
    <2> QED BY <1>1, <1>2, <1>5, <2>1, ResponsesDecoded, ResponsesParamsDecoded,
               ChoiceDecoded
            DEF Known
  <1> QED BY <1>1, <1>3, <1>4, <1>5 DEF Clients

\* A choice of one tool stays a choice of a declared one.
Followed(r, s) ==
    r.choice.mode = "tool" /\ r.choice.name \in DeclaredNames(r.tools)
        => s.choice.name \in DeclaredNames(s.tools)

\* The repair keeps it so, and leaves tools with legal, distinct names that
\* the choice follows.
LEMMA RequestRepaired ==
  ASSUME NEW r, Known(r)
  PROVE  LET s == SanitizeRequest(r).req IN
         Known(s) /\ (r.messages # <<>> => TaughtNames(s.tools) /\ Followed(r, s))
  <1> DEFINE tools == GovernToolDecls(r)
             pairs == PairTools(tools.req)
             prune == PruneEmpty(pairs.req)
             merge == MergeAdjacentRoles(prune.req)
             g == tools.req
             all == FoldLeft(KeepTool, [tools |-> <<>>, notes |-> {}], r.tools)
             renamed == ApplyToolRenames(r)
  <1>1. /\ Declared(all.tools) /\ TaughtNames(all.tools)
        /\ \A i \in DOMAIN r.tools :
              r.tools[i].name # Unnamed => Heard(all.tools, r.tools[i].name)
        /\ all.notes = {} => TaughtNames(r.tools)
    BY ToolDeclsKept DEF Known
  <1>2. /\ DOMAIN renamed = DOMAIN r
        /\ \/ renamed.choice = r.choice
           \/ /\ r.choice.mode = "tool"
              /\ \E name : renamed.choice = [r.choice EXCEPT !.name = name]
    <2> DEFINE declared == {r.tools[i].name : i \in DOMAIN r.tools}
               c == RenameChoice(r.choice, declared)
    <2>1. renamed.choice = c /\ DOMAIN renamed = DOMAIN r
      BY DEF ApplyToolRenames, Known, Whole, Has
    <2>2. \/ c = r.choice
          \/ /\ r.choice.mode = "tool"
             /\ \E name : c = [r.choice EXCEPT !.name = name]
      BY DEF RenameChoice
    <2> HIDE DEF c, renamed
    <2> QED BY <2>1, <2>2
  <1>3. ChoiceKnown(renamed.choice)
    <2>1. ASSUME NEW name, r.choice.mode = "tool"
          PROVE  ChoiceKnown([r.choice EXCEPT !.name = name])
      BY <2>1 DEF Known, ChoiceKnown, Has, NoChoice
    <2> HIDE DEF renamed
    <2> QED BY <1>2, <2>1 DEF Known
  <1>4. /\ all.notes = {} => g = r
        /\ all.notes # {} => g = [renamed EXCEPT !.tools = all.tools]
    BY DEF GovernToolDecls
  <1>choice. ASSUME r.choice.mode = "tool", r.choice.name \in DeclaredNames(r.tools)
             PROVE  renamed.choice.name = SanitizeToolName(r.choice.name)
    <2> DEFINE declared == {r.tools[i].name : i \in DOMAIN r.tools}
    <2>1. renamed.choice = RenameChoice(r.choice, declared)
      BY DEF ApplyToolRenames, Known, Whole, Has
    <2>2. r.choice.name \in declared BY <1>choice DEF DeclaredNames
    <2>3. Has(r.choice, "name") BY <1>choice DEF Known, ChoiceKnown, NoChoice
    <2> HIDE DEF renamed, declared
    <2> QED BY <1>choice, <2>1, <2>2, <2>3 DEF RenameChoice, Has
  <1> HIDE DEF all, renamed, g
  <1>follow. Followed(r, g)
    <2>1. ASSUME r.choice.mode = "tool", r.choice.name \in DeclaredNames(r.tools),
                 all.notes # {}
          PROVE  g.choice.name \in DeclaredNames(g.tools)
      <3>1. g.choice = renamed.choice /\ g.tools = all.tools
        BY <1>2, <1>4, <2>1 DEF Known, Whole, Has
      <3>2. Heard(all.tools, r.choice.name) BY <1>1, <2>1 DEF DeclaredNames
      <3>3. PICK j \in DOMAIN all.tools :
                all.tools[j].name = SanitizeToolName(r.choice.name)
        BY <3>2 DEF Heard
      <3>4. all.tools[j].name # Unnamed BY <1>1 DEF TaughtNames
      <3> QED BY <1>choice, <2>1, <3>1, <3>3, <3>4 DEF DeclaredNames
    <2> QED BY <1>4, <2>1 DEF Followed
  <1>5. DOMAIN g = DOMAIN r /\ Declared(g.tools) /\ TaughtNames(g.tools)
        /\ ChoiceKnown(g.choice)
    BY <1>1, <1>2, <1>3, <1>4 DEF Known, Whole, Has
  <1>6. \A q : DOMAIN PairTools(q).req = DOMAIN q BY DEF PairTools
  <1>7. \A q : DOMAIN PruneEmpty(q).req = DOMAIN q BY DEF PruneEmpty
  <1>8. \A q : DOMAIN MergeAdjacentRoles(q).req = DOMAIN q
    BY DEF MergeAdjacentRoles
  <1>9. \A q : Has(q, "tools") /\ Has(q, "choice") =>
           /\ PairTools(q).req.tools = q.tools /\ PairTools(q).req.choice = q.choice
           /\ PruneEmpty(q).req.tools = q.tools /\ PruneEmpty(q).req.choice = q.choice
           /\ MergeAdjacentRoles(q).req.tools = q.tools
           /\ MergeAdjacentRoles(q).req.choice = q.choice
    BY DEF PairTools, PruneEmpty, MergeAdjacentRoles, Has
  <1>10. tools.req = g BY DEF g
  <1> HIDE DEF tools, pairs, prune, merge
  <1>11. /\ DOMAIN merge.req = DOMAIN r
         /\ merge.req.tools = g.tools /\ merge.req.choice = g.choice
    BY <1>5, <1>6, <1>7, <1>8, <1>9, <1>10
    DEF Known, Whole, Has, pairs, prune, merge
  <1>12. SanitizeRequest(r).req = IF r.messages = <<>> THEN r ELSE merge.req
    BY DEF SanitizeRequest, tools, pairs, prune, merge
  <1>13. SameBut(r, SanitizeRequest(r).req, {"tools", "choice", "messages"})
    BY RequestSanitized
  <1>14. \/ Known(merge.req) /\ TaughtNames(merge.req.tools)
         \/ SanitizeRequest(r).req # merge.req
    BY <1>5, <1>11, <1>13 DEF Known, Whole, Has, SameBut
  <1>15. Followed(r, merge.req) BY <1>follow, <1>11 DEF Followed
  <1> QED BY <1>12, <1>14, <1>15

-----------------------------------------------------------------------------
(* The way of a request.                                                   *)

\* The inductive invariant.  A stage says what the variables are functions
\* of: the decoded request of the body, the repaired request of the decoded
\* one, body and notes of the repaired request and the target.
InvWay ==
    /\ body \in Bodies
    /\ stage \in {"received", "refused", "decoded", "repaired", "sent"}
    /\ stage \in {"decoded", "repaired", "sent"} =>
          decoded = Decoded(body.client, body.raw)
    /\ stage \in {"repaired", "sent"} =>
          req = SanitizeRequest(decoded).req /\ repairs = SanitizeRequest(decoded).notes
    /\ stage = "sent" =>
          /\ target \in Protocols
          /\ wire = Encoded(target, ShapeRequest(target, req).req)
          /\ notes = NotesOf(target, req, ShapeRequest(target, req))

\* It holds when a body is received,
LEMMA WayInit == Init => InvWay
  BY DEF Init, InvWay

\* and every step of the way keeps it: an attempt shapes a copy, so that
\* the next attempt finds the request the repair left.
LEMMA WayStep == InvWay /\ [Next]_vars => InvWay'
  <1> SUFFICES ASSUME InvWay, [Next]_vars PROVE InvWay'
    OBVIOUS
  <1>1. CASE Decode
    BY <1>1 DEF InvWay, Decode
  <1>2. CASE Repair
    <2>1. /\ req' = SanitizeRequest(decoded).req
          /\ repairs' = SanitizeRequest(decoded).notes
      BY <1>2 DEF Repair
    <2> QED BY <1>2, <2>1 DEF InvWay, Repair
  <1>3. CASE Attempt
    <2>1. /\ wire' = Encoded(target', ShapeRequest(target', req).req)
          /\ notes' = NotesOf(target', req, ShapeRequest(target', req))
          /\ req' = req /\ target' \in Protocols /\ stage' = "sent"
      BY <1>3 DEF Attempt
    <2>2. /\ UNCHANGED <<body, decoded, req, repairs>>
          /\ stage \in {"repaired", "sent"}
      BY <1>3 DEF Attempt
    <2> QED BY <2>1, <2>2 DEF InvWay
  <1>4. CASE UNCHANGED vars BY <1>4 DEF InvWay, vars
  <1> QED BY <1>1, <1>2, <1>3, <1>4 DEF Next

\* What is sent, and what the client is told about it, is a function of its
\* body and of the target alone, whatever targets were tried before and in
\* whatever order (pipeline.go:266-267, 432-443).
THEOREM WayInvariance == Spec => []InvWay
  <1> QED BY WayInit, WayStep, PTL DEF Spec

\* What the repair leaves is known in every later stage.
LEMMA WayKnown ==
  ASSUME InvWay, stage \in {"repaired", "sent"}
  PROVE  /\ Known(req)
         /\ decoded.messages # <<>> => TaughtNames(req.tools) /\ Followed(decoded, req)
  <1>1. Known(decoded) BY RequestDecoded DEF InvWay
  <1>2. req = SanitizeRequest(decoded).req BY DEF InvWay
  <1> QED BY <1>1, <1>2, RequestRepaired

\* Names that are each its own are as many as the declarations.
LEMMA NamesCounted ==
  ASSUME NEW tools, Declared(tools), TaughtNames(tools)
  PROVE  Cardinality({tools[i].name : i \in DOMAIN tools}) = Len(tools)
  <1> DEFINE n == Len(tools)
             names == {tools[i].name : i \in DOMAIN tools}
             f == [i \in 1..n |-> tools[i].name]
  <1>1. n \in Nat /\ DOMAIN tools = 1..n BY Sequence DEF Declared
  <1>2. f \in [1..n -> names] BY <1>1
  <1>3. \A i, j \in 1..n : f[i] = f[j] => i = j BY <1>1 DEF TaughtNames
  <1>4. \A x \in names : \E i \in 1..n : f[i] = x BY <1>1
  <1> HIDE DEF n, f, names
  <1>5. f \in Bijection(1..n, names)
    BY <1>2, <1>3, <1>4 DEF Bijection, Injection, Surjection, IsInjective
  <1>6. ExistsBijection(1..n, names) BY <1>5 DEF ExistsBijection
  <1>7. Cardinality(names) = n BY <1>1, <1>6, FS_CountingElements
  <1> QED BY <1>7 DEF n, names

\* In every reachable state after the repair, for every body: the tools
\* have names an upstream takes, each its own, however many the client
\* declared under one name or under names that are repaired to one
\* (tooldecl.go, governToolDecls).
THEOREM RepairedToolsGoverned == Spec => [](Repairing => ToolsGoverned)
  <1>1. ASSUME InvWay, Repairing PROVE ToolsGoverned
    <2>1. Declared(req.tools) /\ TaughtNames(req.tools)
      BY <1>1, WayKnown DEF Repairing, Known
    <2>2. Cardinality({req.tools[i].name : i \in DOMAIN req.tools}) = Len(req.tools)
      BY <2>1, NamesCounted
    <2> QED BY <2>1, <2>2 DEF ToolsGoverned, TaughtNames
  <1> QED BY <1>1, WayInvariance, PTL

\* In every reachable state after the repair, for every body, a choice of one
\* tool that the client declared is a choice of a declared tool still, by
\* the name the repair gave it (tooldecl.go, applyToolRenames).
THEOREM RepairedChoiceFollows == Spec => [](Repairing => ChoiceFollows)
  <1>1. ASSUME InvWay, Repairing PROVE ChoiceFollows
    BY <1>1, WayKnown DEF Repairing, ChoiceFollows, Followed
  <1> QED BY <1>1, WayInvariance, PTL

-----------------------------------------------------------------------------
(* The capabilities dimensions need, table by table.                       *)

\* The capability each way of sampling needs (describeParamsLossy).
LEMMA SamplingValues ==
  /\ \A d : d \in DOMAIN SamplingSwitch <=> d \in SamplingDims
  /\ SamplingSwitch["presence_penalty"] = "Penalties"
  /\ SamplingSwitch["frequency_penalty"] = "Penalties"
  /\ SamplingSwitch["seed"] = "Seed"
  /\ SamplingSwitch["n"] = "Candidates"
  /\ SamplingSwitch["top_k"] = "TopK"
  /\ SamplingSwitch["stop_sequences"] = "StopSequences"
  /\ SamplingSwitch["logit_bias"] = "LogitBias"
  BY Merged, Single DEF SamplingSwitch, SamplingDims

\* The capability each wish about the service needs.
LEMMA ServiceValues ==
  /\ \A d : d \in DOMAIN ServiceSwitch <=> d \in ServiceDims
  /\ ServiceSwitch["service_tier"] = "ServiceTier"
  /\ ServiceSwitch["prompt_cache_key"] = "PromptCacheKey"
  /\ ServiceSwitch["safety_identifier"] = "SafetyIdentifier"
  /\ ServiceSwitch["moderation"] = "Moderation"
  /\ ServiceSwitch["prompt_cache_options"] = "PromptCacheOptions"
  /\ ServiceSwitch["prompt_cache_retention"] = "PromptCacheRetention"
  /\ ServiceSwitch["metadata"] = "ClientMetadata"
  BY Merged, Single DEF ServiceSwitch, ServiceDims

\* The capability each wish about the answer needs.
LEMMA AnswerValues ==
  /\ \A d : d \in DOMAIN AnswerSwitch <=> d \in AnswerDims
  /\ AnswerSwitch["parallel_tool_calls"] = "ParallelToolCalls"
  /\ AnswerSwitch["verbosity"] = "Verbosity"
  /\ AnswerSwitch["include"] = "Include"
  /\ AnswerSwitch["truncation"] = "Truncation"
  /\ AnswerSwitch["max_tool_calls"] = "MaxToolCalls"
  /\ AnswerSwitch["include_obfuscation"] = "StreamObfuscation"
  /\ AnswerSwitch["top_logprobs"] = "LogProbs"
  BY Merged, Single DEF AnswerSwitch, AnswerDims

\* Switch is the three tables side by side.
LEMMA SwitchDomain ==
  ASSUME NEW d
  PROVE  /\ d \in DOMAIN Switch <=> d \in SwitchDims
         /\ d \in SamplingDims => Switch[d] = SamplingSwitch[d]
         /\ d \in ServiceDims => Switch[d] = ServiceSwitch[d]
         /\ d \in AnswerDims => Switch[d] = AnswerSwitch[d]
  <1>1. d \in SamplingDims => d \notin ServiceDims /\ d \notin AnswerDims
    BY DEF SamplingDims, ServiceDims, AnswerDims
  <1>2. d \in ServiceDims => d \notin AnswerDims
    BY DEF ServiceDims, AnswerDims
  <1> QED BY <1>1, <1>2, Merged, SamplingValues, ServiceValues, AnswerValues
          DEF Switch, SwitchDims

\* The protocol each of them belongs to (DescribeLossy).
LEMMA OnlyInValues ==
  /\ \A d : d \in DOMAIN OnlyIn <=> d \in OnlyInDims
  /\ OnlyIn["inference_geo"] = "anthropic"
  /\ OnlyIn["container"] = "anthropic"
  /\ OnlyIn["mcp_servers"] = "anthropic"
  /\ OnlyIn["context_management"] = "anthropic"
  /\ OnlyIn["diagnostics"] = "anthropic"
  /\ OnlyIn["access_programs"] = "responses"
  /\ OnlyIn["prediction"] = "chat"
  /\ OnlyIn["web_search_options"] = "chat"
  BY Merged, Single DEF OnlyIn, OnlyInDims

\* A switched dimension is in one of the three tables.
LEMMA SwitchValue ==
  ASSUME NEW d \in SwitchDims
  PROVE  \/ d \in SamplingDims /\ Switch[d] = SamplingSwitch[d]
         \/ d \in ServiceDims /\ Switch[d] = ServiceSwitch[d]
         \/ d \in AnswerDims /\ Switch[d] = AnswerSwitch[d]
  BY SwitchDomain DEF SwitchDims

-----------------------------------------------------------------------------
(* Shaping of parameters.                                                  *)

\* What limiting stop sequences changes,
ShapedStops == {"stop_sequences"}

\* what the sampling steps change,
ShapedSampling == {"temperature", "top_p"}

\* and what clamping the budget changes.
ShapedBudget == {"thinking_budget"}

\* A budget that is clamped is said to be rewritten, and stays a budget.
LEMMA BudgetClamped ==
  ASSUME NEW p, NEW f
  PROVE  LET r == ClampBudget(p, f) IN
         /\ SameBut(f, r.value, ShapedBudget)
         /\ SameBut(f, r.value, {}) \/ Rewrote("thinking.budget_tokens") \in r.notes
         /\ "thinking_budget" \in DOMAIN f <=> "thinking_budget" \in DOMAIN r.value
  BY DEF ClampBudget, SameBut, ShapedBudget

\* Thinking goes with all its settings and with a note, or nothing changes.
LEMMA ThinkingDropped ==
  ASSUME NEW p, NEW f, NEW choice
  PROVE  LET r == DropThinking(p, f, choice) IN
         /\ SameBut(f, r.value, ThinkingDims)
         /\ SameBut(f, r.value, {}) \/ Dropped("thinking") \in r.notes
  <1> DEFINE r == DropThinking(p, f, choice)
  <1>1. CASE ThinkingMustGo(p, f, choice)
    <2>1. r.value = Without(f, ThinkingDims) /\ r.notes = {Dropped("thinking")}
      BY <1>1 DEF DropThinking
    <2>2. SameBut(f, Without(f, ThinkingDims), ThinkingDims)
      BY Removed DEF SameBut
    <2> QED BY <2>1, <2>2
  <1>2. CASE ~ThinkingMustGo(p, f, choice)
    <2>1. r.value = f BY <1>2 DEF DropThinking
    <2> QED BY <2>1 DEF SameBut
  <1> QED BY <1>1, <1>2

\* Sampling parameters thinking excludes go with a note.
LEMMA SamplingDropped ==
  ASSUME NEW p, NEW f
  PROVE  LET r == DropSampling(p, f) IN
         /\ SameBut(f, r.value, ShapedSampling)
         /\ SameBut(f, r.value, {}) \/ Dropped("temperature/top_p") \in r.notes
  <1> DEFINE r == DropSampling(p, f)
             must == ThinkingOn(f) /\ Can(p, "ThinkingExcludesSampling")
                     /\ {"temperature", "top_p"} \cap DOMAIN f # {}
  <1>1. CASE must
    <2>1. r.value = Without(f, ShapedSampling)
          /\ r.notes = {Dropped("temperature/top_p")}
      BY <1>1 DEF DropSampling, ShapedSampling
    <2>2. SameBut(f, Without(f, ShapedSampling), ShapedSampling)
      BY Removed DEF SameBut
    <2> QED BY <2>1, <2>2
  <1>2. CASE ~must
    <2>1. r.value = f BY <1>2 DEF DropSampling
    <2> QED BY <2>1 DEF SameBut
  <1> QED BY <1>1, <1>2

\* A temperature out of bounds is rewritten with a note.
LEMMA TemperatureClamped ==
  ASSUME NEW p, NEW f
  PROVE  LET r == ClampTemperature(p, f) IN
         /\ SameBut(f, r.value, {"temperature"})
         /\ SameBut(f, r.value, {}) \/ Rewrote("temperature") \in r.notes
  BY DEF ClampTemperature, SameBut

\* Stop sequences beyond the limit go with a note.
LEMMA StopsLimited ==
  ASSUME NEW p, NEW f
  PROVE  LET r == LimitStops(p, f) IN
         /\ SameBut(f, r.value, ShapedStops)
         /\ SameBut(f, r.value, {}) \/ Dropped("stop_sequences") \in r.notes
  BY DEF LimitStops, SameBut, ShapedStops

\* Agreement composes.
LEMMA SameChain ==
  ASSUME NEW f, NEW g, NEW h, NEW D, NEW E, NEW F,
         SameBut(f, g, D), SameBut(g, h, E), D \subseteq F, E \subseteq F
  PROVE  SameBut(f, h, F)
  BY DEF SameBut

\* What shaping changes of the parameters, thinking apart.
OtherShaped == ShapedSampling \cup ShapedStops

\* A sampling parameter or list of stop sequences stays as it is or is in a
\* note,
SampledAs(f, g, told) ==
    /\ \A d \in ShapedSampling \cap DOMAIN f :
          \/ d \in DOMAIN g /\ g[d] = f[d]
          \/ Dropped("temperature/top_p") \in told
          \/ d = "temperature" /\ Rewrote("temperature") \in told
    /\ "stop_sequences" \in DOMAIN f =>
          \/ "stop_sequences" \in DOMAIN g /\ g["stop_sequences"] = f["stop_sequences"]
          \/ Dropped("stop_sequences") \in told

\* and so is thinking: dropped as a whole, or only its budget rewritten.
ThoughtAs(f, g, told) ==
    \/ Dropped("thinking") \in told
    \/ /\ SameBut(f, g, OtherShaped \cup ShapedBudget)
       /\ SameBut(f, g, OtherShaped) \/ Rewrote("thinking.budget_tokens") \in told

\* Whatever the parameters and the target are, the five steps of
\* shapeParams, of which each looks at what the one before left, change
\* nothing but thinking, sampling and stop sequences, and nothing of these
\* without a note: the promise of shape.go:29-45 for parameters.
THEOREM ParamsShaped ==
  ASSUME NEW p, NEW r, Has(r, "params")
  PROVE  LET s == ShapeParams(p, r) IN
         /\ SameBut(r.params, s.req.params, ThinkingDims \cup OtherShaped)
         /\ SampledAs(r.params, s.req.params, s.notes)
         /\ ThoughtAs(r.params, s.req.params, s.notes)
  <1> DEFINE budget  == ClampBudget(p, r.params)
             think   == DropThinking(p, budget.value, r.choice)
             sample  == DropSampling(p, think.value)
             heat    == ClampTemperature(p, sample.value)
             stops   == LimitStops(p, heat.value)
             s == ShapeParams(p, r)
             f == r.params
             g == s.req.params
  <1>1. s.notes = UNION {budget.notes, think.notes, sample.notes, heat.notes,
                         stops.notes}
    BY DEF ShapeParams, Step
  <1>2. g = stops.value
    <2>1. s.req = [r EXCEPT !.params = stops.value] BY DEF ShapeParams, Step
    <2> HIDE DEF s, stops
    <2> QED BY <2>1 DEF Has
  <1>3. /\ SameBut(f, budget.value, ShapedBudget)
        /\ SameBut(f, budget.value, {}) \/ Rewrote("thinking.budget_tokens") \in budget.notes
        /\ "thinking_budget" \in DOMAIN f <=> "thinking_budget" \in DOMAIN budget.value
    BY BudgetClamped
  <1>4. /\ SameBut(budget.value, think.value, ThinkingDims)
        /\ SameBut(budget.value, think.value, {}) \/ Dropped("thinking") \in think.notes
    BY ThinkingDropped
  <1>5. /\ SameBut(think.value, sample.value, ShapedSampling)
        /\ SameBut(think.value, sample.value, {})
           \/ Dropped("temperature/top_p") \in sample.notes
    BY SamplingDropped
  <1>6. /\ SameBut(sample.value, heat.value, {"temperature"})
        /\ SameBut(sample.value, heat.value, {}) \/ Rewrote("temperature") \in heat.notes
    BY TemperatureClamped
  <1>7. /\ SameBut(heat.value, stops.value, ShapedStops)
        /\ SameBut(heat.value, stops.value, {}) \/ Dropped("stop_sequences") \in stops.notes
    BY StopsLimited
  <1> HIDE DEF budget, think, sample, heat, stops, s, f, g
  <1>8. SameBut(think.value, g, OtherShaped)
    BY <1>2, <1>5, <1>6, <1>7 DEF SameBut, OtherShaped, ShapedSampling, ShapedStops
  <1>9. SameBut(f, g, ThinkingDims \cup OtherShaped)
    <2>1. SameBut(f, think.value, ThinkingDims)
      BY <1>3, <1>4 DEF SameBut, ThinkingDims, ShapedBudget
    <2> QED BY <1>8, <2>1 DEF SameBut
  <1>10. SampledAs(f, g, s.notes)
    <2>1. \A d \in OtherShaped : d \notin ThinkingDims
      BY DEF OtherShaped, ShapedSampling, ShapedStops, ThinkingDims
    <2>2. \A d \in OtherShaped : (d \in DOMAIN f <=> d \in DOMAIN think.value)
                                 /\ (d \in DOMAIN f => think.value[d] = f[d])
      BY <1>3, <1>4, <2>1 DEF SameBut, ShapedBudget, ThinkingDims
    <2>3. \A d \in ShapedSampling \cap DOMAIN f :
             \/ d \in DOMAIN g /\ g[d] = f[d]
             \/ Dropped("temperature/top_p") \in s.notes
             \/ d = "temperature" /\ Rewrote("temperature") \in s.notes
      BY <1>1, <1>2, <1>5, <1>6, <1>7, <2>2
         DEF SameBut, OtherShaped, ShapedSampling, ShapedStops
    <2>4. "stop_sequences" \in DOMAIN f =>
             \/ "stop_sequences" \in DOMAIN g /\ g["stop_sequences"] = f["stop_sequences"]
             \/ Dropped("stop_sequences") \in s.notes
      BY <1>1, <1>2, <1>5, <1>6, <1>7, <2>2
         DEF SameBut, OtherShaped, ShapedSampling, ShapedStops
    <2> QED BY <2>3, <2>4 DEF SampledAs
  <1>11. ThoughtAs(f, g, s.notes)
    <2>1. CASE Dropped("thinking") \in think.notes
      BY <1>1, <2>1 DEF ThoughtAs
    <2>2. CASE SameBut(budget.value, think.value, {})
      <3>1. SameBut(f, think.value, ShapedBudget) BY <1>3, <2>2 DEF SameBut
      <3>2. SameBut(f, g, OtherShaped \cup ShapedBudget) BY <1>8, <3>1 DEF SameBut
      <3>3. CASE SameBut(f, budget.value, {})
        <4>1. SameBut(f, g, OtherShaped) BY <1>8, <2>2, <3>3 DEF SameBut
        <4> QED BY <3>2, <4>1 DEF ThoughtAs
      <3>4. CASE Rewrote("thinking.budget_tokens") \in budget.notes
        BY <1>1, <3>2, <3>4 DEF ThoughtAs
      <3> QED BY <1>3, <3>3, <3>4
    <2> QED BY <1>4, <2>1, <2>2
  <1> QED BY <1>9, <1>10, <1>11 DEF f, g, s

-----------------------------------------------------------------------------
(* Shaping of a request.                                                   *)

\* Filling in a message and moving media out of results change messages
\* only.
LEMMA MessagesShaped ==
  ASSUME NEW p, NEW r
  PROVE  /\ SameBut(r, EnsureNonEmptyMessages(r).req, {"messages"})
         /\ SameBut(r, MoveToolResultMedia(p, r).req, {"messages"})
  <1>1. EnsureNonEmptyMessages(r).req = r
        \/ \E m : EnsureNonEmptyMessages(r).req = [r EXCEPT !.messages = m]
    BY DEF EnsureNonEmptyMessages, Step
  <1>2. MoveToolResultMedia(p, r).req = r
        \/ \E m : MoveToolResultMedia(p, r).req = [r EXCEPT !.messages = m]
    BY DEF MoveToolResultMedia, Step
  <1>3. \A m : SameBut(r, [r EXCEPT !.messages = m], {"messages"})
    BY DEF SameBut
  <1>4. SameBut(r, r, {"messages"}) BY DEF SameBut
  <1> QED BY <1>1, <1>2, <1>3, <1>4

\* The steps about tools change tools and the choice only.
LEMMA ToolsOnlyShaped ==
  ASSUME NEW p, NEW r
  PROVE  /\ SameBut(r, DropServerTools(p, r).req, {"tools"})
         /\ SameBut(r, EnforceToolAllowlist(r).req, {"tools"})
         /\ SameBut(r, ShapeToolSchemas(p, r).req, {"tools"})
         /\ SameBut(r, ShapeToolChoice(r).req, {"choice"})
         /\ SameBut(r, ShapeTools(p, r).req, {"tools", "choice"})
  <1> DEFINE server == DropServerTools(p, r)
             allow  == EnforceToolAllowlist(server.req)
             schema == ShapeToolSchemas(p, allow.req)
             choice == ShapeToolChoice(schema.req)
  <1>1. \A q : SameBut(q, q, {"tools"}) /\ SameBut(q, q, {"choice"})
               /\ (\A t : SameBut(q, [q EXCEPT !.tools = t], {"tools"}))
               /\ (\A c : SameBut(q, [q EXCEPT !.choice = c], {"choice"}))
    BY DEF SameBut
  <1>2. \A q : SameBut(q, DropServerTools(p, q).req, {"tools"})
    <2>1. \A q : DropServerTools(p, q).req = q
                 \/ \E t : DropServerTools(p, q).req = [q EXCEPT !.tools = t]
      BY DEF DropServerTools, Step
    <2> QED BY <1>1, <2>1
  <1>3. \A q : SameBut(q, EnforceToolAllowlist(q).req, {"tools"})
    <2>1. \A q : EnforceToolAllowlist(q).req = q
                 \/ \E t : EnforceToolAllowlist(q).req = [q EXCEPT !.tools = t]
      BY DEF EnforceToolAllowlist, Step
    <2> QED BY <1>1, <2>1
  <1>4. \A q : SameBut(q, ShapeToolSchemas(p, q).req, {"tools"})
    <2>1. \A q : \E t : ShapeToolSchemas(p, q).req = [q EXCEPT !.tools = t]
      BY DEF ShapeToolSchemas, Step
    <2> QED BY <1>1, <2>1
  <1>5. \A q : SameBut(q, ShapeToolChoice(q).req, {"choice"})
    <2>1. ASSUME NEW q
          PROVE  ShapeToolChoice(q).req = q
                 \/ \E c : ShapeToolChoice(q).req = [q EXCEPT !.choice = c]
      <3>1. CASE q.choice # NoChoice /\ q.tools = <<>>
        BY <3>1 DEF ShapeToolChoice, Step
      <3>2. CASE q.tools # <<>> /\ q.choice.mode = "tool" /\ q.choice # NoChoice
                 /\ \A i \in DOMAIN q.tools : q.tools[i].name # q.choice.name
        <4>1. ShapeToolChoice(q) =
                 Step([q EXCEPT !.choice = [mode |-> "auto"]], {Rewrote("tool_choice")})
          BY <3>2 DEF ShapeToolChoice
        <4>2. ShapeToolChoice(q).req = [q EXCEPT !.choice = [mode |-> "auto"]]
          BY <4>1 DEF Step
        <4> QED BY <4>2
      <3>3. CASE q.choice = NoChoice BY <3>3 DEF ShapeToolChoice, Step, NoChoice
      <3> QED BY <3>1, <3>2, <3>3 DEF ShapeToolChoice, Step
    <2> QED BY <1>1, <2>1
  <1>6. ShapeTools(p, r).req = choice.req BY DEF ShapeTools, Step
  <1>7. SameBut(r, choice.req, {"tools", "choice"})
    <2>1. SameBut(r, server.req, {"tools"}) /\ SameBut(server.req, allow.req, {"tools"})
          /\ SameBut(allow.req, schema.req, {"tools"})
          /\ SameBut(schema.req, choice.req, {"choice"})
      BY <1>2, <1>3, <1>4, <1>5
    <2> HIDE DEF server, allow, schema, choice
    <2>2. SameBut(r, allow.req, {"tools"}) BY <2>1 DEF SameBut
    <2>3. SameBut(r, schema.req, {"tools"}) BY <2>1, <2>2 DEF SameBut
    <2> QED BY <2>1, <2>3 DEF SameBut
  <1> QED BY <1>2, <1>3, <1>4, <1>5, <1>6, <1>7

\* The step about parameters changes parameters only,
LEMMA ParamsOnlyShaped ==
  ASSUME NEW p, NEW r
  PROVE  SameBut(r, ShapeParams(p, r).req, {"params"})
  <1>1. \E v : ShapeParams(p, r).req = [r EXCEPT !.params = v]
    BY DEF ShapeParams, Step
  <1> QED BY <1>1 DEF SameBut

\* the step about the system prompt the system prompt,
LEMMA SystemOnlyShaped ==
  ASSUME NEW p, NEW r
  PROVE  SameBut(r, ShapeSystem(p, r).req, {"system"})
  <1>1. \E v : ShapeSystem(p, r).req = [r EXCEPT !.system = v]
    BY DEF ShapeSystem, Step
  <1> QED BY <1>1 DEF SameBut

\* and the cache budget tools, system prompt and messages.
LEMMA CacheShaped ==
  ASSUME NEW p, NEW r
  PROVE  SameBut(r, BudgetCache(p, r).req, {"tools", "system", "messages"})
  <1>1. BudgetCache(p, r).req = r
        \/ \E t, s, m : BudgetCache(p, r).req =
                           [r EXCEPT !.tools = t, !.system = s, !.messages = m]
    BY DEF BudgetCache, Step
  <1> QED BY <1>1 DEF SameBut

\* The six steps of ShapeRequest in a row: what each leaves to the next,
\* and that no later step changes the parameters or loses a note.
LEMMA RequestShaped ==
  ASSUME NEW p, NEW r, Whole(r)
  PROVE  LET full   == EnsureNonEmptyMessages(r)
             media  == MoveToolResultMedia(p, full.req)
             tools  == ShapeTools(p, media.req)
             params == ShapeParams(p, tools.req)
             system == ShapeSystem(p, params.req)
             cache  == BudgetCache(p, system.req)
             s      == ShapeRequest(p, r)
         IN /\ s.req = cache.req
            /\ s.notes = UNION {full.notes, media.notes, tools.notes,
                                params.notes, system.notes, cache.notes}
            /\ SameBut(r, media.req, {"messages"})
            /\ SameBut(r, tools.req, {"messages", "tools", "choice"})
            /\ SameBut(tools.req, system.req, {"params", "system"})
            /\ SameBut(system.req, s.req, {"tools", "system", "messages"})
            /\ s.req.params = params.req.params
            /\ Has(s.req, "params")
  <1> DEFINE full   == EnsureNonEmptyMessages(r)
             media  == MoveToolResultMedia(p, full.req)
             tools  == ShapeTools(p, media.req)
             params == ShapeParams(p, tools.req)
             system == ShapeSystem(p, params.req)
             cache  == BudgetCache(p, system.req)
             s      == ShapeRequest(p, r)
  <1>1. /\ s.req = cache.req
        /\ s.notes = UNION {full.notes, media.notes, tools.notes,
                            params.notes, system.notes, cache.notes}
    BY DEF ShapeRequest, Step
  <1>2. SameBut(r, full.req, {"messages"}) BY MessagesShaped
  <1>3. SameBut(full.req, media.req, {"messages"}) BY MessagesShaped
  <1>4. SameBut(media.req, tools.req, {"tools", "choice"}) BY ToolsOnlyShaped
  <1>5. SameBut(tools.req, params.req, {"params"}) BY ParamsOnlyShaped
  <1>6. SameBut(params.req, system.req, {"system"}) BY SystemOnlyShaped
  <1>7. SameBut(system.req, cache.req, {"tools", "system", "messages"})
    BY CacheShaped
  <1> HIDE DEF full, media, tools, params, system, cache, s
  <1>8. SameBut(r, media.req, {"messages"}) BY <1>2, <1>3 DEF SameBut
  <1>9. SameBut(r, tools.req, {"messages", "tools", "choice"})
    BY <1>4, <1>8 DEF SameBut
  <1>10. SameBut(tools.req, system.req, {"params", "system"})
    BY <1>5, <1>6 DEF SameBut
  <1>11. Has(params.req, "params")
    <2>1. Has(tools.req, "params") BY <1>9 DEF SameBut, Whole, Has
    <2>2. Has(ShapeParams(p, tools.req).req, "params")
      <3> DEFINE t == tools.req
      <3>1. \E v : ShapeParams(p, t).req = [t EXCEPT !.params = v]
        BY DEF ShapeParams, Step
      <3> HIDE DEF t
      <3> QED BY <2>1, <3>1 DEF t, Has
    <2> QED BY <2>2 DEF params
  <1>12. s.req.params = params.req.params /\ Has(s.req, "params")
    BY <1>1, <1>6, <1>7, <1>11 DEF SameBut, Has
  <1> QED BY <1>1, <1>7, <1>8, <1>9, <1>10, <1>12
          DEF full, media, tools, params, system, cache, s

-----------------------------------------------------------------------------
(* A request in flight: what all targets have in common.                   *)

\* A note by its verb speaks for the field it names.
LEMMA NotedBy ==
  ASSUME NEW x, NEW names, x \in names
  PROVE  /\ Dropped(x) \in notes => Noted(names)
         /\ Rewrote(x) \in notes => Noted(names)
         /\ Unreturned(x) \in notes => Noted(names)
         /\ Filled(x) \in notes => Said("filled", x)
  <1>1. Dropped(x)[1] = "dropped" /\ Dropped(x)[2] = x BY DEF Dropped
  <1>2. Rewrote(x)[1] = "rewrote" /\ Rewrote(x)[2] = x BY DEF Rewrote
  <1>3. Unreturned(x)[1] = "unreturned" /\ Unreturned(x)[2] = x BY DEF Unreturned
  <1> QED BY <1>1, <1>2, <1>3 DEF Noted, Said, Filled

\* What is known once a body has been sent: the request is one a decoder
\* can return and the repair can leave, the body is encoded from its shaped
\* copy, and the notes are made from the request as it was.
InFlight ==
    /\ target \in Protocols
    /\ Whole(req)
    /\ Understood(req.params)
    /\ Declared(req.tools)
    /\ ChoiceKnown(req.choice)
    /\ wire = Encoded(target, ShapeRequest(target, req).req)
    /\ notes = NotesOf(target, req, ShapeRequest(target, req))

\* The copy that was encoded.
Shaped == ShapeRequest(target, req).req

\* ParamsAccounted for one dimension.
Accounted(d) ==
    LET v == req.params[d] IN
    AsksNothing(d, v) \/ Reaches(d, v) \/ Noted(SpokenFor(d))
    \/ DepthAccounted(d)

\* The notes of a request contain those of each list of losses.
LEMMA NotesIncluded ==
  ASSUME InFlight
  PROVE  /\ ParamNotes(target, req.params) \subseteq notes
         /\ OnlyInNotes(target, req.params) \subseteq notes
         /\ AudioOutNotes(target, req.params) \subseteq notes
         /\ ThinkingNotes(target, req) \subseteq notes
         /\ ChoiceNotes(target, req) \subseteq notes
         /\ ToolNotes(target, req) \subseteq notes
         /\ ShapeRequest(target, req).notes \subseteq notes
  <1>1. notes = DescribeLossy(target, req) \cup ShapeRequest(target, req).notes
    BY DEF InFlight, NotesOf
  <1>2. /\ ParamNotes(target, req.params) \subseteq DescribeLossy(target, req)
        /\ OnlyInNotes(target, req.params) \subseteq DescribeLossy(target, req)
        /\ AudioOutNotes(target, req.params) \subseteq DescribeLossy(target, req)
        /\ ThinkingNotes(target, req) \subseteq DescribeLossy(target, req)
        /\ ChoiceNotes(target, req) \subseteq DescribeLossy(target, req)
        /\ ToolNotes(target, req) \subseteq DescribeLossy(target, req)
    BY DEF DescribeLossy
  <1> QED BY <1>1, <1>2

\* What ParamsShaped says of the request in flight.
LEMMA ShapedParams ==
  ASSUME InFlight
  PROVE  /\ Has(Shaped, "params")
         /\ SameBut(req.params, Shaped.params, ThinkingDims \cup OtherShaped)
         /\ SampledAs(req.params, Shaped.params, notes)
         /\ ThoughtAs(req.params, Shaped.params, notes)
  <1> DEFINE full   == EnsureNonEmptyMessages(req)
             media  == MoveToolResultMedia(target, full.req)
             tools  == ShapeTools(target, media.req)
             params == ShapeParams(target, tools.req)
  <1>1. /\ SameBut(req, tools.req, {"messages", "tools", "choice"})
        /\ Shaped.params = params.req.params /\ Has(Shaped, "params")
        /\ params.notes \subseteq ShapeRequest(target, req).notes
    BY RequestShaped DEF InFlight, Shaped
  <1>2. params.notes \subseteq notes BY <1>1, NotesIncluded
  <1> HIDE DEF tools
  <1>3. Has(tools.req, "params") /\ tools.req.params = req.params
    BY <1>1 DEF InFlight, Whole, SameBut, Has
  <1>4. /\ SameBut(tools.req.params, params.req.params, ThinkingDims \cup OtherShaped)
        /\ SampledAs(tools.req.params, params.req.params, params.notes)
        /\ ThoughtAs(tools.req.params, params.req.params, params.notes)
    BY <1>3, ParamsShaped
  <1> HIDE DEF params
  <1>5. SampledAs(req.params, Shaped.params, notes)
    BY <1>1, <1>2, <1>3, <1>4 DEF SampledAs
  <1>6. ThoughtAs(req.params, Shaped.params, notes)
    BY <1>1, <1>2, <1>3, <1>4 DEF ThoughtAs
  <1> QED BY <1>1, <1>3, <1>4, <1>5, <1>6

\* A dimension the target has no capability for is in a note.
LEMMA SwitchedAccounted ==
  ASSUME InFlight, NEW d \in DOMAIN req.params \cap SwitchDims,
         ~Can(target, Switch[d])
  PROVE  Accounted(d)
  <1>1. Dropped(d) \in SwitchNotes(target, req.params)
    BY SwitchDomain DEF SwitchNotes
  <1>2. Dropped(d) \in notes BY <1>1, NotesIncluded DEF ParamNotes
  <1> QED BY <1>2, NotedBy DEF Accounted, SpokenFor

\* A dimension of another protocol is in a note or empty.
LEMMA OnlyInAccounted ==
  ASSUME InFlight, NEW d \in DOMAIN req.params \cap OnlyInDims,
         OnlyIn[d] # target
  PROVE  Accounted(d)
  <1>1. CASE Void(d, req.params[d])
    BY <1>1 DEF Accounted, AsksNothing
  <1>2. CASE ~Void(d, req.params[d])
    <2>1. Dropped(d) \in OnlyInNotes(target, req.params)
      BY <1>2, OnlyInValues DEF OnlyInNotes
    <2>2. Dropped(d) \in notes BY <2>1, NotesIncluded
    <2> QED BY <2>2, NotedBy DEF Accounted, SpokenFor
  <1> QED BY <1>1, <1>2

  (* What an encoder passes on as it finds it. *)

\* A dimension the encoder copies from the shaped parameters is accounted
\* for: shaping left it alone or noted it.
LEMMA PlainAccounted ==
  ASSUME InFlight, NEW d \in DOMAIN req.params, d \notin ThinkingDims,
         d \in DOMAIN Shaped.params =>
             d \in DOMAIN wire.params /\ wire.params[d] = Shaped.params[d]
  PROVE  Accounted(d)
  <1>1. CASE d \notin OtherShaped
    <2>1. d \in DOMAIN Shaped.params /\ Shaped.params[d] = req.params[d]
      BY <1>1, ShapedParams DEF SameBut
    <2> QED BY <2>1 DEF Accounted, Reaches, Has
  <1>2. CASE d \in ShapedSampling
    <2>1. \/ d \in DOMAIN Shaped.params /\ Shaped.params[d] = req.params[d]
          \/ Dropped("temperature/top_p") \in notes
          \/ d = "temperature" /\ Rewrote("temperature") \in notes
      BY <1>2, ShapedParams DEF SampledAs
    <2>2. "temperature/top_p" \in SpokenFor(d) /\ d \in SpokenFor(d)
      BY <1>2 DEF SpokenFor, ShapedSampling
    <2> QED BY <2>1, <2>2, NotedBy DEF Accounted, Reaches, Has
  <1>3. CASE d \in ShapedStops
    <2>1. d = "stop_sequences" BY <1>3 DEF ShapedStops
    <2>2. \/ d \in DOMAIN Shaped.params /\ Shaped.params[d] = req.params[d]
          \/ Dropped(d) \in notes
      BY <2>1, ShapedParams DEF SampledAs
    <2>3. d \in SpokenFor(d) BY DEF SpokenFor
    <2> QED BY <2>2, <2>3, NotedBy DEF Accounted, Reaches, Has
  <1> QED BY <1>1, <1>2, <1>3 DEF OtherShaped

\* The capabilities of each target.
LEMMA TargetCan ==
  /\ \A s : Can("anthropic", s) <=> s \in AnthropicCaps.can
  /\ \A s : Can("chat", s) <=> s \in ChatCaps.can
  /\ \A s : Can("responses", s) <=> s \in ResponsesCaps.can
  /\ \A s : Can("gemini", s) <=> s \in GeminiCaps.can
  BY DEF Can, Caps

\* Background and store are in a note for every target that has them not.
LEMMA StatesAccounted ==
  ASSUME InFlight, NEW d \in DOMAIN req.params \cap {"background", "store"}
  PROVE  Accounted(d)
  <1>1. req.params[d] \in {"yes", "no"}
    BY DEF InFlight, Understood, GivenIn
  <1>2. CASE req.params[d] = "no" BY <1>2 DEF Accounted, AsksNothing
  <1>3. CASE req.params[d] = "yes"
    <2>1. Dropped(d) \in ParamNotes(target, req.params)
      BY <1>3 DEF ParamNotes, When, Get, Has
    <2>2. Dropped(d) \in notes BY <2>1, NotesIncluded
    <2> QED BY <2>2, NotedBy DEF Accounted, SpokenFor
  <1> QED BY <1>1, <1>2, <1>3

\* A wish for log probabilities is in a note, or asks for nothing.
LEMMA LogprobsAccounted ==
  ASSUME InFlight, "logprobs" \in DOMAIN req.params, target # "chat"
  PROVE  Accounted("logprobs")
  <1> DEFINE d == "logprobs"
  <1>1. req.params[d] \in {"yes", "no"}
    BY DEF InFlight, Understood, GivenIn
  <1>2. CASE req.params[d] = "no" BY <1>2 DEF Accounted, AsksNothing
  <1>3. CASE req.params[d] = "yes"
    <2>1. \/ Dropped(d) \in LogprobsNotes(target, req.params)
          \/ Unreturned(d) \in LogprobsNotes(target, req.params)
      BY <1>3 DEF LogprobsNotes, When, Get, Has
    <2>2. Dropped(d) \in notes \/ Unreturned(d) \in notes
      BY <2>1, NotesIncluded DEF ParamNotes
    <2>3. d \in SpokenFor(d) BY DEF SpokenFor
    <2> QED BY <2>2, <2>3, NotedBy DEF Accounted
  <1> QED BY <1>1, <1>2, <1>3

\* A cache mark on the whole request is in a note where there is no cache.
LEMMA MarkAccounted ==
  ASSUME InFlight, "cache_control" \in DOMAIN req.params,
         ~Can(target, "CacheControl")
  PROVE  Accounted("cache_control")
  <1>1. Dropped("cache_control") \in OnlyInNotes(target, req.params)
    BY DEF OnlyInNotes, When, Has
  <1>2. Dropped("cache_control") \in notes BY <1>1, NotesIncluded
  <1>3. "cache_control" \in SpokenFor("cache_control") BY DEF SpokenFor
  <1> QED BY <1>2, <1>3, NotedBy DEF Accounted

\* Spoken answers are in a note where only chat can give them.
LEMMA AudioAccounted ==
  ASSUME InFlight, NEW d \in DOMAIN req.params \cap {"modalities", "audio"},
         target # "chat"
  PROVE  Accounted(d)
  <1>1. Dropped("modalities/audio") \in AudioOutNotes(target, req.params)
    BY DEF AudioOutNotes, When
  <1>2. Dropped("modalities/audio") \in notes BY <1>1, NotesIncluded
  <1>3. "modalities/audio" \in SpokenFor(d) BY DEF SpokenFor
  <1> QED BY <1>2, <1>3, NotedBy DEF Accounted

\* A service tier arrives in the words of the target or is in a note.
LEMMA TierAccounted ==
  ASSUME InFlight, "service_tier" \in DOMAIN req.params,
         Can(target, "ServiceTier"),
         LET tier == MapServiceTier(target, req.params["service_tier"]) IN
         tier # NoTier => /\ "service_tier" \in DOMAIN wire.params
                          /\ wire.params["service_tier"] = tier
  PROVE  Accounted("service_tier")
  <1> DEFINE d == "service_tier"
             tier == MapServiceTier(target, req.params[d])
  <1>1. CASE tier # NoTier
    BY <1>1 DEF Accounted, Reaches, Has
  <1>2. CASE tier = NoTier
    <2>1. Dropped(d) \in TierNotes(target, req.params)
      BY <1>2 DEF TierNotes, When, Has, Get
    <2>2. Dropped(d) \in notes BY <2>1, NotesIncluded DEF ParamNotes
    <2>3. d \in SpokenFor(d) BY DEF SpokenFor
    <2> QED BY <2>2, <2>3, NotedBy DEF Accounted
  <1> QED BY <1>1, <1>2

  (* The family of response_format. *)

\* A member of the format arrives as it was given.
FormatKept(d) == d \in DOMAIN wire.params /\ wire.params[d] = req.params[d]

\* A format is accounted for by an encoder that sends schemas as they are
\* and plain JSON where the target has it.
LEMMA FormatsAccounted ==
  ASSUME InFlight, NEW d \in DOMAIN req.params \cap FormatDims,
         LET schema == /\ req.params["response_format"] = "schema"
                       /\ Has(req.params, "response_format.schema")
         IN /\ Can(target, "ResponseSchema")
            /\ schema => /\ FormatKept("response_format")
                         /\ FormatKept("response_format.schema")
                         /\ Has(req.params, "response_format.strict") =>
                              \/ FormatKept("response_format.strict")
                              \/ target \notin OpenAI
                                 /\ "response_format.strict" \in DOMAIN wire.params
                                 /\ wire.params["response_format.strict"] = "strict"
                         /\ target \in OpenAI => FormatKept(d)
            /\ ~schema /\ Can(target, "ResponseFormat") =>
                  /\ "response_format" \in DOMAIN wire.params
                  /\ wire.params["response_format"] = "json"
  PROVE  Accounted(d)
  <1> DEFINE f == req.params
             schema == /\ f["response_format"] = "schema"
                       /\ Has(f, "response_format.schema")
  <1>1. /\ Has(f, "response_format") /\ f["response_format"] \in {"json", "schema"}
        /\ Has(f, "response_format.strict") =>
              f["response_format.strict"] \in {"strict", "lenient"}
        /\ d # "response_format" => f["response_format"] = "schema"
        /\ Has(f, "response_format.schema") => f["response_format"] = "schema"
    BY DEF InFlight, Understood, FormatFacts, GivenIn, Has, FormatDims
  <1>2. FormatNotes(target, f) \subseteq notes BY NotesIncluded DEF ParamNotes
  <1>3. d \in SpokenFor(d) /\ "response_format" \in SpokenFor(d) BY DEF SpokenFor
  <1>4. CASE schema
    <2>1. CASE target \in OpenAI BY <1>4, <2>1 DEF Accounted, Reaches, FormatKept, Has
    <2>2. CASE target \notin OpenAI /\ d \in {"response_format", "response_format.schema"}
      BY <1>4, <2>2 DEF Accounted, Reaches, FormatKept, Has
    <2>3. CASE target \notin OpenAI /\ d = "response_format.strict"
      <3>1. CASE f[d] = "strict"
        BY <1>4, <2>3, <3>1 DEF Accounted, Reaches, FormatKept, Has
      <3>2. CASE f[d] = "lenient"
        <4>1. Dropped(d) \in FormatNotes(target, f)
          BY <1>1, <2>3, <3>2 DEF FormatNotes, When, Get, Has
        <4> QED BY <1>2, <1>3, <4>1, NotedBy DEF Accounted
      <3> QED BY <1>1, <2>3, <3>1, <3>2 DEF Has
    <2>4. CASE target \notin OpenAI
               /\ d \in {"response_format.name", "response_format.description"}
      <3>1. Dropped(d) \in FormatNotes(target, f)
        BY <1>1, <2>4 DEF FormatNotes, When, Get, Has
      <3> QED BY <1>2, <1>3, <3>1, NotedBy DEF Accounted
    <2> QED BY <2>1, <2>2, <2>3, <2>4 DEF FormatDims
  <1>5. CASE ~schema
    <2>1. ~Has(f, "response_format.schema") BY <1>1, <1>5
    <2>2. CASE d # "response_format" BY <2>1, <2>2 DEF Accounted, AsksNothing
    <2>3. CASE d = "response_format" /\ Can(target, "ResponseFormat")
      BY <1>5, <2>1, <2>3 DEF Accounted, Reaches, Has
    <2>4. CASE d = "response_format" /\ ~Can(target, "ResponseFormat")
      <3>1. Dropped(d) \in FormatNotes(target, f)
        BY <1>1, <2>1, <2>4 DEF FormatNotes, When, Get, Has
      <3> QED BY <1>2, <1>3, <3>1, NotedBy DEF Accounted
    <2> QED BY <2>2, <2>3, <2>4
  <1> QED BY <1>4, <1>5

\* Thinking itself is accounted for by an encoder that says on or off, and
\* otherwise only its settings are left to account for.
LEMMA ThinkingAccounted ==
  ASSUME InFlight, NEW d \in DOMAIN req.params \cap ThinkingDims,
         ThinkingOff(Shaped.params) =>
             "thinking" \in DOMAIN wire.params /\ wire.params["thinking"] = "off",
         ThinkingOn(Shaped.params) =>
             "thinking" \in DOMAIN wire.params /\ wire.params["thinking"] = "on"
  PROVE  \/ Accounted(d)
         \/ /\ d # "thinking"
            /\ ThinkingOn(req.params) /\ ThinkingOn(Shaped.params)
            /\ \A e \in ThinkingDims \ {"thinking_budget"} :
                  /\ e \in DOMAIN req.params <=> e \in DOMAIN Shaped.params
                  /\ e \in DOMAIN req.params => Shaped.params[e] = req.params[e]
            /\ \/ Rewrote("thinking.budget_tokens") \in notes
               \/ /\ "thinking_budget" \in DOMAIN req.params
                        <=> "thinking_budget" \in DOMAIN Shaped.params
                  /\ "thinking_budget" \in DOMAIN req.params =>
                        Shaped.params["thinking_budget"] = req.params["thinking_budget"]
  <1> DEFINE f == req.params
             g == Shaped.params
  <1>1. CASE Dropped("thinking") \in notes
    <2>1. "thinking" \in SpokenFor(d) BY DEF SpokenFor
    <2> QED BY <1>1, <2>1, NotedBy DEF Accounted
  <1>2. CASE Dropped("thinking") \notin notes
    <2>1. /\ SameBut(f, g, OtherShaped \cup ShapedBudget)
          /\ SameBut(f, g, OtherShaped) \/ Rewrote("thinking.budget_tokens") \in notes
      BY <1>2, ShapedParams DEF ThoughtAs
    <2>2. \A e \in ThinkingDims \ {"thinking_budget"} :
             (e \in DOMAIN f <=> e \in DOMAIN g) /\ (e \in DOMAIN f => g[e] = f[e])
      BY <2>1 DEF SameBut, OtherShaped, ShapedBudget, ShapedSampling, ShapedStops,
                  ThinkingDims
    <2>3. \/ Rewrote("thinking.budget_tokens") \in notes
          \/ /\ "thinking_budget" \in DOMAIN f <=> "thinking_budget" \in DOMAIN g
             /\ "thinking_budget" \in DOMAIN f =>
                   g["thinking_budget"] = f["thinking_budget"]
      BY <2>1 DEF SameBut, OtherShaped, ShapedSampling, ShapedStops
    <2>4. "thinking" \in DOMAIN f <=> "thinking" \in DOMAIN g
      BY <2>2 DEF ThinkingDims
    <2>5. "thinking" \in DOMAIN f => g["thinking"] = f["thinking"]
      BY <2>2 DEF ThinkingDims
    <2>6. "thinking" \in DOMAIN f => f["thinking"] \in {"on", "off"}
      BY DEF InFlight, Understood, GivenIn
    <2>7. ThinkingOn(f) <=> ThinkingOn(g)
      BY <2>4, <2>5 DEF ThinkingOn, Get, Has
    <2>8. CASE d = "thinking"
      <3>1. g[d] = f[d] /\ f[d] \in {"on", "off"} /\ d \in DOMAIN g
        BY <2>4, <2>5, <2>6, <2>8
      <3>2. CASE f[d] = "on"
        <4>1. ThinkingOn(g) BY <2>8, <3>1, <3>2 DEF ThinkingOn, Get, Has
        <4> QED BY <2>8, <3>2, <4>1 DEF Accounted, Reaches, Has
      <3>3. CASE f[d] = "off"
        <4>1. ThinkingOff(g) BY <2>8, <3>1, <3>3 DEF ThinkingOff, Get, Has
        <4> QED BY <2>8, <3>3, <4>1 DEF Accounted, Reaches, Has
      <3> QED BY <3>1, <3>2, <3>3
    <2>9. CASE d # "thinking" /\ ~ThinkingOn(f)
      BY <2>9 DEF Accounted, AsksNothing
    <2> HIDE DEF f, g
    <2>10. CASE d # "thinking" /\ ThinkingOn(f)
      BY <2>2, <2>3, <2>7, <2>10 DEF f, g
    <2> QED BY <2>8, <2>9, <2>10
  <1> QED BY <1>1, <1>2

\* Settings of thinking that only one protocol has are in a note elsewhere.
LEMMA ForeignThoughtAccounted ==
  ASSUME InFlight, NEW d \in DOMAIN req.params,
         \/ target # "responses"
            /\ d \in {"reasoning_summary_preference", "reasoning_context_scope",
                      "reasoning_mode"}
         \/ target # "anthropic"
            /\ d \in {"adaptive_thinking", "thinking_display_preference"}
  PROVE  Accounted(d)
  <1>1. Dropped(d) \in ThinkingNotes(target, req) BY DEF ThinkingNotes
  <1>2. Dropped(d) \in notes BY <1>1, NotesIncluded
  <1>3. d \in SpokenFor(d) BY DEF SpokenFor
  <1> QED BY <1>2, <1>3, NotedBy DEF Accounted

-----------------------------------------------------------------------------
(* Parameters sent to a chat upstream.                                     *)

\* What the chat encoder copies.
PlainInChat ==
    {"temperature", "top_p", "include_obfuscation", "max_tokens",
     "stop_sequences", "presence_penalty", "frequency_penalty", "seed", "n",
     "logprobs", "top_logprobs", "logit_bias", "prompt_cache_key",
     "parallel_tool_calls", "verbosity", "safety_identifier", "moderation",
     "prompt_cache_options", "prompt_cache_retention", "audio", "prediction",
     "web_search_options", "metadata", "user_id"}

\* The chat and responses encoders send a format with all its members.
LEMMA FormatEncoded ==
  ASSUME NEW f
  PROVE  LET e == EncodeFormat(f) IN
         /\ \A d \in DOMAIN e : d \in FormatDims
         /\ Has(f, "response_format") =>
               LET schema == /\ f["response_format"] = "schema"
                             /\ Has(f, "response_format.schema")
               IN /\ schema => \A d \in DOMAIN f \cap FormatDims :
                                  d \in DOMAIN e /\ e[d] = f[d]
                  /\ ~schema => /\ "response_format" \in DOMAIN e
                                /\ e["response_format"] = "json"
  <1> DEFINE e == EncodeFormat(f)
             schema == f["response_format"] = "schema" /\ Has(f, "response_format.schema")
  <1>1. CASE ~Has(f, "response_format")
    <2>1. e = << >> BY <1>1 DEF EncodeFormat, Get
    <2> QED BY <1>1, <2>1, Empty
  <1>2. CASE Has(f, "response_format") /\ schema
    <2>1. e = Keep(f, FormatDims) BY <1>2 DEF EncodeFormat, Get
    <2> QED BY <1>2, <2>1, Kept
  <1>3. CASE Has(f, "response_format") /\ ~schema
    <2>1. e = ("response_format" := "json") BY <1>3 DEF EncodeFormat, Get
    <2>2. "response_format" \in FormatDims BY DEF FormatDims
    <2> QED BY <1>3, <2>1, <2>2, Single
  <1> QED BY <1>1, <1>2, <1>3

\* The chat and responses encoders send an effort for thinking that is on,
\* the client's own where it gave one.
LEMMA EffortEncoded ==
  ASSUME NEW f
  PROVE  LET e == EncodeEffort(f) IN
         /\ \A d \in DOMAIN e : d \in {"thinking", "thinking_effort"}
         /\ ThinkingOff(f) => "thinking" \in DOMAIN e /\ e["thinking"] = "off"
         /\ ThinkingOn(f) => /\ "thinking" \in DOMAIN e /\ e["thinking"] = "on"
                             /\ "thinking_effort" \in DOMAIN e
                             /\ Has(f, "thinking_effort") =>
                                   e["thinking_effort"] = f["thinking_effort"]
  <1> DEFINE e == EncodeEffort(f)
  <1>1. ~(ThinkingOff(f) /\ ThinkingOn(f)) BY DEF ThinkingOff, ThinkingOn
  <1>2. CASE ThinkingOn(f)
    <2> DEFINE effort == Get(f, "thinking_effort",
                             EffortForBudget(Get(f, "thinking_budget", 0)))
    <2>1. e = ("thinking" := "on") ++ ("thinking_effort" := effort)
      BY <1>1, <1>2 DEF EncodeEffort
    <2>2. Has(f, "thinking_effort") => effort = f["thinking_effort"] BY DEF Get
    <2> HIDE DEF effort, e
    <2> QED BY <1>1, <1>2, <2>1, <2>2, Merged, Single DEF e
  <1>3. CASE ThinkingOff(f)
    <2>1. e = ("thinking" := "off") BY <1>1, <1>3 DEF EncodeEffort
    <2> QED BY <1>1, <1>3, <2>1, Single
  <1>4. CASE ~ThinkingOn(f) /\ ~ThinkingOff(f)
    <2>1. e = << >> BY <1>4 DEF EncodeEffort
    <2> QED BY <1>4, <2>1, Empty
  <1> QED BY <1>2, <1>3, <1>4

\* The parts the chat encoder puts its parameters together from.
LEMMA ChatParamsEncoded ==
  ASSUME NEW f
  PROVE  LET w == EncodeChatParams(f)
             tier == MapServiceTier("chat", f["service_tier"])
             modes == f["modalities"] \cap {"text", "audio"}
         IN /\ \A d \in PlainInChat \cap DOMAIN f : d \in DOMAIN w /\ w[d] = f[d]
            /\ "service_tier" \in DOMAIN f /\ tier # NoTier =>
                  "service_tier" \in DOMAIN w /\ w["service_tier"] = tier
            /\ "modalities" \in DOMAIN f /\ modes # {} =>
                  "modalities" \in DOMAIN w /\ w["modalities"] = modes
            /\ \A d \in DOMAIN EncodeFormat(f) :
                  d \in DOMAIN w /\ w[d] = EncodeFormat(f)[d]
            /\ \A d \in DOMAIN EncodeEffort(f) :
                  d \in DOMAIN w /\ w[d] = EncodeEffort(f)[d]
  <1> DEFINE w == EncodeChatParams(f)
             format == EncodeFormat(f)
             effort == EncodeEffort(f)
             modalities == EncodeModalities(f)
             tier == MapServiceTier("chat", Get(f, "service_tier", "auto"))
             service == IF Has(f, "service_tier") /\ tier # NoTier
                        THEN "service_tier" := tier ELSE << >>
             plain == Keep(f, PlainInChat)
  <1>1. w = plain ++ service ++ modalities ++ format ++ effort
    BY DEF EncodeChatParams, PlainInChat
  <1>2. \A d \in DOMAIN format : d \in FormatDims BY FormatEncoded
  <1>3. \A d \in DOMAIN effort : d \in {"thinking", "thinking_effort"}
    BY EffortEncoded
  <1>4. \A d \in DOMAIN service : d = "service_tier" BY Single, Empty
  <1>5. \A d \in DOMAIN modalities : d = "modalities"
    BY Single, Empty DEF EncodeModalities
  <1>6. \A d \in FormatDims : d \notin PlainInChat /\ d # "service_tier"
                              /\ d # "modalities" /\ d # "thinking"
                              /\ d # "thinking_effort"
    BY DEF FormatDims, PlainInChat
  <1>7. "service_tier" \notin PlainInChat /\ "modalities" \notin PlainInChat
        /\ "thinking" \notin PlainInChat /\ "thinking_effort" \notin PlainInChat
    BY DEF PlainInChat
  <1>8. /\ \A d \in DOMAIN plain : d \in DOMAIN f /\ d \in PlainInChat
        /\ \A d \in PlainInChat \cap DOMAIN f : d \in DOMAIN plain /\ plain[d] = f[d]
    BY Kept
  <1>9. "service_tier" \in DOMAIN f /\ MapServiceTier("chat", f["service_tier"]) # NoTier
        => "service_tier" \in DOMAIN service
           /\ service["service_tier"] = MapServiceTier("chat", f["service_tier"])
    BY Single DEF Get, Has
  <1>10. "modalities" \in DOMAIN f /\ f["modalities"] \cap {"text", "audio"} # {}
         => "modalities" \in DOMAIN modalities
            /\ modalities["modalities"] = f["modalities"] \cap {"text", "audio"}
    BY Single DEF EncodeModalities, Get, Has
  <1> HIDE DEF plain, service, modalities, format, effort, w
  <1>11. \A d \in DOMAIN plain : d \in DOMAIN w /\ w[d] = plain[d]
    BY <1>1, Merged
  <1>12. \A d \in DOMAIN service : d \in DOMAIN w /\ w[d] = service[d]
    BY <1>1, <1>4, <1>7, <1>8, Merged
  <1>13. \A d \in DOMAIN modalities : d \in DOMAIN w /\ w[d] = modalities[d]
    BY <1>1, <1>4, <1>5, <1>7, <1>8, Merged
  <1>14. \A d \in DOMAIN format : d \in DOMAIN w /\ w[d] = format[d]
    BY <1>1, <1>2, <1>4, <1>5, <1>6, <1>8, Merged
  <1>15. \A d \in DOMAIN effort : d \in DOMAIN w /\ w[d] = effort[d]
    BY <1>1, <1>2, <1>3, <1>4, <1>5, <1>6, <1>7, <1>8, Merged
  <1> QED BY <1>8, <1>9, <1>10, <1>11, <1>12, <1>13, <1>14, <1>15
          DEF w, format, effort

\* Chat has no capability for what its encoder does not copy.
LEMMA ChatSwitches ==
  ASSUME NEW d \in SwitchDims, d \notin PlainInChat, d # "service_tier"
  PROVE  ~Can("chat", Switch[d])
  <1>1. CASE d \in SamplingDims /\ Switch[d] = SamplingSwitch[d]
    BY <1>1, SamplingValues, TargetCan DEF SamplingDims, PlainInChat, ChatCaps
  <1>2. CASE d \in ServiceDims /\ Switch[d] = ServiceSwitch[d]
    BY <1>2, ServiceValues, TargetCan DEF ServiceDims, PlainInChat, ChatCaps
  <1>3. CASE d \in AnswerDims /\ Switch[d] = AnswerSwitch[d]
    BY <1>3, AnswerValues, TargetCan DEF AnswerDims, PlainInChat, ChatCaps
  <1> QED BY <1>1, <1>2, <1>3, SwitchValue

\* For chat and responses, depth of thinking arrives as an effort or is in
\* a note.
LEMMA OpenAIDepth ==
  ASSUME InFlight, target \in OpenAI, ThinkingOn(req.params),
         NEW d \in DOMAIN req.params \cap {"thinking_budget", "thinking_effort"},
         "thinking_effort" \in DOMAIN req.params =>
             /\ "thinking_effort" \in DOMAIN wire.params
             /\ wire.params["thinking_effort"] = req.params["thinking_effort"]
  PROVE  Accounted(d)
  <1>1. CASE "thinking_effort" \in DOMAIN req.params
    <2>1. Reaches("thinking_effort", Get(req.params, "thinking_effort", "unset"))
      BY <1>1 DEF Reaches, Get, Has
    <2> QED BY <2>1 DEF Accounted, DepthAccounted
  <1>2. CASE "thinking_effort" \notin DOMAIN req.params
    <2>1. d = "thinking_budget" BY <1>2
    <2>2. req.params[d] \in Nat \ {0}
      BY <2>1 DEF InFlight, Understood, GivenIn
    <2>3. Rewrote("thinking_budget") \in DepthNotes(target, req)
      BY <1>2, <2>1, <2>2 DEF DepthNotes, When, Get, Has
    <2>4. Rewrote("thinking_budget") \in notes
      BY <2>3, NotesIncluded DEF ThinkingNotes
    <2>5. d \in SpokenFor(d) BY DEF SpokenFor
    <2> QED BY <2>1, <2>4, <2>5, NotedBy DEF Accounted
  <1> QED BY <1>1, <1>2

\* For chat and responses, every member of a format is accounted for.
LEMMA OpenAIFormats ==
  ASSUME InFlight, target \in OpenAI, NEW d \in DOMAIN req.params \cap FormatDims,
         \A e \in DOMAIN EncodeFormat(Shaped.params) :
            e \in DOMAIN wire.params
            /\ wire.params[e] = EncodeFormat(Shaped.params)[e]
  PROVE  Accounted(d)
  <1> DEFINE f == req.params
             g == Shaped.params
             w == wire.params
             schema == f["response_format"] = "schema"
                       /\ Has(f, "response_format.schema")
  <1>1. \A e \in FormatDims : e \notin ThinkingDims /\ e \notin OtherShaped
    BY DEF FormatDims, ThinkingDims, OtherShaped, ShapedSampling, ShapedStops
  <1>2. /\ Has(f, "response_format")
        /\ "response_format" \in FormatDims /\ "response_format.schema" \in FormatDims
        /\ "response_format.strict" \in FormatDims
    BY DEF InFlight, Understood, FormatFacts, FormatDims, Has
  <1>3. \A e \in DOMAIN f \cap FormatDims : e \in DOMAIN g /\ g[e] = f[e]
    BY <1>1, ShapedParams DEF SameBut
  <1>4. /\ Has(g, "response_format") /\ g["response_format"] = f["response_format"]
        /\ Has(g, "response_format.schema") <=> Has(f, "response_format.schema")
    <2>1. "response_format.schema" \in DOMAIN f <=> "response_format.schema" \in DOMAIN g
      BY <1>1, <1>2, ShapedParams DEF SameBut
    <2> QED BY <1>2, <1>3, <2>1 DEF Has
  <1>5. schema => \A e \in DOMAIN f \cap FormatDims : FormatKept(e)
    <2> HIDE DEF f, g, w
    <2>1. ASSUME schema, NEW e \in DOMAIN f \cap FormatDims
          PROVE  e \in DOMAIN w /\ w[e] = f[e]
      <3>1. e \in DOMAIN g /\ g[e] = f[e] BY <1>3
      <3>2. e \in DOMAIN EncodeFormat(g) /\ EncodeFormat(g)[e] = g[e]
        BY <1>4, <2>1, <3>1, FormatEncoded
      <3> QED BY <3>1, <3>2 DEF g, w
    <2> QED BY <2>1 DEF FormatKept, f, w
  <1>6. ~schema => "response_format" \in DOMAIN w /\ w["response_format"] = "json"
    <2> HIDE DEF f, g, w
    <2>1. ~schema => /\ "response_format" \in DOMAIN EncodeFormat(g)
                     /\ EncodeFormat(g)["response_format"] = "json"
      BY <1>4, FormatEncoded
    <2> QED BY <2>1 DEF g, w
  <1>7. Can(target, "ResponseSchema")
    BY TargetCan DEF ChatCaps, ResponsesCaps, OpenAI
  <1> QED BY <1>2, <1>5, <1>6, <1>7, FormatsAccounted DEF Has

\* For chat and responses, thinking, its budget and its effort are
\* accounted for.
LEMMA OpenAIThoughts ==
  ASSUME InFlight, target \in OpenAI,
         NEW d \in DOMAIN req.params
                   \cap {"thinking", "thinking_budget", "thinking_effort"},
         ThinkingOff(Shaped.params) =>
             "thinking" \in DOMAIN wire.params /\ wire.params["thinking"] = "off",
         ThinkingOn(Shaped.params) =>
             \A e \in DOMAIN EncodeEffort(Shaped.params) :
                e \in DOMAIN wire.params
                /\ wire.params[e] = EncodeEffort(Shaped.params)[e]
  PROVE  Accounted(d)
  <1> DEFINE f == req.params
             g == Shaped.params
             w == wire.params
  <1>1. /\ ThinkingOff(g) => "thinking" \in DOMAIN w /\ w["thinking"] = "off"
        /\ ThinkingOn(g) => "thinking" \in DOMAIN w /\ w["thinking"] = "on"
        /\ ThinkingOn(g) /\ Has(g, "thinking_effort") =>
              /\ "thinking_effort" \in DOMAIN w
              /\ w["thinking_effort"] = g["thinking_effort"]
    <2>1. ThinkingOn(g) =>
             /\ "thinking" \in DOMAIN EncodeEffort(g)
             /\ EncodeEffort(g)["thinking"] = "on"
             /\ "thinking_effort" \in DOMAIN EncodeEffort(g)
             /\ Has(g, "thinking_effort") =>
                   EncodeEffort(g)["thinking_effort"] = g["thinking_effort"]
      BY EffortEncoded
    <2> QED BY <2>1
  <1>2. d \in ThinkingDims BY DEF ThinkingDims
  <1>3. CASE d = "thinking" BY <1>1, <1>2, <1>3, ThinkingAccounted
  <1>4. CASE d \in {"thinking_budget", "thinking_effort"}
    <2>1. SUFFICES ASSUME /\ ThinkingOn(req.params) /\ ThinkingOn(Shaped.params)
                          /\ \A e \in ThinkingDims \ {"thinking_budget"} :
                               /\ e \in DOMAIN req.params <=> e \in DOMAIN Shaped.params
                               /\ e \in DOMAIN req.params =>
                                     Shaped.params[e] = req.params[e]
                   PROVE  Accounted(d)
      BY <1>1, <1>2, ThinkingAccounted
    <2>2. "thinking_effort" \in DOMAIN f =>
             "thinking_effort" \in DOMAIN w /\ w["thinking_effort"] = f["thinking_effort"]
      BY <1>1, <2>1 DEF ThinkingDims, Has
    <2> QED BY <1>4, <2>1, <2>2, OpenAIDepth
  <1> QED BY <1>3, <1>4

\* Every dimension sent to a chat upstream is accounted for.
LEMMA ChatAccounted ==
  ASSUME InFlight, target = "chat", NEW d \in DOMAIN req.params
  PROVE  Accounted(d)
  <1> DEFINE f == req.params
             g == Shaped.params
             w == wire.params
  <1>1. w = EncodeChatParams(g)
    BY DEF InFlight, Encoded, EncodeChat, Shaped
  <1>2. /\ \A e \in PlainInChat \cap DOMAIN g : e \in DOMAIN w /\ w[e] = g[e]
        /\ \A e \in DOMAIN EncodeFormat(g) :
              e \in DOMAIN w /\ w[e] = EncodeFormat(g)[e]
        /\ \A e \in DOMAIN EncodeEffort(g) :
              e \in DOMAIN w /\ w[e] = EncodeEffort(g)[e]
    BY <1>1, ChatParamsEncoded
  <1>3. \A e \in DOMAIN f : e \notin ThinkingDims /\ e \notin OtherShaped =>
                               e \in DOMAIN g /\ g[e] = f[e]
    BY ShapedParams DEF SameBut
  <1>4. CASE d \in PlainInChat
    <2>1. d \notin ThinkingDims BY <1>4 DEF PlainInChat, ThinkingDims
    <2>2. d \in DOMAIN g => d \in DOMAIN w /\ w[d] = g[d] BY <1>2, <1>4
    <2> QED BY <2>1, <2>2, PlainAccounted
  <1>5. CASE d = "service_tier"
    <2>1. d \in DOMAIN g /\ g[d] = f[d]
      BY <1>3, <1>5 DEF ThinkingDims, OtherShaped, ShapedSampling, ShapedStops
    <2>2. LET tier == MapServiceTier(target, f["service_tier"]) IN
          tier # NoTier => "service_tier" \in DOMAIN w /\ w["service_tier"] = tier
      BY <1>1, <1>5, <2>1, ChatParamsEncoded
    <2>3. Can(target, "ServiceTier") BY TargetCan DEF ChatCaps
    <2> QED BY <1>5, <2>2, <2>3, TierAccounted
  <1>6. CASE d \in SwitchDims /\ d \notin PlainInChat /\ d # "service_tier"
    BY <1>6, ChatSwitches, SwitchedAccounted
  <1>7. CASE d \in OnlyInDims /\ d \notin PlainInChat
    <2>1. OnlyIn[d] # "chat"
      BY <1>7, OnlyInValues DEF OnlyInDims, PlainInChat
    <2> QED BY <1>7, <2>1, OnlyInAccounted
  <1>8. CASE d \in FormatDims
    <2>1. target \in OpenAI BY DEF OpenAI
    <2> QED BY <1>2, <1>8, <2>1, OpenAIFormats
  <1>9. CASE d \in ThinkingDims
    <2>1. target \in OpenAI BY DEF OpenAI
    <2>2. CASE d \in {"thinking", "thinking_budget", "thinking_effort"}
      <3>1. /\ ThinkingOff(g) => "thinking" \in DOMAIN w /\ w["thinking"] = "off"
            /\ ThinkingOn(g) => \A e \in DOMAIN EncodeEffort(g) :
                  e \in DOMAIN w /\ w[e] = EncodeEffort(g)[e]
        <4> HIDE DEF g, w
        <4> QED BY <1>2, EffortEncoded
      <3> QED BY <2>1, <2>2, <3>1, OpenAIThoughts
    <2>3. CASE d \in {"reasoning_summary_preference", "reasoning_context_scope",
                      "reasoning_mode", "adaptive_thinking",
                      "thinking_display_preference"}
      BY <2>3, ForeignThoughtAccounted
    <2> QED BY <1>9, <2>2, <2>3 DEF ThinkingDims
  <1>10. CASE d = "modalities"
    <2>1. d \in DOMAIN g /\ g[d] = f[d]
      BY <1>3, <1>10 DEF ThinkingDims, OtherShaped, ShapedSampling, ShapedStops
    <2>2. CASE f[d] \subseteq {"text", "audio"}
      <3>1. f[d] # {} BY <1>10 DEF InFlight, Understood
      <3>2. f[d] \cap {"text", "audio"} = f[d]
        <4>1. \A v : v \subseteq {"text", "audio"} => v \cap {"text", "audio"} = v
          OBVIOUS
        <4> QED BY <2>2, <4>1
      <3>3. d \in DOMAIN w /\ w[d] = f[d]
        <4>1. "modalities" \in DOMAIN g /\ g["modalities"] \cap {"text", "audio"} = f[d]
          BY <1>10, <2>1, <3>2
        <4>2. "modalities" \in DOMAIN w
              /\ w["modalities"] = g["modalities"] \cap {"text", "audio"}
          <5> HIDE DEF f, g, w
          <5> QED BY <1>1, <3>1, <4>1, ChatParamsEncoded
        <4> QED BY <1>10, <4>1, <4>2
      <3> QED BY <3>3 DEF Accounted, Reaches, Has
    <2>3. CASE ~(f[d] \subseteq {"text", "audio"})
      <3>1. Dropped(d) \in AudioOutNotes(target, f)
        BY <1>10, <2>3 DEF AudioOutNotes, When, Get, Has
      <3>2. Dropped(d) \in notes BY <3>1, NotesIncluded
      <3>3. d \in SpokenFor(d) BY DEF SpokenFor
      <3> QED BY <3>2, <3>3, NotedBy DEF Accounted
    <2> QED BY <2>2, <2>3
  <1>11. CASE d \in {"background", "store"} BY <1>11, StatesAccounted
  <1>12. CASE d = "cache_control"
    <2>1. ~Can(target, "CacheControl") BY TargetCan DEF ChatCaps
    <2> QED BY <1>12, <2>1, MarkAccounted
  <1>13. d \in Dims BY DEF InFlight, Understood
  <1>14. d \in OtherDims =>
           d \in PlainInChat \cup {"modalities", "background", "store", "cache_control"}
    BY DEF OtherDims, PlainInChat
  <1> QED BY <1>4, <1>5, <1>6, <1>7, <1>8, <1>9, <1>10, <1>11, <1>12, <1>13, <1>14
          DEF Dims

-----------------------------------------------------------------------------
(* Parameters sent to a responses upstream.                                *)

\* What the responses encoder copies.
PlainInResponses ==
    {"temperature", "top_p", "max_tokens", "truncation", "max_tool_calls",
     "access_programs", "include_obfuscation", "metadata", "prompt_cache_key",
     "safety_identifier", "moderation", "prompt_cache_options",
     "prompt_cache_retention", "parallel_tool_calls", "verbosity", "user_id"}

\* What it copies into reasoning.
ReasoningOnly == {"reasoning_context_scope", "reasoning_mode"}

\* The members of reasoning the responses encoder sends.
LEMMA ReasoningEncoded ==
  ASSUME NEW f
  PROVE  LET e == EncodeReasoning(f)
             summary == "reasoning_summary_preference"
         IN /\ \A d \in DOMAIN e : d \in ThinkingDims
            /\ ThinkingOff(f) => "thinking" \in DOMAIN e /\ e["thinking"] = "off"
            /\ ThinkingOn(f) =>
                  /\ \A d \in DOMAIN EncodeEffort(f) :
                        d \in DOMAIN e /\ e[d] = EncodeEffort(f)[d]
                  /\ Has(f, summary) => summary \in DOMAIN e /\ e[summary] = f[summary]
            /\ \A d \in ReasoningOnly \cap DOMAIN f : d \in DOMAIN e /\ e[d] = f[d]
  <1> DEFINE e == EncodeReasoning(f)
             summary == "reasoning_summary_preference"
             scope == Keep(f, ReasoningOnly)
             effort == EncodeEffort(f)
             asked == summary := Get(f, summary, "auto")
  <1>1. ~(ThinkingOff(f) /\ ThinkingOn(f)) BY DEF ThinkingOff, ThinkingOn
  <1>2. /\ \A d \in DOMAIN scope : d \in ReasoningOnly
        /\ \A d \in ReasoningOnly \cap DOMAIN f : d \in DOMAIN scope /\ scope[d] = f[d]
    BY Kept
  <1>3. \A d \in DOMAIN effort : d \in {"thinking", "thinking_effort"}
    BY EffortEncoded
  <1>4. /\ \A d : d \in DOMAIN asked <=> d = summary
        /\ Has(f, summary) => asked[summary] = f[summary]
    BY Single DEF Get
  <1>5. \A d \in ReasoningOnly \cup {"thinking", "thinking_effort", summary} :
           d \in ThinkingDims
    BY DEF ReasoningOnly, ThinkingDims
  <1>6. /\ "thinking" \notin ReasoningOnly /\ "thinking_effort" \notin ReasoningOnly
        /\ summary \notin ReasoningOnly
    BY DEF ReasoningOnly
  <1>7. CASE ThinkingOn(f)
    <2>1. e = scope ++ effort ++ asked
      BY <1>1, <1>7 DEF EncodeReasoning, ReasoningOnly
    <2> HIDE DEF e, scope, effort, asked
    <2>2. \A d \in DOMAIN e : d \in ThinkingDims
      BY <1>2, <1>3, <1>4, <1>5, <2>1, Merged
    <2>3. \A d \in DOMAIN effort : d \in DOMAIN e /\ e[d] = effort[d]
      BY <1>2, <1>3, <1>6, <2>1, Merged
    <2>4. summary \in DOMAIN e /\ (Has(f, summary) => e[summary] = f[summary])
      BY <1>2, <1>3, <1>4, <1>6, <2>1, Merged
    <2>5. \A d \in ReasoningOnly \cap DOMAIN f : d \in DOMAIN e /\ e[d] = f[d]
      BY <1>2, <2>1, Merged
    <2> QED BY <1>1, <1>7, <2>2, <2>3, <2>4, <2>5 DEF e, effort
  <1>8. CASE ThinkingOff(f)
    <2> DEFINE off == "thinking" := "off"
    <2>1. e = scope ++ off
      BY <1>1, <1>8 DEF EncodeReasoning, ReasoningOnly
    <2>2. (\A d : d \in DOMAIN off <=> d = "thinking") /\ off["thinking"] = "off"
      BY Single
    <2> HIDE DEF e, scope, off
    <2> QED BY <1>1, <1>2, <1>5, <1>6, <1>8, <2>1, <2>2, Merged DEF e
  <1>9. CASE ~ThinkingOn(f) /\ ~ThinkingOff(f)
    <2> DEFINE own == Keep(f, {summary})
    <2>1. e = scope ++ own BY <1>9 DEF EncodeReasoning, ReasoningOnly
    <2>2. \A d \in DOMAIN own : d = summary BY Kept
    <2> HIDE DEF e, scope, own
    <2> QED BY <1>2, <1>5, <1>9, <2>1, <2>2, Merged DEF e
  <1> QED BY <1>7, <1>8, <1>9

\* The parts the responses encoder puts its parameters together from.
LEMMA ResponsesParamsEncoded ==
  ASSUME NEW f
  PROVE  LET w == EncodeResponsesParams(f)
             tier == MapServiceTier("responses", f["service_tier"])
         IN /\ \A d \in PlainInResponses \cap DOMAIN f : d \in DOMAIN w /\ w[d] = f[d]
            /\ "service_tier" \in DOMAIN f /\ tier # NoTier =>
                  "service_tier" \in DOMAIN w /\ w["service_tier"] = tier
            /\ "include" \in DOMAIN f /\ f["include"] # {} =>
                  "include" \in DOMAIN w /\ f["include"] \subseteq w["include"]
            /\ "top_logprobs" \in DOMAIN f =>
                  /\ "top_logprobs" \in DOMAIN w
                  /\ w["top_logprobs"] = f["top_logprobs"]
            /\ \A d \in DOMAIN EncodeFormat(f) :
                  d \in DOMAIN w /\ w[d] = EncodeFormat(f)[d]
            /\ \A d \in DOMAIN EncodeReasoning(f) :
                  d \in DOMAIN w /\ w[d] = EncodeReasoning(f)[d]
  <1> DEFINE w == EncodeResponsesParams(f)
             format == EncodeFormat(f)
             reason == EncodeReasoning(f)
             included == WithIncluded(f)
             top == EncodeTopLogprobs(f)
             tier == MapServiceTier("responses", Get(f, "service_tier", "auto"))
             service == IF Has(f, "service_tier") /\ tier # NoTier
                        THEN "service_tier" := tier ELSE << >>
             plain == Keep(f, PlainInResponses)
  <1>1. w = plain ++ service ++ included ++ top ++ format ++ reason
    BY DEF EncodeResponsesParams, PlainInResponses
  <1>2. \A d \in DOMAIN format : d \in FormatDims BY FormatEncoded
  <1>3. \A d \in DOMAIN reason : d \in ThinkingDims BY ReasoningEncoded
  <1>4. \A d \in DOMAIN service : d = "service_tier" BY Single, Empty
  <1>5. \A d \in DOMAIN included : d = "include" BY Single, Empty DEF WithIncluded
  <1>6. \A d \in DOMAIN top : d = "top_logprobs"
    BY Single, Empty, Kept DEF EncodeTopLogprobs
  <1>7. \A d \in FormatDims \cup ThinkingDims :
           d \notin PlainInResponses /\ d # "service_tier" /\ d # "include"
           /\ d # "top_logprobs"
    BY DEF FormatDims, ThinkingDims, PlainInResponses
  <1>8. \A d \in ThinkingDims : d \notin FormatDims BY DEF FormatDims, ThinkingDims
  <1>9. "service_tier" \notin PlainInResponses /\ "include" \notin PlainInResponses
        /\ "top_logprobs" \notin PlainInResponses
    BY DEF PlainInResponses
  <1>10. /\ \A d \in DOMAIN plain : d \in DOMAIN f /\ d \in PlainInResponses
         /\ \A d \in PlainInResponses \cap DOMAIN f :
               d \in DOMAIN plain /\ plain[d] = f[d]
    BY Kept
  <1>11. "service_tier" \in DOMAIN f
         /\ MapServiceTier("responses", f["service_tier"]) # NoTier
         => "service_tier" \in DOMAIN service
            /\ service["service_tier"] = MapServiceTier("responses", f["service_tier"])
    BY Single DEF Get, Has
  <1>12. "include" \in DOMAIN f /\ f["include"] # {}
         => "include" \in DOMAIN included /\ f["include"] \subseteq included["include"]
    BY Single DEF WithIncluded, Get, Has
  <1>13. "top_logprobs" \in DOMAIN f
         => "top_logprobs" \in DOMAIN top /\ top["top_logprobs"] = f["top_logprobs"]
    BY Kept DEF EncodeTopLogprobs, Has
  <1> HIDE DEF plain, service, included, top, format, reason, w
  <1>14. \A d \in DOMAIN plain : d \in DOMAIN w /\ w[d] = plain[d]
    BY <1>1, Merged
  <1>15. \A d \in DOMAIN service : d \in DOMAIN w /\ w[d] = service[d]
    BY <1>1, <1>4, <1>9, <1>10, Merged
  <1>16. \A d \in DOMAIN included : d \in DOMAIN w /\ w[d] = included[d]
    BY <1>1, <1>4, <1>5, <1>9, <1>10, Merged
  <1>17. \A d \in DOMAIN top : d \in DOMAIN w /\ w[d] = top[d]
    BY <1>1, <1>4, <1>5, <1>6, <1>9, <1>10, Merged
  <1>18. \A d \in DOMAIN format : d \in DOMAIN w /\ w[d] = format[d]
    BY <1>1, <1>2, <1>4, <1>5, <1>6, <1>7, <1>10, Merged
  <1>19. \A d \in DOMAIN reason : d \in DOMAIN w /\ w[d] = reason[d]
    BY <1>1, <1>2, <1>3, <1>4, <1>5, <1>6, <1>7, <1>8, <1>10, Merged
  <1> QED BY <1>10, <1>11, <1>12, <1>13, <1>14, <1>15, <1>16, <1>17, <1>18, <1>19
          DEF w, format, reason

\* Responses has no capability for what its encoder does not send.
LEMMA ResponsesSwitches ==
  ASSUME NEW d \in SwitchDims, d \notin PlainInResponses,
         d \notin {"service_tier", "include", "top_logprobs"}
  PROVE  ~Can("responses", Switch[d])
  <1>1. CASE d \in SamplingDims /\ Switch[d] = SamplingSwitch[d]
    BY <1>1, SamplingValues, TargetCan DEF SamplingDims, PlainInResponses, ResponsesCaps
  <1>2. CASE d \in ServiceDims /\ Switch[d] = ServiceSwitch[d]
    BY <1>2, ServiceValues, TargetCan DEF ServiceDims, PlainInResponses, ResponsesCaps
  <1>3. CASE d \in AnswerDims /\ Switch[d] = AnswerSwitch[d]
    BY <1>3, AnswerValues, TargetCan DEF AnswerDims, PlainInResponses, ResponsesCaps
  <1> QED BY <1>1, <1>2, <1>3, SwitchValue

\* Every dimension sent to a responses upstream is accounted for.
LEMMA ResponsesAccounted ==
  ASSUME InFlight, target = "responses", NEW d \in DOMAIN req.params
  PROVE  Accounted(d)
  <1> DEFINE f == req.params
             g == Shaped.params
             w == wire.params
             summary == "reasoning_summary_preference"
  <1>1. w = EncodeResponsesParams(g)
    BY DEF InFlight, Encoded, EncodeResponses, Shaped
  <1>2. /\ \A e \in PlainInResponses \cap DOMAIN g : e \in DOMAIN w /\ w[e] = g[e]
        /\ \A e \in DOMAIN EncodeFormat(g) :
              e \in DOMAIN w /\ w[e] = EncodeFormat(g)[e]
        /\ \A e \in DOMAIN EncodeReasoning(g) :
              e \in DOMAIN w /\ w[e] = EncodeReasoning(g)[e]
    BY <1>1, ResponsesParamsEncoded
  <1>3. \A e \in DOMAIN f : e \notin ThinkingDims /\ e \notin OtherShaped =>
                               e \in DOMAIN g /\ g[e] = f[e]
    BY ShapedParams DEF SameBut
  <1>4. CASE d \in PlainInResponses
    <2>1. d \notin ThinkingDims BY <1>4 DEF PlainInResponses, ThinkingDims
    <2>2. d \in DOMAIN g => d \in DOMAIN w /\ w[d] = g[d] BY <1>2, <1>4
    <2> QED BY <2>1, <2>2, PlainAccounted
  <1>5. CASE d = "service_tier"
    <2>1. d \in DOMAIN g /\ g[d] = f[d]
      BY <1>3, <1>5 DEF ThinkingDims, OtherShaped, ShapedSampling, ShapedStops
    <2>2. LET tier == MapServiceTier(target, f["service_tier"]) IN
          tier # NoTier => "service_tier" \in DOMAIN w /\ w["service_tier"] = tier
      BY <1>1, <1>5, <2>1, ResponsesParamsEncoded
    <2>3. Can(target, "ServiceTier") BY TargetCan DEF ResponsesCaps
    <2> QED BY <1>5, <2>2, <2>3, TierAccounted
  <1>6. CASE d = "include"
    <2>1. d \in DOMAIN g /\ g[d] = f[d]
      BY <1>3, <1>6 DEF ThinkingDims, OtherShaped, ShapedSampling, ShapedStops
    <2>2. f[d] # {} BY <1>6 DEF InFlight, Understood
    <2>3. d \in DOMAIN w /\ f[d] \subseteq w[d]
      BY <1>1, <1>6, <2>1, <2>2, ResponsesParamsEncoded
    <2> QED BY <1>6, <2>3 DEF Accounted, Reaches, Has
  <1>7. CASE d = "top_logprobs"
    <2>1. d \in DOMAIN g => d \in DOMAIN w /\ w[d] = g[d]
      BY <1>1, <1>7, ResponsesParamsEncoded
    <2>2. d \notin ThinkingDims BY <1>7 DEF ThinkingDims
    <2> QED BY <2>1, <2>2, PlainAccounted
  <1>8. CASE /\ d \in SwitchDims /\ d \notin PlainInResponses
             /\ d \notin {"service_tier", "include", "top_logprobs"}
    BY <1>8, ResponsesSwitches, SwitchedAccounted
  <1>9. CASE d \in OnlyInDims /\ d \notin PlainInResponses
    <2>1. OnlyIn[d] # "responses"
      BY <1>9, OnlyInValues DEF OnlyInDims, PlainInResponses
    <2> QED BY <1>9, <2>1, OnlyInAccounted
  <1>10. target \in OpenAI BY DEF OpenAI
  <1>11. CASE d \in FormatDims BY <1>2, <1>10, <1>11, OpenAIFormats
  <1>12. CASE d \in ThinkingDims
    <2>1. /\ ThinkingOff(g) => "thinking" \in DOMAIN w /\ w["thinking"] = "off"
          /\ ThinkingOn(g) => \A e \in DOMAIN EncodeEffort(g) :
                e \in DOMAIN w /\ w[e] = EncodeEffort(g)[e]
          /\ ThinkingOn(g) /\ Has(g, summary) =>
                summary \in DOMAIN w /\ w[summary] = g[summary]
          /\ \A e \in ReasoningOnly \cap DOMAIN g : e \in DOMAIN w /\ w[e] = g[e]
      <3> HIDE DEF g, w
      <3> QED BY <1>2, ReasoningEncoded
    <2>2. CASE d \in {"thinking", "thinking_budget", "thinking_effort"}
      BY <1>10, <2>1, <2>2, OpenAIThoughts
    <2>3. CASE d \in ReasoningOnly \cup {summary}
      <3>1. d # "thinking" /\ d # "thinking_budget" BY <2>3 DEF ReasoningOnly
      <3>2. /\ ThinkingOff(g) => "thinking" \in DOMAIN w /\ w["thinking"] = "off"
            /\ ThinkingOn(g) => "thinking" \in DOMAIN w /\ w["thinking"] = "on"
        <4> HIDE DEF g, w
        <4> QED BY <2>1, EffortEncoded
      <3>3. SUFFICES ASSUME /\ ThinkingOn(g)
                            /\ d \in DOMAIN g /\ g[d] = f[d]
                     PROVE  Accounted(d)
        BY <1>12, <3>1, <3>2, ThinkingAccounted
      <3>4. d \in DOMAIN w /\ w[d] = f[d] BY <2>1, <2>3, <3>3 DEF Has
      <3> QED BY <3>4 DEF Accounted, Reaches, Has
    <2>4. CASE d \in {"adaptive_thinking", "thinking_display_preference"}
      BY <2>4, ForeignThoughtAccounted
    <2> QED BY <1>12, <2>2, <2>3, <2>4 DEF ThinkingDims, ReasoningOnly
  <1>13. CASE d \in {"modalities", "audio"} BY <1>13, AudioAccounted
  <1>14. CASE d = "logprobs" BY <1>14, LogprobsAccounted
  <1>15. CASE d \in {"background", "store"} BY <1>15, StatesAccounted
  <1>16. CASE d = "cache_control"
    <2>1. ~Can(target, "CacheControl") BY TargetCan DEF ResponsesCaps
    <2> QED BY <1>16, <2>1, MarkAccounted
  <1>17. d \in Dims BY DEF InFlight, Understood
  <1>18. d \in OtherDims =>
           d \in PlainInResponses \cup {"modalities", "audio", "logprobs",
                                        "background", "store", "cache_control"}
    BY DEF OtherDims, PlainInResponses
  <1> QED BY <1>4, <1>5, <1>6, <1>7, <1>8, <1>9, <1>11, <1>12, <1>13, <1>14, <1>15,
             <1>16, <1>17, <1>18
          DEF Dims

-----------------------------------------------------------------------------
(* Parameters sent to a gemini upstream.                                   *)

\* What the gemini encoder copies.
PlainInGemini ==
    {"temperature", "top_p", "top_k", "stop_sequences", "max_tokens", "n",
     "logprobs", "top_logprobs", "seed", "presence_penalty",
     "frequency_penalty"}

\* The gemini encoder sends a schema, strictly, or plain JSON.
LEMMA GeminiFormatEncoded ==
  ASSUME NEW f, Has(f, "response_format")
  PROVE  LET e == EncodeGeminiFormat(f) IN
         IF Has(f, "response_format.schema")
         THEN /\ "response_format" \in DOMAIN e
              /\ e["response_format"] = f["response_format"]
              /\ "response_format.schema" \in DOMAIN e
              /\ e["response_format.schema"] = f["response_format.schema"]
              /\ "response_format.strict" \in DOMAIN e
              /\ e["response_format.strict"] = "strict"
         ELSE "response_format" \in DOMAIN e /\ e["response_format"] = "json"
  <1> DEFINE e == EncodeGeminiFormat(f)
             strict == "response_format.strict" := "strict"
             own == Keep(f, {"response_format", "response_format.schema"})
  <1>1. CASE Has(f, "response_format.schema")
    <2>1. e = strict ++ own BY <1>1 DEF EncodeGeminiFormat
    <2>2. (\A d : d \in DOMAIN strict <=> d = "response_format.strict")
          /\ strict["response_format.strict"] = "strict"
      BY Single
    <2>3. \A d \in {"response_format", "response_format.schema"} :
             d \in DOMAIN own /\ own[d] = f[d]
      BY <1>1, Kept DEF Has
    <2> HIDE DEF e, strict, own
    <2> QED BY <1>1, <2>1, <2>2, <2>3, Merged DEF e
  <1>2. CASE ~Has(f, "response_format.schema")
    <2>1. e = ("response_format" := "json") BY <1>2 DEF EncodeGeminiFormat
    <2> HIDE DEF e
    <2> QED BY <1>2, <2>1, Single DEF e
  <1> QED BY <1>1, <1>2

\* The gemini encoder sends a budget for thinking that is on.
LEMMA GeminiThinkingEncoded ==
  ASSUME NEW f
  PROVE  LET e == EncodeGeminiThinking(f) IN
         /\ \A d \in DOMAIN e : d \in {"thinking", "thinking_budget"}
         /\ ThinkingOff(f) => "thinking" \in DOMAIN e /\ e["thinking"] = "off"
         /\ ThinkingOn(f) =>
               /\ "thinking" \in DOMAIN e /\ e["thinking"] = "on"
               /\ "thinking_budget" \in DOMAIN e
               /\ Has(f, "thinking_budget") /\ f["thinking_budget"] > 0 =>
                     e["thinking_budget"] = f["thinking_budget"]
  <1> DEFINE e == EncodeGeminiThinking(f)
  <1>1. ~(ThinkingOff(f) /\ ThinkingOn(f)) BY DEF ThinkingOff, ThinkingOn
  <1>2. CASE ThinkingOn(f)
    <2> DEFINE budget == IF Get(f, "thinking_budget", 0) > 0
                         THEN f["thinking_budget"]
                         ELSE GeminiBudgetFor(Get(f, "thinking_effort", "unset"),
                                              Get(f, "max_tokens", 0))
    <2>1. e = ("thinking" := "on") ++ ("thinking_budget" := budget)
      BY <1>1, <1>2 DEF EncodeGeminiThinking
    <2>2. Has(f, "thinking_budget") /\ f["thinking_budget"] > 0
          => budget = f["thinking_budget"]
      BY DEF Get
    <2> HIDE DEF budget, e
    <2> QED BY <1>1, <1>2, <2>1, <2>2, Merged, Single DEF e
  <1>3. CASE ThinkingOff(f)
    <2>1. e = ("thinking" := "off") BY <1>1, <1>3 DEF EncodeGeminiThinking
    <2> QED BY <1>1, <1>3, <2>1, Single
  <1>4. CASE ~ThinkingOn(f) /\ ~ThinkingOff(f)
    <2>1. e = << >> BY <1>4 DEF EncodeGeminiThinking
    <2> QED BY <1>4, <2>1, Empty
  <1> QED BY <1>2, <1>3, <1>4

\* The parts the gemini encoder puts its parameters together from.
LEMMA GeminiParamsEncoded ==
  ASSUME NEW f
  PROVE  LET w == EncodeGeminiParams(f)
             format == EncodeGeminiFormat(f)
             think == EncodeGeminiThinking(f)
         IN /\ \A d \in PlainInGemini \cap DOMAIN f : d \in DOMAIN w /\ w[d] = f[d]
            /\ \A d \in DOMAIN think : d \in DOMAIN w /\ w[d] = think[d]
            /\ \A d \in DOMAIN format \cap FormatDims :
                  d \in DOMAIN w /\ w[d] = format[d]
  <1> DEFINE w == EncodeGeminiParams(f)
             format == EncodeGeminiFormat(f)
             think == EncodeGeminiThinking(f)
             plain == Keep(f, PlainInGemini)
             implied == IF Has(f, "top_logprobs") THEN "logprobs" := "yes" ELSE << >>
  <1>1. w = plain ++ implied ++ think ++ format
    BY DEF EncodeGeminiParams, PlainInGemini
  <1>2. \A d \in DOMAIN think : d \in {"thinking", "thinking_budget"}
    BY GeminiThinkingEncoded
  <1>3. \A d \in DOMAIN implied : d \in PlainInGemini
    BY Single, Empty DEF PlainInGemini
  <1>4. \A d \in FormatDims :
           d \notin PlainInGemini /\ d \notin {"thinking", "thinking_budget"}
    BY DEF FormatDims, PlainInGemini
  <1>5. "thinking" \notin PlainInGemini /\ "thinking_budget" \notin PlainInGemini
    BY DEF PlainInGemini
  <1>6. /\ \A d \in DOMAIN plain : d \in PlainInGemini
        /\ \A d \in PlainInGemini \cap DOMAIN f : d \in DOMAIN plain /\ plain[d] = f[d]
    BY Kept
  <1> HIDE DEF plain, implied, think, format, w
  <1>7. \A d \in DOMAIN plain : d \in DOMAIN w /\ w[d] = plain[d] BY <1>1, Merged
  <1>8. \A d \in DOMAIN think : d \in DOMAIN w /\ w[d] = think[d]
    BY <1>1, <1>2, <1>3, <1>5, <1>6, Merged
  <1>9. \A d \in DOMAIN format \cap FormatDims : d \in DOMAIN w /\ w[d] = format[d]
    BY <1>1, <1>2, <1>3, <1>4, <1>6, Merged
  <1> QED BY <1>6, <1>7, <1>8, <1>9 DEF w, think, format

\* Gemini has no capability for what its encoder does not copy.
LEMMA GeminiSwitches ==
  ASSUME NEW d \in SwitchDims, d \notin PlainInGemini
  PROVE  ~Can("gemini", Switch[d])
  <1>1. CASE d \in SamplingDims /\ Switch[d] = SamplingSwitch[d]
    BY <1>1, SamplingValues, TargetCan DEF SamplingDims, PlainInGemini, GeminiCaps
  <1>2. CASE d \in ServiceDims /\ Switch[d] = ServiceSwitch[d]
    BY <1>2, ServiceValues, TargetCan DEF ServiceDims, PlainInGemini, GeminiCaps
  <1>3. CASE d \in AnswerDims /\ Switch[d] = AnswerSwitch[d]
    BY <1>3, AnswerValues, TargetCan DEF AnswerDims, PlainInGemini, GeminiCaps
  <1> QED BY <1>1, <1>2, <1>3, SwitchValue

  (* How deep to think, where the target only knows budgets. *)

\* For a target that takes a budget, depth of thinking arrives as the
\* budget given, or the client is told that it was clamped or filled in.
LEMMA BudgetDepth ==
  ASSUME InFlight, ThinkingOn(req.params),
         NEW d \in DOMAIN req.params \cap {"thinking_budget", "thinking_effort"},
         \/ Rewrote("thinking.budget_tokens") \in notes
         \/ "thinking_budget" \in DOMAIN req.params =>
               /\ "thinking_budget" \in DOMAIN wire.params
               /\ wire.params["thinking_budget"] = req.params["thinking_budget"],
         "thinking_budget" \notin DOMAIN req.params =>
             Filled("thinking_budget") \in notes
  PROVE  Accounted(d)
  <1>1. CASE Rewrote("thinking.budget_tokens") \in notes
    <2>1. "thinking.budget_tokens" \in SpokenFor("thinking_budget")
      BY DEF SpokenFor
    <2> QED BY <1>1, <2>1, NotedBy DEF Accounted, DepthAccounted
  <1>2. CASE /\ "thinking_budget" \in DOMAIN req.params
             /\ "thinking_budget" \in DOMAIN wire.params
             /\ wire.params["thinking_budget"] = req.params["thinking_budget"]
    <2>1. Reaches("thinking_budget", Get(req.params, "thinking_budget", 0))
      BY <1>2 DEF Reaches, Get, Has
    <2> QED BY <2>1 DEF Accounted, DepthAccounted
  <1>3. CASE "thinking_budget" \notin DOMAIN req.params
    <2>1. Said("filled", "thinking_budget") BY <1>3, NotedBy
    <2> QED BY <2>1 DEF Accounted, DepthAccounted
  <1> QED BY <1>1, <1>2, <1>3

\* A budget the gemini encoder makes up is in a note.
LEMMA GeminiFillsBudget ==
  ASSUME InFlight, target = "gemini", ThinkingOn(req.params),
         "thinking_budget" \notin DOMAIN req.params
  PROVE  Filled("thinking_budget") \in notes
  <1>1. ThinkingSurvivesShaping("gemini", req)
    <2>1. Can("gemini", "Thinking") /\ ~Can("gemini", "ThinkingExcludesForcedTools")
      BY TargetCan DEF GeminiCaps
    <2>2. ~NoRoomToThink("gemini", req.params)
      BY DEF NoRoomToThink, Caps, GeminiCaps
    <2> QED BY <2>1, <2>2 DEF ThinkingSurvivesShaping
  <1>2. ~(Get(req.params, "thinking_budget", 0) > 0) BY DEF Get, Has
  <1>3. Filled("thinking_budget") \in DepthNotes(target, req)
    BY <1>1, <1>2 DEF DepthNotes, When
  <1> QED BY <1>3, NotesIncluded DEF ThinkingNotes

\* For gemini, every member of a format is accounted for.
LEMMA GeminiFormats ==
  ASSUME InFlight, target = "gemini", NEW d \in DOMAIN req.params \cap FormatDims
  PROVE  Accounted(d)
  <1> DEFINE f == req.params
             g == Shaped.params
             w == wire.params
             e == EncodeGeminiFormat(g)
             schema == f["response_format"] = "schema"
                       /\ Has(f, "response_format.schema")
  <1>1. \A x \in FormatDims : x \notin ThinkingDims /\ x \notin OtherShaped
    BY DEF FormatDims, ThinkingDims, OtherShaped, ShapedSampling, ShapedStops
  <1>2. /\ Has(f, "response_format")
        /\ Has(f, "response_format.schema") => f["response_format"] = "schema"
        /\ "response_format" \in FormatDims /\ "response_format.schema" \in FormatDims
        /\ "response_format.strict" \in FormatDims
    BY DEF InFlight, Understood, FormatFacts, FormatDims, Has
  <1>3. \A x \in FormatDims : (x \in DOMAIN f <=> x \in DOMAIN g)
                              /\ (x \in DOMAIN f => g[x] = f[x])
    BY <1>1, ShapedParams DEF SameBut
  <1>4. w = EncodeGeminiParams(g)
    BY DEF InFlight, Encoded, EncodeGemini, Shaped
  <1>5. \A x \in DOMAIN e \cap FormatDims : x \in DOMAIN w /\ w[x] = e[x]
    BY <1>4, GeminiParamsEncoded
  <1>6. Has(g, "response_format") BY <1>2, <1>3 DEF Has
  <1>7. schema => /\ FormatKept("response_format")
                  /\ FormatKept("response_format.schema")
                  /\ "response_format.strict" \in DOMAIN w
                  /\ w["response_format.strict"] = "strict"
    <2>1. schema =>
            /\ "response_format" \in DOMAIN e
            /\ e["response_format"] = g["response_format"]
            /\ "response_format.schema" \in DOMAIN e
            /\ e["response_format.schema"] = g["response_format.schema"]
            /\ "response_format.strict" \in DOMAIN e
            /\ e["response_format.strict"] = "strict"
      BY <1>2, <1>3, <1>6, GeminiFormatEncoded DEF Has
    <2> HIDE DEF e, g, w
    <2> QED BY <1>2, <1>3, <1>5, <2>1 DEF FormatKept, Has, w
  <1>8. ~schema => "response_format" \in DOMAIN w /\ w["response_format"] = "json"
    <2>1. ~schema => "response_format" \in DOMAIN e /\ e["response_format"] = "json"
      BY <1>2, <1>3, <1>6, GeminiFormatEncoded DEF Has
    <2> HIDE DEF e, g, w
    <2> QED BY <1>2, <1>5, <2>1
  <1>9. Can(target, "ResponseSchema") /\ target \notin OpenAI
    BY TargetCan DEF GeminiCaps, OpenAI
  <1> HIDE DEF g, e
  <1> QED BY <1>2, <1>7, <1>8, <1>9, FormatsAccounted

\* For gemini, thinking and its settings are accounted for.
LEMMA GeminiThoughts ==
  ASSUME InFlight, target = "gemini", NEW d \in DOMAIN req.params \cap ThinkingDims
  PROVE  Accounted(d)
  <1> DEFINE f == req.params
             g == Shaped.params
             w == wire.params
             e == EncodeGeminiThinking(g)
  <1>1. w = EncodeGeminiParams(g)
    BY DEF InFlight, Encoded, EncodeGemini, Shaped
  <1>2. \A x \in DOMAIN e : x \in DOMAIN w /\ w[x] = e[x]
    BY <1>1, GeminiParamsEncoded
  <1>3. /\ ThinkingOff(g) => "thinking" \in DOMAIN w /\ w["thinking"] = "off"
        /\ ThinkingOn(g) => "thinking" \in DOMAIN w /\ w["thinking"] = "on"
        /\ ThinkingOn(g) /\ Has(g, "thinking_budget") /\ g["thinking_budget"] > 0 =>
              "thinking_budget" \in DOMAIN w
              /\ w["thinking_budget"] = g["thinking_budget"]
    <2> HIDE DEF g, w
    <2>1. /\ ThinkingOff(g) => "thinking" \in DOMAIN e /\ e["thinking"] = "off"
          /\ ThinkingOn(g) =>
                /\ "thinking" \in DOMAIN e /\ e["thinking"] = "on"
                /\ "thinking_budget" \in DOMAIN e
                /\ Has(g, "thinking_budget") /\ g["thinking_budget"] > 0 =>
                      e["thinking_budget"] = g["thinking_budget"]
      BY GeminiThinkingEncoded
    <2> HIDE DEF e
    <2> QED BY <1>2, <2>1
  <1>4. CASE d = "thinking" BY <1>3, <1>4, ThinkingAccounted
  <1>5. CASE d \in {"reasoning_summary_preference", "reasoning_context_scope",
                    "reasoning_mode", "adaptive_thinking",
                    "thinking_display_preference"}
    BY <1>5, ForeignThoughtAccounted
  <1>6. CASE d \in {"thinking_budget", "thinking_effort"}
    <2>1. SUFFICES ASSUME /\ ThinkingOn(f) /\ ThinkingOn(g)
                          /\ \/ Rewrote("thinking.budget_tokens") \in notes
                             \/ "thinking_budget" \in DOMAIN f =>
                                   /\ "thinking_budget" \in DOMAIN g
                                   /\ g["thinking_budget"] = f["thinking_budget"]
                   PROVE  Accounted(d)
      BY <1>3, <1>6, ThinkingAccounted
    <2>2. "thinking_budget" \in DOMAIN f =>
             f["thinking_budget"] \in Nat \ {0}
      BY DEF InFlight, Understood, GivenIn
    <2>3. \/ Rewrote("thinking.budget_tokens") \in notes
          \/ "thinking_budget" \in DOMAIN f =>
                /\ "thinking_budget" \in DOMAIN w
                /\ w["thinking_budget"] = f["thinking_budget"]
      <3> HIDE DEF f, g, w
      <3> QED BY <1>3, <2>1, <2>2 DEF Has
    <2> QED BY <1>6, <2>1, <2>3, BudgetDepth, GeminiFillsBudget
  <1> QED BY <1>4, <1>5, <1>6 DEF ThinkingDims

\* Every dimension sent to a gemini upstream is accounted for.
LEMMA GeminiAccounted ==
  ASSUME InFlight, target = "gemini", NEW d \in DOMAIN req.params
  PROVE  Accounted(d)
  <1> DEFINE f == req.params
             g == Shaped.params
             w == wire.params
  <1>1. w = EncodeGeminiParams(g)
    BY DEF InFlight, Encoded, EncodeGemini, Shaped
  <1>2. CASE d \in PlainInGemini
    <2>1. d \notin ThinkingDims BY <1>2 DEF PlainInGemini, ThinkingDims
    <2>2. d \in DOMAIN g => d \in DOMAIN w /\ w[d] = g[d]
      BY <1>1, <1>2, GeminiParamsEncoded
    <2> QED BY <2>1, <2>2, PlainAccounted
  <1>3. CASE d \in SwitchDims /\ d \notin PlainInGemini
    BY <1>3, GeminiSwitches, SwitchedAccounted
  <1>4. CASE d \in OnlyInDims
    <2>1. OnlyIn[d] # "gemini" BY <1>4, OnlyInValues DEF OnlyInDims
    <2> QED BY <1>4, <2>1, OnlyInAccounted
  <1>5. CASE d \in FormatDims BY <1>5, GeminiFormats
  <1>6. CASE d \in ThinkingDims BY <1>6, GeminiThoughts
  <1>7. CASE d \in {"modalities", "audio"} BY <1>7, AudioAccounted
  <1>8. CASE d \in {"background", "store"} BY <1>8, StatesAccounted
  <1>9. CASE d = "cache_control"
    <2>1. ~Can(target, "CacheControl") BY TargetCan DEF GeminiCaps
    <2> QED BY <1>9, <2>1, MarkAccounted
  <1>10. CASE d = "user_id"
    <2>1. Dropped(d) \in IdentityNotes(target, f)
      BY <1>10 DEF IdentityNotes, When, Has
    <2>2. Dropped(d) \in notes BY <2>1, NotesIncluded DEF ParamNotes
    <2>3. d \in SpokenFor(d) BY DEF SpokenFor
    <2> QED BY <2>2, <2>3, NotedBy DEF Accounted
  <1>11. d \in Dims BY DEF InFlight, Understood
  <1>12. d \in OtherDims =>
           d \in PlainInGemini \cup {"modalities", "audio", "background", "store",
                                     "cache_control", "user_id"}
    BY DEF OtherDims, PlainInGemini
  <1> QED BY <1>2, <1>3, <1>4, <1>5, <1>6, <1>7, <1>8, <1>9, <1>10, <1>11, <1>12
          DEF Dims

-----------------------------------------------------------------------------
(* Shaping of tools.                                                       *)

\* and those a list of allowed tools keeps.
ListedStep(allowed, kept, t) ==
    IF Has(t, "server") \/ t.name \in allowed THEN Append(kept, t) ELSE kept

\* and for the second.
ListedF == INSTANCE FoldFacts WITH Op <- ListedStep, Holds <- Always

\* A tool the list keeps: hosted, or named in it.
Listed(t, allowed) == Has(t, "server") \/ t.name \in allowed

\* Filtering by the list keeps every listed tool, and adds none
\* (AllowlistNarrow, ir/types.go).
LEMMA ListedKept ==
  ASSUME NEW q, IsSequence(q.tools)
  PROVE  LET s == q.tools
             r == AllowlistNarrow(q)
             allowed == q.choice.allowed
         IN /\ IsSequence(r)
            /\ \A i \in DOMAIN r : Listed(r[i], allowed)
                                   /\ \E k \in DOMAIN s : r[i] = s[k]
            /\ \A k \in DOMAIN s : Listed(s[k], allowed) =>
                  \E i \in DOMAIN r : r[i] = s[k]
  <1> DEFINE s == q.tools
             allowed == q.choice.allowed
             T == {t \in ToSet(s) : Listed(t, allowed)}
             r == AllowlistNarrow(q)
  <1>1. r = ListedF!Fold(allowed, <<>>, s)
    BY DEF AllowlistNarrow, Filter, ListedF!Fold, ListedStep, FoldLeft, MapThenFoldSet,
           Max, ListedF!GreatestOf
  <1>2. s \in Seq(ToSet(s)) /\ ToSet(s) = {s[k] : k \in DOMAIN s} BY Members
  <1>3. \A k \in DOMAIN s : s[k] \in T <=> Listed(s[k], allowed) BY <1>2
  <1>4. \A acc : \A k \in DOMAIN s :
           ListedStep(allowed, acc, s[k])
           = IF s[k] \in T THEN Append(acc, s[k]) ELSE acc
    BY <1>3 DEF ListedStep, Listed
  <1> HIDE DEF T, r, s, allowed
  <1>5. /\ r \in Seq(T)
        /\ \A k \in DOMAIN s : s[k] \in T => \E i \in DOMAIN r : r[i] = s[k]
    BY <1>1, <1>2, <1>4, ListedF!FilterMembers
  <1>6. IsSequence(r) /\ \A i \in DOMAIN r : r[i] \in T
    BY <1>5, SequenceOf
  <1>7. \A t \in T : Listed(t, allowed) /\ \E k \in DOMAIN s : t = s[k]
    BY <1>2 DEF T
  <1>8. /\ \A i \in DOMAIN r : Listed(r[i], allowed) /\ \E k \in DOMAIN s : r[i] = s[k]
        /\ \A k \in DOMAIN s : Listed(s[k], allowed) => \E i \in DOMAIN r : r[i] = s[k]
    BY <1>3, <1>5, <1>6, <1>7
  <1> QED BY <1>6, <1>8 DEF r, s, allowed

\* A hosted tool stays or is named by a note of its own, and all others
\* stay (dropServerTools).
LEMMA ServerToolsDropped ==
  ASSUME NEW p, NEW q, Has(q, "tools"), Declared(q.tools)
  PROVE  LET r == DropServerTools(p, q)
             s == r.req.tools
         IN /\ SameBut(q, r.req, {"tools"})
            /\ Declared(s)
            /\ \A i \in DOMAIN s : /\ \E k \in DOMAIN q.tools : s[i] = q.tools[k]
                                   /\ Can(p, "ServerTools") \/ ~Has(s[i], "server")
            /\ \A k \in DOMAIN q.tools :
                  \/ \E i \in DOMAIN s : s[i] = q.tools[k]
                  \/ /\ Has(q.tools[k], "server")
                     /\ ServerToolNote(q.tools[k]) \in r.notes
            /\ Can(p, "ServerTools") => s = q.tools
  <1> DEFINE r == DropServerTools(p, q)
             s == r.req.tools
  <1>1. SameBut(q, r.req, {"tools"}) BY ToolsOnlyShaped
  <1>2. CASE Can(p, "ServerTools")
    <2>1. r.req = q BY <1>2 DEF DropServerTools, Step
    <2> HIDE DEF r
    <2> QED BY <1>1, <1>2, <2>1 DEF r
  <1>3. CASE ~Can(p, "ServerTools")
    <2> DEFINE kept == LocalTools(q.tools)
    <2>1. r.req = [q EXCEPT !.tools = kept]
      BY <1>3 DEF DropServerTools, Step, LocalTools
    <2>2. s = kept
      <3> HIDE DEF kept, r
      <3> QED BY <2>1 DEF Has
    <2>3. r.notes = {ServerToolNote(q.tools[i]) :
                       i \in {j \in DOMAIN q.tools : Has(q.tools[j], "server")}}
      BY <1>3 DEF DropServerTools, Step
    <2>4. /\ IsSequence(kept)
          /\ \A i \in DOMAIN kept : ~Has(kept[i], "server")
                                    /\ \E k \in DOMAIN q.tools : kept[i] = q.tools[k]
          /\ \A k \in DOMAIN q.tools : ~Has(q.tools[k], "server") =>
                \E i \in DOMAIN kept : kept[i] = q.tools[k]
      BY LocalKept DEF Declared
    <2> HIDE DEF kept, r
    <2>5. Declared(s) BY <2>2, <2>4, DeclaredTool
    <2>6. \A k \in DOMAIN q.tools : Has(q.tools[k], "server") =>
             ServerToolNote(q.tools[k]) \in r.notes
      BY <2>3
    <2> QED BY <1>1, <1>3, <2>2, <2>4, <2>5, <2>6 DEF r
  <1> QED BY <1>2, <1>3

\* The note that says a list of allowed tools was not enforced.
Unenforced == <<"unenforced", "tool_choice.allowed_tools">>

\* Tools go only when a list applies and does not name them; some tool is
\* left; and where the list would leave none, the client is told that it is
\* not enforced (enforceToolAllowlist).
LEMMA AllowlistEnforced ==
  ASSUME NEW q, Has(q, "tools"), Declared(q.tools)
  PROVE  LET r == EnforceToolAllowlist(q)
             s == r.req.tools
             allowed == q.choice.allowed
         IN /\ SameBut(q, r.req, {"tools"})
            /\ Declared(s)
            /\ \A i \in DOMAIN s : \E k \in DOMAIN q.tools : s[i] = q.tools[k]
            /\ \/ ~AllowlistApplies(q.choice)
               \/ \A i \in DOMAIN s : Listed(s[i], allowed)
               \/ Unenforced \in r.notes
            /\ \A k \in DOMAIN q.tools :
                  \/ \E i \in DOMAIN s : s[i] = q.tools[k]
                  \/ AllowlistApplies(q.choice) /\ ~Listed(q.tools[k], allowed)
            /\ q.tools # <<>> => s # <<>>
  <1> DEFINE r == EnforceToolAllowlist(q)
             s == r.req.tools
             allowed == q.choice.allowed
  <1>1. SameBut(q, r.req, {"tools"}) BY ToolsOnlyShaped
  <1>2. CASE ~AllowlistApplies(q.choice)
    <2>1. r.req = q BY <1>2 DEF EnforceToolAllowlist, Step
    <2> HIDE DEF r
    <2> QED BY <1>1, <1>2, <2>1 DEF r
  <1>3. CASE AllowlistApplies(q.choice) /\ ~AllowlistMatches(q)
    <2>1. r.req = q /\ r.notes = {Unenforced}
      BY <1>3 DEF EnforceToolAllowlist, Step, Unenforced
    <2> HIDE DEF r
    <2> QED BY <1>1, <1>3, <2>1 DEF r
  <1>4. CASE AllowlistApplies(q.choice) /\ AllowlistMatches(q)
    <2> DEFINE kept == AllowlistNarrow(q)
    <2>1. r.req = [q EXCEPT !.tools = kept]
      BY <1>4 DEF EnforceToolAllowlist, Step
    <2>2. s = kept
      <3> HIDE DEF kept, r
      <3> QED BY <2>1 DEF Has
    <2>3. /\ IsSequence(kept)
          /\ \A i \in DOMAIN kept : Listed(kept[i], allowed)
                                    /\ \E k \in DOMAIN q.tools : kept[i] = q.tools[k]
          /\ \A k \in DOMAIN q.tools : Listed(q.tools[k], allowed) =>
                \E i \in DOMAIN kept : kept[i] = q.tools[k]
      BY ListedKept DEF Declared
    <2> HIDE DEF kept, r, allowed
    <2>4. Declared(s) BY <2>2, <2>3, DeclaredTool
    <2>5. \E k \in DOMAIN q.tools : Listed(q.tools[k], allowed)
      BY <1>4 DEF AllowlistMatches, Listed, allowed
    <2>6. \E i \in DOMAIN s : TRUE BY <2>2, <2>3, <2>5
    <2>7. s # <<>> BY <2>6
    <2> QED BY <1>1, <1>4, <2>2, <2>3, <2>4, <2>7 DEF r, allowed
  <1> QED BY <1>2, <1>3, <1>4

\* A note that says a schema was changed.
SaysSchema(n) == n[1] # "filled" /\ n[2] = "tool_schema"

\* The loop of shapeTools over schemas, as it collects notes,
NoteStep(p, acc, t) == Collect(acc, SchemaNotes(p, t))

\* and what it keeps: every schema seen with something to say has been
\* said.
SchemaSaid(given, n, acc) ==
    /\ \A m \in acc : m[1] # "filled"
    /\ \A k \in 1..n : SchemaNotes(given.p, given.tools[k]) # {} =>
          \E m \in acc : SaysSchema(m)

\* The theorems about folds for this loop.
NoteF == INSTANCE FoldFacts WITH Op <- NoteStep, Holds <- SchemaSaid

\* Every note about a schema names schemas.
LEMMA SchemaNote ==
  ASSUME NEW p, NEW t, NEW n \in SchemaNotes(p, t)
  PROVE  SaysSchema(n)
  <1>1. n = Rewrote("tool_schema") \/ n = Dropped("tool_schema")
    <2>1. CASE Has(t, "server") BY <2>1 DEF SchemaNotes
    <2>2. CASE ~Has(t, "server")
               /\ Get(t, "schema", "absent") \in {"invalid", "untyped"}
      <3>1. SchemaNotes(p, t) = {Rewrote("tool_schema")} BY <2>2 DEF SchemaNotes
      <3> QED BY <3>1
    <2>3. CASE /\ ~Has(t, "server")
               /\ Get(t, "schema", "absent") = "foreign" /\ Can(p, "SchemaDialect")
      <3>1. SchemaNotes(p, t) = {Dropped("tool_schema")} BY <2>3 DEF SchemaNotes
      <3> QED BY <3>1
    <2>4. CASE /\ ~Has(t, "server")
               /\ Get(t, "schema", "absent") \notin {"invalid", "untyped"}
               /\ ~(Get(t, "schema", "absent") = "foreign" /\ Can(p, "SchemaDialect"))
      BY <2>4 DEF SchemaNotes
    <2> QED BY <2>1, <2>2, <2>3, <2>4
  <1> QED BY <1>1 DEF SaysSchema, Rewrote, Dropped

\* The loop over all tools has said what it should,
LEMMA SchemasCollected ==
  ASSUME NEW p, NEW q, IsSequence(q.tools)
  PROVE  SchemaSaid([p |-> p, tools |-> q.tools], Len(q.tools),
                    ShapeToolSchemas(p, q).notes)
  <1> DEFINE s == q.tools
             given == [p |-> p, tools |-> s]
             all == NoteF!Fold(p, {}, s)
  <1>1. ShapeToolSchemas(p, q).notes = all
    BY DEF ShapeToolSchemas, Step, NoteF!Fold, NoteStep, FoldLeft, MapThenFoldSet,
           Max, NoteF!GreatestOf
  <1>2. Len(s) \in Nat /\ DOMAIN s = 1..Len(s) BY Sequence
  <1>3. given.p = p /\ given.tools = s OBVIOUS
  <1> HIDE DEF s, given
  <1>4. SchemaSaid(given, 0, {}) BY DEF SchemaSaid
  <1>5. ASSUME NEW acc, NEW j \in 1..Len(s), SchemaSaid(given, j - 1, acc)
        PROVE  SchemaSaid(given, j, NoteStep(p, acc, s[j]))
    <2> DEFINE more == SchemaNotes(p, s[j])
               new == Collect(acc, more)
    <2>1. \A m \in acc : m \in new BY DEF Collect
    <2>2. \A m \in more : SaysSchema(m) BY SchemaNote
    <2>3. \A m \in new : m[1] # "filled"
      BY <1>5, <2>2 DEF SchemaSaid, Collect, SaysSchema
    <2>4. more # {} => \E m \in new : SaysSchema(m)
      <3> SUFFICES ASSUME NEW m \in more PROVE \E x \in new : SaysSchema(x) OBVIOUS
      <3>1. CASE m \in new BY <2>2, <3>1
      <3>2. CASE m \notin new
        <4> HIDE DEF more
        <4>1. PICK x \in acc : x[2] = m[2] BY <3>2 DEF Collect
        <4>2. SaysSchema(x)
          BY <1>5, <2>2, <4>1 DEF SchemaSaid, SaysSchema
        <4> QED BY <2>1, <4>2
      <3> QED BY <3>1, <3>2
    <2> HIDE DEF more, new
    <2>5. \A i \in 1..j : SchemaNotes(given.p, given.tools[i]) # {} =>
             \E m \in new : SaysSchema(m)
      <3> SUFFICES ASSUME NEW i \in 1..j, SchemaNotes(given.p, given.tools[i]) # {}
                   PROVE  \E m \in new : SaysSchema(m)
        OBVIOUS
      <3>1. CASE i = j BY <1>3, <2>4, <3>1 DEF more
      <3>2. CASE i # j
        <4>1. i \in 1..(j - 1) BY <1>2, <3>2
        <4> QED BY <1>5, <2>1, <4>1 DEF SchemaSaid
      <3> QED BY <3>1, <3>2
    <2> QED BY <2>3, <2>5 DEF SchemaSaid, NoteStep, new, more
  <1>6. SchemaSaid(given, Len(s), NoteF!Fold(p, {}, s))
    BY <1>2, <1>4, <1>5, NoteF!FoldKeeps
  <1> QED BY <1>1, <1>6 DEF given, s

\* so that where one tool's schema has something to say, the notes say it.
LEMMA SchemasSaid ==
  ASSUME NEW p, NEW q, IsSequence(q.tools), NEW k \in DOMAIN q.tools,
         SchemaNotes(p, q.tools[k]) # {}
  PROVE  \E n \in ShapeToolSchemas(p, q).notes : SaysSchema(n)
  <1>1. Len(q.tools) \in Nat /\ DOMAIN q.tools = 1..Len(q.tools) BY Sequence
  <1> QED BY <1>1, SchemasCollected DEF SchemaSaid

\* The schema of a declaration, if any.
Schema(t) == Get(t, "schema", "absent")

\* A schema stays as it is, or there was none, or there is a note.
LEMMA SchemaShaped ==
  ASSUME NEW p, NEW t, WellFormedTool(t)
  PROVE  LET u == ShapeToolSchema(p, t) IN
         /\ SameBut(t, u, {"schema"})
         /\ \/ Schema(u) = Schema(t)
            \/ Schema(t) = "absent"
            \/ SchemaNotes(p, t) # {}
  <1> DEFINE u == ShapeToolSchema(p, t)
             own == [schema |-> "object"]
  <1>1. Has(t, "schema") =>
           t.schema \in {"object", "untyped", "foreign", "invalid"}
    BY DEF WellFormedTool, GivenIn, Has
  <1>2. CASE Has(t, "server") \/ (Schema(t) = "foreign" /\ ~Can(p, "SchemaDialect"))
    <2>1. u = t BY <1>2 DEF ShapeToolSchema, Schema
    <2> HIDE DEF u
    <2> QED BY <2>1 DEF SameBut, u
  <1>3. CASE ~(Has(t, "server") \/ (Schema(t) = "foreign" /\ ~Can(p, "SchemaDialect")))
    <2>1. u = own ++ t BY <1>3 DEF ShapeToolSchema, Schema
    <2>2. (\A x : x \in DOMAIN own <=> x = "schema") /\ own["schema"] = "object"
      OBVIOUS
    <2> HIDE DEF u, own
    <2>3. SameBut(t, u, {"schema"}) BY <2>1, <2>2, Merged DEF SameBut
    <2>4. Schema(u) = "object" BY <2>1, <2>2, Merged DEF Schema, Get, Has
    <2>5. Schema(t) \in {"invalid", "untyped"} => SchemaNotes(p, t) # {}
      BY <1>3 DEF SchemaNotes, Schema
    <2>6. Schema(t) = "foreign" /\ Can(p, "SchemaDialect") => SchemaNotes(p, t) # {}
      BY <1>3 DEF SchemaNotes, Schema
    <2>7. Schema(t) \in {"absent", "object", "untyped", "foreign", "invalid"}
      BY <1>1 DEF Schema, Get
    <2> QED BY <1>3, <2>3, <2>4, <2>5, <2>6, <2>7 DEF u
  <1> QED BY <1>2, <1>3

\* The loop over all declarations changes schemas only, each with a note.
LEMMA SchemasShaped ==
  ASSUME NEW p, NEW q, Has(q, "tools"), Declared(q.tools)
  PROVE  LET r == ShapeToolSchemas(p, q)
             s == r.req.tools
         IN /\ SameBut(q, r.req, {"tools"})
            /\ DOMAIN s = DOMAIN q.tools
            /\ \A i \in DOMAIN s :
                  /\ SameBut(q.tools[i], s[i], {"schema"})
                  /\ \/ Schema(s[i]) = Schema(q.tools[i])
                     \/ Schema(q.tools[i]) = "absent"
                     \/ \E n \in r.notes : SaysSchema(n)
  <1> DEFINE r == ShapeToolSchemas(p, q)
             s == r.req.tools
             new == [i \in DOMAIN q.tools |-> ShapeToolSchema(p, q.tools[i])]
  <1>1. SameBut(q, r.req, {"tools"}) BY ToolsOnlyShaped
  <1>2. r.req = [q EXCEPT !.tools = new] BY DEF ShapeToolSchemas, Step
  <1>3. s = new
    <2> HIDE DEF new, r
    <2> QED BY <1>2 DEF Has
  <1>4. DOMAIN s = DOMAIN q.tools BY <1>3
  <1> HIDE DEF r
  <1>5. ASSUME NEW i \in DOMAIN q.tools
        PROVE  /\ SameBut(q.tools[i], s[i], {"schema"})
               /\ \/ Schema(s[i]) = Schema(q.tools[i])
                  \/ Schema(q.tools[i]) = "absent"
                  \/ \E n \in r.notes : SaysSchema(n)
    <2>1. s[i] = ShapeToolSchema(p, q.tools[i]) BY <1>3
    <2>2. WellFormedTool(q.tools[i]) /\ IsSequence(q.tools) BY DEF Declared
    <2>3. SchemaNotes(p, q.tools[i]) # {} => \E n \in r.notes : SaysSchema(n)
      BY <2>2, SchemasSaid DEF r
    <2> QED BY <2>1, <2>2, <2>3, SchemaShaped
  <1> QED BY <1>1, <1>4, <1>5 DEF r

\* A choice stays as it is or a note says what happened to it.
LEMMA ChoiceShaped ==
  ASSUME NEW q, Has(q, "choice")
  PROVE  LET r == ShapeToolChoice(q) IN
         /\ SameBut(q, r.req, {"choice"})
         /\ \/ r.req.choice = q.choice
            \/ Dropped("tool_choice") \in r.notes
            \/ Rewrote("tool_choice") \in r.notes
  <1> DEFINE r == ShapeToolChoice(q)
  <1>1. SameBut(q, r.req, {"choice"}) BY ToolsOnlyShaped
  <1>2. CASE q.choice = NoChoice
    BY <1>1, <1>2 DEF ShapeToolChoice, Step, NoChoice
  <1>3. CASE q.choice # NoChoice /\ q.tools = <<>>
    BY <1>1, <1>3 DEF ShapeToolChoice, Step
  <1>4. CASE q.choice # NoChoice /\ q.tools # <<>> /\ q.choice.mode = "tool"
             /\ \A i \in DOMAIN q.tools : q.tools[i].name # q.choice.name
    <2>1. r = Step([q EXCEPT !.choice = [mode |-> "auto"]], {Rewrote("tool_choice")})
      BY <1>4 DEF ShapeToolChoice
    <2> QED BY <1>1, <2>1 DEF Step
  <1>5. CASE /\ q.choice # NoChoice /\ q.tools # <<>>
             /\ ~(q.choice.mode = "tool"
                  /\ \A i \in DOMAIN q.tools : q.tools[i].name # q.choice.name)
    BY <1>1, <1>5 DEF ShapeToolChoice, Step
  <1> QED BY <1>2, <1>3, <1>4, <1>5

\* A list of something, and that one without members is the empty list.
Listing(s) == s = [i \in DOMAIN s |-> s[i]]

LEMMA ListingHolds ==
  ASSUME NEW s, Listing(s), s # <<>>
  PROVE  \E i \in DOMAIN s : TRUE
  <1> SUFFICES ASSUME DOMAIN s = {} PROVE FALSE OBVIOUS
  <1>1. s = [i \in {} |-> s[i]] BY DEF Listing
  <1>2. [i \in {} |-> s[i]] = <<>> OBVIOUS
  <1> QED BY <1>1, <1>2

\* Marks beyond the cache budget go from tools, with a note, and nothing
\* else of a tool changes.
LEMMA CacheBudgeted ==
  ASSUME NEW p, NEW q, Has(q, "tools")
  PROVE  LET r == BudgetCache(p, q)
             s == r.req.tools
         IN /\ DOMAIN s = DOMAIN q.tools
            /\ Listing(q.tools) => Listing(s)
            /\ \A i \in DOMAIN s : SameBut(q.tools[i], s[i], {"cache"})
            /\ \/ \A i \in DOMAIN s : s[i] = q.tools[i]
               \/ Dropped("cache_control") \in r.notes
  <1> DEFINE r == BudgetCache(p, q)
             s == r.req.tools
  <1>1. CASE r.req = q BY <1>1 DEF SameBut
  <1>2. CASE r.req # q
    <2>1. PICK gone, sys, msgs :
            r = Step([q EXCEPT
                  !.tools = [i \in DOMAIN @ |->
                               IF <<"tool", i>> \in gone THEN Without(@[i], {"cache"})
                               ELSE @[i]],
                  !.system = sys, !.messages = msgs], {Dropped("cache_control")})
      <3> DEFINE excess == Len(CacheMarks(q)) - Caps(p).CacheBreakpoints
      <3>1. ~(Caps(p).CacheBreakpoints = 0 \/ excess <= 0)
        BY <1>2 DEF BudgetCache, Step
      <3> QED BY <3>1 DEF BudgetCache
    <2> DEFINE new == [i \in DOMAIN q.tools |->
                         IF <<"tool", i>> \in gone THEN Without(q.tools[i], {"cache"})
                         ELSE q.tools[i]]
    <2>2. r.req = [q EXCEPT !.tools = new, !.system = sys, !.messages = msgs]
          /\ r.notes = {Dropped("cache_control")}
      BY <2>1 DEF Step
    <2>3. s = new
      <3> HIDE DEF new, r
      <3> QED BY <2>2 DEF Has
    <2>4. \A i \in DOMAIN new : SameBut(q.tools[i], new[i], {"cache"})
      BY Removed DEF SameBut
    <2>5. DOMAIN new = DOMAIN q.tools
          /\ new = [i \in DOMAIN new |-> new[i]]
      OBVIOUS
    <2> HIDE DEF r, new
    <2>6. DOMAIN s = DOMAIN q.tools /\ Listing(s) BY <2>3, <2>5 DEF Listing
    <2>7. \A i \in DOMAIN s : SameBut(q.tools[i], s[i], {"cache"}) BY <2>3, <2>4
    <2> QED BY <2>2, <2>6, <2>7 DEF r
  <1> QED BY <1>1, <1>2

\* No step about tools adds or removes fields of a request.
LEMMA FieldsStay ==
  ASSUME NEW p, NEW q
  PROVE  /\ DOMAIN DropServerTools(p, q).req = DOMAIN q
         /\ DOMAIN EnforceToolAllowlist(q).req = DOMAIN q
         /\ DOMAIN ShapeToolSchemas(p, q).req = DOMAIN q
         /\ DOMAIN ShapeToolChoice(q).req = DOMAIN q
  <1>1. DropServerTools(p, q).req = q
        \/ \E t : DropServerTools(p, q).req = [q EXCEPT !.tools = t]
    BY DEF DropServerTools, Step
  <1>2. EnforceToolAllowlist(q).req = q
        \/ \E t : EnforceToolAllowlist(q).req = [q EXCEPT !.tools = t]
    BY DEF EnforceToolAllowlist, Step
  <1>3. \E t : ShapeToolSchemas(p, q).req = [q EXCEPT !.tools = t]
    BY DEF ShapeToolSchemas, Step
  <1>4. ShapeToolChoice(q).req = q
        \/ \E c : ShapeToolChoice(q).req = [q EXCEPT !.choice = c]
    <2>1. CASE q.choice # NoChoice /\ q.tools = <<>>
      BY <2>1 DEF ShapeToolChoice, Step
    <2>2. CASE q.choice # NoChoice /\ q.tools # <<>> /\ q.choice.mode = "tool"
               /\ \A i \in DOMAIN q.tools : q.tools[i].name # q.choice.name
      <3>1. ShapeToolChoice(q)
            = Step([q EXCEPT !.choice = [mode |-> "auto"]], {Rewrote("tool_choice")})
        BY <2>2 DEF ShapeToolChoice
      <3>2. ShapeToolChoice(q).req = [q EXCEPT !.choice = [mode |-> "auto"]]
        BY <3>1 DEF Step
      <3> QED BY <3>2
    <2>3. CASE q.choice = NoChoice BY <2>3 DEF ShapeToolChoice, Step, NoChoice
    <2> QED BY <2>1, <2>2, <2>3 DEF ShapeToolChoice, Step
  <1> QED BY <1>1, <1>2, <1>3, <1>4

  (* A declaration on its way through shaping. *)

\* A declaration arrives with everything but what notes speak for.
Carried(t, u, said) ==
    /\ SameBut(t, u, {"schema", "cache"})
    /\ \/ Schema(u) = Schema(t)
       \/ Schema(t) = "absent"
       \/ \E n \in said : SaysSchema(n)
    /\ SameBut(t, u, {"schema"}) \/ Dropped("cache_control") \in said

\* Whatever the tools, the choice and the target are: after the four steps
\* of shapeTools and the cache budget every declaration is still there, but
\* for noted changes of its schema, or it was hosted and named by a note,
\* or excluded by the client's own list; and the list holds or the client
\* is told.
LEMMA ToolsShaped ==
  ASSUME NEW p, NEW q, Has(q, "tools"), Has(q, "choice"), Declared(q.tools)
  PROVE  LET r == ShapeTools(p, q)
             s == r.req.tools
             allowed == q.choice.allowed
         IN /\ Has(r.req, "tools") /\ Has(r.req, "choice")
            /\ \A k \in DOMAIN q.tools :
                  \/ \E i \in DOMAIN s : Carried(q.tools[k], s[i], r.notes)
                  \/ /\ Has(q.tools[k], "server")
                     /\ ServerToolNote(q.tools[k]) \in r.notes
                  \/ AllowlistApplies(q.choice) /\ ~Listed(q.tools[k], allowed)
            /\ \A i \in DOMAIN s : /\ Has(s[i], "name")
                                   /\ Can(p, "ServerTools") \/ ~Has(s[i], "server")
            /\ \/ ~AllowlistApplies(q.choice)
               \/ \A i \in DOMAIN s : Listed(s[i], allowed)
               \/ Unenforced \in r.notes
            /\ Can(p, "ServerTools") /\ q.tools # <<>> => \E i \in DOMAIN s : TRUE
            /\ \/ r.req.choice = q.choice
               \/ Dropped("tool_choice") \in r.notes
               \/ Rewrote("tool_choice") \in r.notes
  <1> DEFINE server == DropServerTools(p, q)
             allow  == EnforceToolAllowlist(server.req)
             schema == ShapeToolSchemas(p, allow.req)
             choice == ShapeToolChoice(schema.req)
             allowed == q.choice.allowed
             r == ShapeTools(p, q)
             s1 == server.req.tools
             s2 == allow.req.tools
             s3 == schema.req.tools
             s == r.req.tools
  <1>1. /\ r.req = choice.req
        /\ r.notes = UNION {server.notes, allow.notes, schema.notes, choice.notes}
    BY DEF ShapeTools, Step
  <1>2. /\ SameBut(q, server.req, {"tools"}) /\ Declared(s1)
        /\ \A i \in DOMAIN s1 : Can(p, "ServerTools") \/ ~Has(s1[i], "server")
        /\ \A k \in DOMAIN q.tools :
              \/ \E i \in DOMAIN s1 : s1[i] = q.tools[k]
              \/ /\ Has(q.tools[k], "server")
                 /\ ServerToolNote(q.tools[k]) \in server.notes
        /\ Can(p, "ServerTools") => s1 = q.tools
    BY ServerToolsDropped
  <1> HIDE DEF server
  <1>3. /\ Has(server.req, "tools") /\ Has(server.req, "choice")
        /\ server.req.choice = q.choice
    BY <1>2, FieldsStay DEF SameBut, Has, server
  <1>4. /\ SameBut(server.req, allow.req, {"tools"}) /\ Declared(s2)
        /\ \A i \in DOMAIN s2 : \E k \in DOMAIN s1 : s2[i] = s1[k]
        /\ \/ ~AllowlistApplies(q.choice)
           \/ \A i \in DOMAIN s2 : Listed(s2[i], allowed)
           \/ Unenforced \in allow.notes
        /\ \A k \in DOMAIN s1 :
              \/ \E i \in DOMAIN s2 : s2[i] = s1[k]
              \/ AllowlistApplies(q.choice) /\ ~Listed(s1[k], allowed)
        /\ s1 # <<>> => s2 # <<>>
    BY <1>2, <1>3, AllowlistEnforced
  <1>5. Has(allow.req, "tools") /\ Has(allow.req, "choice")
        /\ allow.req.choice = q.choice
    BY <1>3, <1>4, FieldsStay DEF SameBut, Has
  <1> HIDE DEF allow
  <1>6. /\ SameBut(allow.req, schema.req, {"tools"})
        /\ DOMAIN s3 = DOMAIN s2
        /\ \A i \in DOMAIN s3 :
              /\ SameBut(s2[i], s3[i], {"schema"})
              /\ \/ Schema(s3[i]) = Schema(s2[i])
                 \/ Schema(s2[i]) = "absent"
                 \/ \E n \in schema.notes : SaysSchema(n)
    BY <1>4, <1>5, SchemasShaped
  <1>7. Has(schema.req, "tools") /\ Has(schema.req, "choice")
        /\ schema.req.choice = q.choice
    BY <1>5, <1>6, FieldsStay DEF SameBut, Has
  <1> HIDE DEF schema
  <1>8. /\ SameBut(schema.req, choice.req, {"choice"})
        /\ \/ choice.req.choice = q.choice
           \/ Dropped("tool_choice") \in choice.notes
           \/ Rewrote("tool_choice") \in choice.notes
    BY <1>7, ChoiceShaped
  <1>9. Has(choice.req, "choice") BY <1>7, FieldsStay DEF Has
  <1> HIDE DEF choice, r
  <1>10. Has(r.req, "tools") /\ Has(r.req, "choice") /\ s = s3
    BY <1>1, <1>7, <1>8, <1>9 DEF SameBut, Has
  <1>11. \A i \in DOMAIN s2 : i \in DOMAIN s /\ Carried(s2[i], s[i], r.notes)
    <2>1. \A i \in DOMAIN s2 : SameBut(s2[i], s[i], {"schema"})
                               /\ SameBut(s2[i], s[i], {"schema", "cache"})
      BY <1>6, <1>10 DEF SameBut
    <2>2. \A n \in schema.notes : n \in r.notes BY <1>1
    <2> QED BY <1>6, <1>10, <2>1, <2>2 DEF Carried
  <1>12. \A i \in DOMAIN s : /\ i \in DOMAIN s2 /\ Has(s[i], "name")
                             /\ Has(s[i], "server") <=> Has(s2[i], "server")
                             /\ s[i].name = s2[i].name
    <2>1. \A i \in DOMAIN s2 : Has(s2[i], "name") BY <1>4 DEF Declared, WellFormedTool
    <2> QED BY <1>6, <1>10, <2>1 DEF SameBut, Has
  <1>13. \A k \in DOMAIN q.tools :
            \/ \E i \in DOMAIN s : Carried(q.tools[k], s[i], r.notes)
            \/ Has(q.tools[k], "server") /\ ServerToolNote(q.tools[k]) \in r.notes
            \/ AllowlistApplies(q.choice) /\ ~Listed(q.tools[k], allowed)
    BY <1>1, <1>2, <1>4, <1>11
  <1>14. \A i \in DOMAIN s : /\ Has(s[i], "name")
                             /\ Can(p, "ServerTools") \/ ~Has(s[i], "server")
    BY <1>2, <1>4, <1>12
  <1>15. \/ ~AllowlistApplies(q.choice)
         \/ \A i \in DOMAIN s : Listed(s[i], allowed)
         \/ Unenforced \in r.notes
    BY <1>1, <1>4, <1>12 DEF Listed
  <1>16. Can(p, "ServerTools") /\ q.tools # <<>> => \E i \in DOMAIN s : TRUE
    <2>1. s2 # <<>> => \E i \in DOMAIN s2 : TRUE
      BY <1>4 DEF Declared, IsSequence
    <2> QED BY <1>2, <1>4, <1>11, <2>1
  <1>17. \/ r.req.choice = q.choice
         \/ Dropped("tool_choice") \in r.notes
         \/ Rewrote("tool_choice") \in r.notes
    BY <1>1, <1>8
  <1> QED BY <1>10, <1>13, <1>14, <1>15, <1>16, <1>17 DEF r

\* What ToolsShaped and CacheBudgeted say of the request in flight.
LEMMA ShapedTools ==
  ASSUME InFlight
  PROVE  LET s == Shaped.tools
             allowed == req.choice.allowed
         IN /\ \A k \in DOMAIN req.tools :
                  \/ \E i \in DOMAIN s : Carried(req.tools[k], s[i], notes)
                  \/ /\ Has(req.tools[k], "server")
                     /\ ServerToolNote(req.tools[k]) \in notes
                  \/ AllowlistApplies(req.choice) /\ ~Listed(req.tools[k], allowed)
            /\ \A i \in DOMAIN s :
                  /\ Has(s[i], "name")
                  /\ Can(target, "ServerTools") \/ ~Has(s[i], "server")
            /\ \/ ~AllowlistApplies(req.choice)
               \/ \A i \in DOMAIN s : Listed(s[i], allowed)
               \/ Unenforced \in notes
            /\ Can(target, "ServerTools") /\ req.tools # <<>> =>
                  \E i \in DOMAIN s : TRUE
            /\ \/ Shaped.choice = req.choice
               \/ Dropped("tool_choice") \in notes
               \/ Rewrote("tool_choice") \in notes
  <1> DEFINE full   == EnsureNonEmptyMessages(req)
             media  == MoveToolResultMedia(target, full.req)
             tools  == ShapeTools(target, media.req)
             params == ShapeParams(target, tools.req)
             system == ShapeSystem(target, params.req)
             cache  == BudgetCache(target, system.req)
             s == Shaped.tools
             t == tools.req.tools
             allowed == req.choice.allowed
  <1>1. /\ Shaped = cache.req
        /\ tools.notes \subseteq notes /\ cache.notes \subseteq notes
        /\ SameBut(req, media.req, {"messages"})
        /\ SameBut(tools.req, system.req, {"params", "system"})
        /\ SameBut(system.req, cache.req, {"tools", "system", "messages"})
    <2>1. /\ Shaped = cache.req
          /\ ShapeRequest(target, req).notes
             = UNION {full.notes, media.notes, tools.notes, params.notes,
                      system.notes, cache.notes}
          /\ SameBut(req, media.req, {"messages"})
          /\ SameBut(tools.req, system.req, {"params", "system"})
          /\ SameBut(system.req, Shaped, {"tools", "system", "messages"})
      BY RequestShaped DEF InFlight, Shaped
    <2> HIDE DEF full, media, tools, params, system, cache
    <2> QED BY <2>1, NotesIncluded
  <1>2. /\ Has(media.req, "tools") /\ media.req.tools = req.tools
        /\ Has(media.req, "choice") /\ media.req.choice = req.choice
    <2> HIDE DEF media
    <2> QED BY <1>1 DEF SameBut, InFlight, Whole, Has
  <1> HIDE DEF media
  <1>3. /\ Has(tools.req, "tools") /\ Has(tools.req, "choice")
        /\ \A k \in DOMAIN req.tools :
              \/ \E i \in DOMAIN t : Carried(req.tools[k], t[i], tools.notes)
              \/ /\ Has(req.tools[k], "server")
                 /\ ServerToolNote(req.tools[k]) \in tools.notes
              \/ AllowlistApplies(req.choice) /\ ~Listed(req.tools[k], allowed)
        /\ \A i \in DOMAIN t : /\ Has(t[i], "name")
                               /\ Can(target, "ServerTools") \/ ~Has(t[i], "server")
        /\ \/ ~AllowlistApplies(req.choice)
           \/ \A i \in DOMAIN t : Listed(t[i], allowed)
           \/ Unenforced \in tools.notes
        /\ Can(target, "ServerTools") /\ req.tools # <<>> => \E i \in DOMAIN t : TRUE
        /\ \/ tools.req.choice = req.choice
           \/ Dropped("tool_choice") \in tools.notes
           \/ Rewrote("tool_choice") \in tools.notes
    <2>1. Declared(media.req.tools) BY <1>2 DEF InFlight
    <2> QED BY <1>2, <2>1, ToolsShaped
  <1> HIDE DEF tools
  <1>4. /\ Has(system.req, "tools") /\ system.req.tools = t
        /\ system.req.choice = tools.req.choice /\ Has(system.req, "choice")
    <2> HIDE DEF system
    <2> QED BY <1>1, <1>3 DEF SameBut, Has
  <1> HIDE DEF system
  <1>5. /\ DOMAIN s = DOMAIN t
        /\ \A i \in DOMAIN s : SameBut(t[i], s[i], {"cache"})
        /\ \/ \A i \in DOMAIN s : s[i] = t[i]
           \/ Dropped("cache_control") \in cache.notes
    BY <1>1, <1>4, CacheBudgeted
  <1> HIDE DEF cache
  <1>6. Shaped.choice = tools.req.choice BY <1>1, <1>4 DEF SameBut, Has
  <1>7. \A x : \A i \in DOMAIN s :
           Carried(x, t[i], tools.notes) => Carried(x, s[i], notes)
    <2> SUFFICES ASSUME NEW x, NEW i \in DOMAIN s, Carried(x, t[i], tools.notes)
                 PROVE  Carried(x, s[i], notes)
      OBVIOUS
    <2>1. SameBut(x, s[i], {"schema", "cache"}) BY <1>5 DEF Carried, SameBut
    <2>2. Schema(s[i]) = Schema(t[i]) BY <1>5 DEF SameBut, Schema, Get, Has
    <2>3. SameBut(x, s[i], {"schema"}) \/ Dropped("cache_control") \in notes
      BY <1>1, <1>5 DEF Carried
    <2> QED BY <1>1, <2>1, <2>2, <2>3 DEF Carried
  <1>8. \A i \in DOMAIN s : /\ Has(s[i], "server") <=> Has(t[i], "server")
                            /\ Has(s[i], "name")
                            /\ Listed(t[i], allowed) => Listed(s[i], allowed)
    <2>1. \A i \in DOMAIN s : Has(t[i], "server") <=> Has(s[i], "server")
      BY <1>5 DEF SameBut, Has
    <2>2. \A i \in DOMAIN s : Has(s[i], "name") /\ s[i].name = t[i].name
      BY <1>3, <1>5 DEF SameBut, Has
    <2> QED BY <2>1, <2>2 DEF Listed
  <1>9. \A k \in DOMAIN req.tools :
          \/ \E i \in DOMAIN s : Carried(req.tools[k], s[i], notes)
          \/ Has(req.tools[k], "server") /\ ServerToolNote(req.tools[k]) \in notes
          \/ AllowlistApplies(req.choice) /\ ~Listed(req.tools[k], allowed)
    BY <1>1, <1>3, <1>5, <1>7
  <1> QED BY <1>1, <1>3, <1>5, <1>6, <1>8, <1>9

-----------------------------------------------------------------------------
(* Parameters sent to an anthropic upstream.                               *)

\* What the anthropic encoder copies.
PlainInAnthropic ==
    {"temperature", "top_p", "top_k", "stop_sequences", "cache_control",
     "inference_geo", "container", "mcp_servers", "context_management",
     "diagnostics"}

\* What it sends about thinking,
ThoughtInAnthropic ==
    {"thinking", "thinking_budget", "adaptive_thinking",
     "thinking_display_preference"}

\* and about the form of the answer.
OutputInAnthropic ==
    {"response_format", "response_format.schema", "response_format.strict",
     "thinking_effort"}

\* The anthropic encoder says thinking is on or off; adaptive thinking goes
\* without a budget, any other with the budget given.
LEMMA AnthropicThinkingEncoded ==
  ASSUME NEW f, NEW most
  PROVE  LET e == EncodeAnthropicThinking(f, most) IN
         /\ \A d \in DOMAIN e : d \in ThoughtInAnthropic
         /\ ThinkingOff(f) => "thinking" \in DOMAIN e /\ e["thinking"] = "off"
         /\ ThinkingOn(f) =>
               /\ "thinking" \in DOMAIN e /\ e["thinking"] = "on"
               /\ \A d \in DOMAIN f : d \in {"adaptive_thinking",
                                             "thinking_display_preference"} =>
                     d \in DOMAIN e /\ e[d] = f[d]
               /\ Has(f, "thinking_budget") /\ f["thinking_budget"] > 0
                  /\ ~Has(f, "adaptive_thinking") =>
                     "thinking_budget" \in DOMAIN e
                     /\ e["thinking_budget"] = f["thinking_budget"]
  <1> DEFINE e == EncodeAnthropicThinking(f, most)
  <1>1. ~(ThinkingOff(f) /\ ThinkingOn(f)) BY DEF ThinkingOff, ThinkingOn
  <1>2. ThinkingOn(f) => "thinking" \in DOMAIN f /\ f["thinking"] = "on"
    BY DEF ThinkingOn, Get, Has
  <1>3. CASE ThinkingOn(f) /\ Has(f, "adaptive_thinking")
    <2>1. e = Keep(f, {"thinking", "adaptive_thinking",
                       "thinking_display_preference"})
      BY <1>1, <1>3 DEF EncodeAnthropicThinking
    <2> HIDE DEF e
    <2> QED BY <1>1, <1>2, <1>3, <2>1, Kept DEF e, ThoughtInAnthropic
  <1>4. CASE ThinkingOn(f) /\ ~Has(f, "adaptive_thinking")
    <2> DEFINE budget == IF Get(f, "thinking_budget", 0) > 0
                         THEN f["thinking_budget"]
                         ELSE AnthropicBudgetFor(Get(f, "thinking_effort", "unset"),
                                                 most)
               own == Keep(f, {"thinking", "thinking_display_preference"})
               depth == "thinking_budget" := budget
    <2>1. e = depth ++ own
      BY <1>1, <1>4 DEF EncodeAnthropicThinking
    <2>2. Has(f, "thinking_budget") /\ f["thinking_budget"] > 0
          => budget = f["thinking_budget"]
      BY DEF Get
    <2>3. (\A d : d \in DOMAIN depth <=> d = "thinking_budget")
          /\ depth["thinking_budget"] = budget
      BY Single
    <2>4. /\ \A d \in DOMAIN own : d \in {"thinking", "thinking_display_preference"}
          /\ \A d \in DOMAIN f : d \in {"thinking", "thinking_display_preference"} =>
                d \in DOMAIN own /\ own[d] = f[d]
      BY Kept
    <2> HIDE DEF budget, own, depth, e
    <2> QED BY <1>1, <1>2, <1>4, <2>1, <2>2, <2>3, <2>4, Merged
            DEF e, ThoughtInAnthropic, Has
  <1>5. CASE ThinkingOff(f)
    <2>1. e = ("thinking" := "off") BY <1>1, <1>5 DEF EncodeAnthropicThinking
    <2> QED BY <1>1, <1>5, <2>1, Single DEF ThoughtInAnthropic
  <1>6. CASE ~ThinkingOn(f) /\ ~ThinkingOff(f)
    <2>1. e = << >> BY <1>6 DEF EncodeAnthropicThinking
    <2> QED BY <1>6, <2>1, Empty
  <1> QED BY <1>3, <1>4, <1>5, <1>6

\* The anthropic encoder sends a schema, strictly, and an effort it knows.
LEMMA AnthropicOutputEncoded ==
  ASSUME NEW f
  PROVE  LET e == EncodeAnthropicOutput(f) IN
         /\ \A d \in DOMAIN e : d \in OutputInAnthropic
         /\ /\ Has(f, "response_format") /\ f["response_format"] = "schema"
            /\ Has(f, "response_format.schema")
            => /\ "response_format" \in DOMAIN e
               /\ e["response_format"] = f["response_format"]
               /\ "response_format.schema" \in DOMAIN e
               /\ e["response_format.schema"] = f["response_format.schema"]
               /\ "response_format.strict" \in DOMAIN e
               /\ e["response_format.strict"] = "strict"
         /\ "thinking_effort" \in DOMAIN f
            /\ f["thinking_effort"] \in AnthropicEfforts =>
               "thinking_effort" \in DOMAIN e
               /\ e["thinking_effort"] = f["thinking_effort"]
  <1> DEFINE e == EncodeAnthropicOutput(f)
             schema == Get(f, "response_format", "absent") = "schema"
                       /\ Has(f, "response_format.schema")
             strict == "response_format.strict" := "strict"
             own == Keep(f, {"response_format", "response_format.schema"})
             format == IF schema THEN strict ++ own ELSE << >>
             effort == IF Get(f, "thinking_effort", "unset") \in AnthropicEfforts
                       THEN Keep(f, {"thinking_effort"}) ELSE << >>
  <1>1. e = format ++ effort BY DEF EncodeAnthropicOutput
  <1>2. (\A d : d \in DOMAIN strict <=> d = "response_format.strict")
        /\ strict["response_format.strict"] = "strict"
    BY Single
  <1>3. /\ \A d \in DOMAIN own : d \in {"response_format", "response_format.schema"}
        /\ \A d \in DOMAIN f : d \in {"response_format", "response_format.schema"} =>
              d \in DOMAIN own /\ own[d] = f[d]
    BY Kept
  <1>4. (Has(f, "response_format") /\ f["response_format"] = "schema"
         /\ Has(f, "response_format.schema")) <=> schema
    BY DEF Get, Has
  <1> HIDE DEF strict, own, schema
  <1>5. /\ \A d \in DOMAIN format : d \in {"response_format",
                "response_format.schema", "response_format.strict"}
        /\ schema /\ Has(f, "response_format") /\ Has(f, "response_format.schema")
           => /\ "response_format" \in DOMAIN format
              /\ format["response_format"] = f["response_format"]
              /\ "response_format.schema" \in DOMAIN format
              /\ format["response_format.schema"] = f["response_format.schema"]
              /\ "response_format.strict" \in DOMAIN format
              /\ format["response_format.strict"] = "strict"
    <2> DEFINE both == strict ++ own
    <2>1. /\ \A d \in DOMAIN both : d \in {"response_format",
                "response_format.schema", "response_format.strict"}
          /\ Has(f, "response_format") /\ Has(f, "response_format.schema")
             => /\ "response_format" \in DOMAIN both
                /\ both["response_format"] = f["response_format"]
                /\ "response_format.schema" \in DOMAIN both
                /\ both["response_format.schema"] = f["response_format.schema"]
                /\ "response_format.strict" \in DOMAIN both
                /\ both["response_format.strict"] = "strict"
      BY <1>2, <1>3, Merged DEF Has
    <2> HIDE DEF both
    <2>2. schema => format = both BY DEF both
    <2>3. ~schema => format = << >> OBVIOUS
    <2> HIDE DEF format
    <2> QED BY <2>1, <2>2, <2>3, Empty
  <1>6. /\ \A d \in DOMAIN effort : d = "thinking_effort"
        /\ "thinking_effort" \in DOMAIN f /\ f["thinking_effort"] \in AnthropicEfforts
           => "thinking_effort" \in DOMAIN effort
              /\ effort["thinking_effort"] = f["thinking_effort"]
    <2> HIDE DEF AnthropicEfforts
    <2> QED BY Kept, Empty DEF Get, Has
  <1> HIDE DEF format, effort, e
  <1>7. \A d \in DOMAIN e : d \in OutputInAnthropic
    BY <1>1, <1>5, <1>6, Merged DEF OutputInAnthropic
  <1>8. \A d \in DOMAIN format : d \in DOMAIN e /\ e[d] = format[d]
    BY <1>1, Merged
  <1>9. \A d \in DOMAIN effort : d \in DOMAIN e /\ e[d] = effort[d]
    BY <1>1, <1>5, <1>6, Merged
  <1> HIDE DEF AnthropicEfforts
  <1> QED BY <1>4, <1>5, <1>6, <1>7, <1>8, <1>9 DEF e, Has

\* The parts the anthropic encoder puts its parameters together from; the
\* identity is the user's or, without one, the safety identifier.
LEMMA AnthropicParamsEncoded ==
  ASSUME NEW f, NEW tools
  PROVE  LET w == EncodeAnthropicParams(f, tools)
             think == EncodeAnthropicThinking(f, MaxTokensFor("anthropic", f))
             output == EncodeAnthropicOutput(f)
             tier == MapServiceTier("anthropic", f["service_tier"])
         IN /\ \A d \in DOMAIN f : d \in PlainInAnthropic =>
                  d \in DOMAIN w /\ w[d] = f[d]
            /\ "max_tokens" \in DOMAIN f =>
                  "max_tokens" \in DOMAIN w /\ w["max_tokens"] = f["max_tokens"]
            /\ \A d \in DOMAIN think : d \in DOMAIN w /\ w[d] = think[d]
            /\ \A d \in DOMAIN output : d \in DOMAIN w /\ w[d] = output[d]
            /\ "user_id" \in DOMAIN f =>
                  "user_id" \in DOMAIN w /\ w["user_id"] = f["user_id"]
            /\ "safety_identifier" \in DOMAIN f /\ "user_id" \notin DOMAIN f =>
                  /\ "safety_identifier" \in DOMAIN w
                  /\ w["safety_identifier"] = f["safety_identifier"]
            /\ "service_tier" \in DOMAIN f /\ tier # NoTier =>
                  "service_tier" \in DOMAIN w /\ w["service_tier"] = tier
            /\ /\ "parallel_tool_calls" \in DOMAIN f
               /\ f["parallel_tool_calls"] = "no" /\ tools # <<>>
               => /\ "parallel_tool_calls" \in DOMAIN w
                  /\ w["parallel_tool_calls"] = "no"
  <1> DEFINE w == EncodeAnthropicParams(f, tools)
             most == MaxTokensFor("anthropic", f)
             think == EncodeAnthropicThinking(f, most)
             output == EncodeAnthropicOutput(f)
             identity == EncodeAnthropicIdentity(f)
             tier == MapServiceTier("anthropic", Get(f, "service_tier", "auto"))
             service == IF Has(f, "service_tier") /\ tier # NoTier
                        THEN "service_tier" := tier ELSE << >>
             parallel == IF Get(f, "parallel_tool_calls", "yes") = "no"
                            /\ tools # <<>>
                         THEN "parallel_tool_calls" := "no" ELSE << >>
             plain == Keep(f, PlainInAnthropic)
             bound == "max_tokens" := most
             early == plain ++ bound ++ think
             Early == PlainInAnthropic \cup {"max_tokens"} \cup ThoughtInAnthropic
             own == {"user_id", "safety_identifier"}
  <1>1. w = early ++ identity ++ output ++ service ++ parallel
    BY DEF EncodeAnthropicParams, PlainInAnthropic
  <1>2. \A d \in DOMAIN think : d \in ThoughtInAnthropic
    BY AnthropicThinkingEncoded
  <1>3. \A d \in DOMAIN output : d \in OutputInAnthropic
    BY AnthropicOutputEncoded
  <1>4. /\ \A d \in DOMAIN identity : d \in own
        /\ "user_id" \in DOMAIN f =>
              "user_id" \in DOMAIN identity /\ identity["user_id"] = f["user_id"]
        /\ "safety_identifier" \in DOMAIN f /\ "user_id" \notin DOMAIN f =>
              /\ "safety_identifier" \in DOMAIN identity
              /\ identity["safety_identifier"] = f["safety_identifier"]
    BY Kept DEF EncodeAnthropicIdentity, Has
  <1>5. /\ \A d \in DOMAIN service : d = "service_tier"
        /\ "service_tier" \in DOMAIN f
           /\ MapServiceTier("anthropic", f["service_tier"]) # NoTier
           => /\ "service_tier" \in DOMAIN service
              /\ service["service_tier"] = MapServiceTier("anthropic", f["service_tier"])
    BY Single, Empty DEF Get, Has
  <1>6. /\ \A d \in DOMAIN parallel : d = "parallel_tool_calls"
        /\ "parallel_tool_calls" \in DOMAIN f
           /\ f["parallel_tool_calls"] = "no" /\ tools # <<>>
           => /\ "parallel_tool_calls" \in DOMAIN parallel
              /\ parallel["parallel_tool_calls"] = "no"
    BY Single, Empty DEF Get, Has
  <1>7. /\ \A d \in DOMAIN plain : d \in PlainInAnthropic
        /\ \A d \in DOMAIN f : d \in PlainInAnthropic =>
              d \in DOMAIN plain /\ plain[d] = f[d]
    BY Kept
  <1>8. /\ \A d : d \in DOMAIN bound <=> d = "max_tokens"
        /\ bound["max_tokens"] = most
        /\ "max_tokens" \in DOMAIN f => most = f["max_tokens"]
    BY Single DEF MaxTokensFor, Get, Has
  <1>9. /\ "max_tokens" \notin PlainInAnthropic \cup ThoughtInAnthropic
        /\ \A d \in ThoughtInAnthropic : d \notin PlainInAnthropic
    BY DEF PlainInAnthropic, ThoughtInAnthropic
  <1>10. /\ \A d \in own : d \notin Early
         /\ \A d \in OutputInAnthropic : d \notin Early /\ d \notin own
         /\ "service_tier" \notin Early /\ "service_tier" \notin own
         /\ "service_tier" \notin OutputInAnthropic
         /\ "parallel_tool_calls" \notin Early /\ "parallel_tool_calls" \notin own
         /\ "parallel_tool_calls" \notin OutputInAnthropic
    BY DEF PlainInAnthropic, ThoughtInAnthropic, OutputInAnthropic
  <1> HIDE DEF plain, bound, think, most, identity, output, service, parallel, own, w
  <1>11. /\ \A d \in DOMAIN early : d \in Early
         /\ \A d \in DOMAIN plain : d \in DOMAIN early /\ early[d] = plain[d]
         /\ \A d \in DOMAIN bound : d \in DOMAIN early /\ early[d] = bound[d]
         /\ \A d \in DOMAIN think : d \in DOMAIN early /\ early[d] = think[d]
    BY <1>2, <1>7, <1>8, <1>9, Merged
  <1> HIDE DEF early, Early
  <1>12. \A d \in DOMAIN early : d \in DOMAIN w /\ w[d] = early[d]
    BY <1>1, Merged
  <1>13. \A d \in DOMAIN identity : d \in DOMAIN w /\ w[d] = identity[d]
    BY <1>1, <1>4, <1>10, <1>11, Merged
  <1>14. \A d \in DOMAIN output : d \in DOMAIN w /\ w[d] = output[d]
    BY <1>1, <1>3, <1>4, <1>10, <1>11, Merged
  <1>15. \A d \in DOMAIN service : d \in DOMAIN w /\ w[d] = service[d]
    BY <1>1, <1>3, <1>4, <1>5, <1>10, <1>11, Merged
  <1>16. \A d \in DOMAIN parallel : d \in DOMAIN w /\ w[d] = parallel[d]
    BY <1>1, <1>3, <1>4, <1>5, <1>6, <1>10, <1>11, Merged
  <1>17. \A d \in DOMAIN f : d \in PlainInAnthropic => d \in DOMAIN w /\ w[d] = f[d]
    BY <1>7, <1>11, <1>12
  <1>18. "max_tokens" \in DOMAIN f =>
            "max_tokens" \in DOMAIN w /\ w["max_tokens"] = f["max_tokens"]
    BY <1>8, <1>11, <1>12
  <1>19. \A d \in DOMAIN think : d \in DOMAIN w /\ w[d] = think[d]
    BY <1>11, <1>12
  <1>20. "user_id" \in DOMAIN f =>
            "user_id" \in DOMAIN w /\ w["user_id"] = f["user_id"]
    BY <1>4, <1>13
  <1>21. "safety_identifier" \in DOMAIN f /\ "user_id" \notin DOMAIN f =>
            /\ "safety_identifier" \in DOMAIN w
            /\ w["safety_identifier"] = f["safety_identifier"]
    BY <1>4, <1>13
  <1> QED BY <1>5, <1>6, <1>14, <1>15, <1>16, <1>17, <1>18, <1>19, <1>20, <1>21
          DEF w, think, most, output

\* Anthropic has no capability for what its encoder does not send.
LEMMA AnthropicSwitches ==
  ASSUME NEW d \in SwitchDims, d \notin PlainInAnthropic,
         d \notin {"service_tier", "safety_identifier", "parallel_tool_calls"}
  PROVE  ~Can("anthropic", Switch[d])
  <1>1. CASE d \in SamplingDims /\ Switch[d] = SamplingSwitch[d]
    BY <1>1, SamplingValues, TargetCan
    DEF SamplingDims, PlainInAnthropic, AnthropicCaps
  <1>2. CASE d \in ServiceDims /\ Switch[d] = ServiceSwitch[d]
    BY <1>2, ServiceValues, TargetCan
    DEF ServiceDims, PlainInAnthropic, AnthropicCaps
  <1>3. CASE d \in AnswerDims /\ Switch[d] = AnswerSwitch[d]
    BY <1>3, AnswerValues, TargetCan
    DEF AnswerDims, PlainInAnthropic, AnthropicCaps
  <1> QED BY <1>1, <1>2, <1>3, SwitchValue

\* For anthropic, every member of a format is accounted for.
LEMMA AnthropicFormats ==
  ASSUME InFlight, target = "anthropic",
         NEW d \in DOMAIN req.params \cap FormatDims
  PROVE  Accounted(d)
  <1> DEFINE f == req.params
             g == Shaped.params
             w == wire.params
             e == EncodeAnthropicOutput(g)
             schema == f["response_format"] = "schema"
                       /\ Has(f, "response_format.schema")
  <1>1. \A x \in FormatDims : x \notin ThinkingDims /\ x \notin OtherShaped
    BY DEF FormatDims, ThinkingDims, OtherShaped, ShapedSampling, ShapedStops
  <1>2. /\ Has(f, "response_format")
        /\ Has(f, "response_format.schema") => f["response_format"] = "schema"
        /\ "response_format" \in FormatDims /\ "response_format.schema" \in FormatDims
        /\ "response_format.strict" \in FormatDims
    BY DEF InFlight, Understood, FormatFacts, FormatDims, Has
  <1>3. \A x \in FormatDims : (x \in DOMAIN f <=> x \in DOMAIN g)
                              /\ (x \in DOMAIN f => g[x] = f[x])
    BY <1>1, ShapedParams DEF SameBut
  <1>4. w = EncodeAnthropicParams(g, Shaped.tools)
    BY DEF InFlight, Encoded, EncodeAnthropic, Shaped
  <1>5. \A x \in DOMAIN e : x \in DOMAIN w /\ w[x] = e[x]
    BY <1>4, AnthropicParamsEncoded
  <1>6. schema => /\ FormatKept("response_format")
                  /\ FormatKept("response_format.schema")
                  /\ "response_format.strict" \in DOMAIN w
                  /\ w["response_format.strict"] = "strict"
    <2>1. schema =>
            /\ "response_format" \in DOMAIN e
            /\ e["response_format"] = g["response_format"]
            /\ "response_format.schema" \in DOMAIN e
            /\ e["response_format.schema"] = g["response_format.schema"]
            /\ "response_format.strict" \in DOMAIN e
            /\ e["response_format.strict"] = "strict"
      BY <1>2, <1>3, AnthropicOutputEncoded DEF Has
    <2> HIDE DEF e, g, w
    <2> QED BY <1>2, <1>3, <1>5, <2>1 DEF FormatKept, Has, w
  <1>7. Can(target, "ResponseSchema") /\ ~Can(target, "ResponseFormat")
        /\ target \notin OpenAI
    BY TargetCan DEF AnthropicCaps, OpenAI
  <1> HIDE DEF g, e
  <1> QED BY <1>2, <1>6, <1>7, FormatsAccounted

\* For anthropic, thinking and its settings are accounted for.
LEMMA AnthropicThoughts ==
  ASSUME InFlight, target = "anthropic",
         NEW d \in DOMAIN req.params \cap ThinkingDims
  PROVE  Accounted(d)
  <1> DEFINE f == req.params
             g == Shaped.params
             w == wire.params
             e == EncodeAnthropicThinking(g, MaxTokensFor("anthropic", g))
             passed == {"adaptive_thinking", "thinking_display_preference"}
  <1>1. w = EncodeAnthropicParams(g, Shaped.tools)
    BY DEF InFlight, Encoded, EncodeAnthropic, Shaped
  <1>2. \A x \in DOMAIN e : x \in DOMAIN w /\ w[x] = e[x]
    BY <1>1, AnthropicParamsEncoded
  <1>3. /\ ThinkingOff(g) => "thinking" \in DOMAIN w /\ w["thinking"] = "off"
        /\ ThinkingOn(g) =>
              /\ "thinking" \in DOMAIN w /\ w["thinking"] = "on"
              /\ \A x \in DOMAIN g : x \in passed => x \in DOMAIN w /\ w[x] = g[x]
              /\ Has(g, "thinking_budget") /\ g["thinking_budget"] > 0
                 /\ ~Has(g, "adaptive_thinking") =>
                    "thinking_budget" \in DOMAIN w
                    /\ w["thinking_budget"] = g["thinking_budget"]
    <2> HIDE DEF g, w
    <2>1. /\ ThinkingOff(g) => "thinking" \in DOMAIN e /\ e["thinking"] = "off"
          /\ ThinkingOn(g) =>
                /\ "thinking" \in DOMAIN e /\ e["thinking"] = "on"
                /\ \A x \in DOMAIN g : x \in passed => x \in DOMAIN e /\ e[x] = g[x]
                /\ Has(g, "thinking_budget") /\ g["thinking_budget"] > 0
                   /\ ~Has(g, "adaptive_thinking") =>
                      "thinking_budget" \in DOMAIN e
                      /\ e["thinking_budget"] = g["thinking_budget"]
      BY AnthropicThinkingEncoded
    <2> HIDE DEF e, passed
    <2> QED BY <1>2, <2>1
  <1>4. CASE d = "thinking" BY <1>3, <1>4, ThinkingAccounted
  <1>5. CASE d \in {"reasoning_summary_preference", "reasoning_context_scope",
                    "reasoning_mode"}
    BY <1>5, ForeignThoughtAccounted
  <1>6. CASE d \in passed
    <2>1. d # "thinking" /\ d # "thinking_budget" BY <1>6
    <2>2. SUFFICES ASSUME /\ ThinkingOn(g)
                          /\ d \in DOMAIN g /\ g[d] = f[d]
                   PROVE  Accounted(d)
      BY <1>3, <2>1, ThinkingAccounted
    <2>3. d \in DOMAIN w /\ w[d] = f[d] BY <1>3, <1>6, <2>2
    <2> QED BY <2>3 DEF Accounted, Reaches, Has
  <1>7. CASE d = "thinking_effort"
    <2>1. (d \in DOMAIN g /\ g[d] = f[d]) \/ Dropped("thinking") \in notes
      BY <1>7, ShapedParams
      DEF ThoughtAs, SameBut, OtherShaped, ShapedBudget, ShapedSampling, ShapedStops
    <2>2. CASE f[d] \in AnthropicEfforts /\ Dropped("thinking") \notin notes
      <3>1. \A x \in DOMAIN EncodeAnthropicOutput(g) :
               x \in DOMAIN w /\ w[x] = EncodeAnthropicOutput(g)[x]
        BY <1>1, AnthropicParamsEncoded
      <3>2. /\ d \in DOMAIN EncodeAnthropicOutput(g)
            /\ EncodeAnthropicOutput(g)[d] = f[d]
        BY <1>7, <2>1, <2>2, AnthropicOutputEncoded
      <3> QED BY <3>1, <3>2 DEF Accounted, Reaches, Has
    <2>3. CASE f[d] = "none" BY <1>7, <2>3 DEF Accounted, AsksNothing
    <2>4. CASE f[d] \notin AnthropicEfforts \cup {"none"}
      <3>1. Dropped(d) \in ThinkingNotes(target, req)
        BY <1>7, <2>4 DEF ThinkingNotes, When, Get, Has, AnthropicEfforts
      <3>2. Dropped(d) \in notes BY <3>1, NotesIncluded
      <3>3. d \in SpokenFor(d) BY DEF SpokenFor
      <3> QED BY <3>2, <3>3, NotedBy DEF Accounted
    <2>5. CASE Dropped("thinking") \in notes
      <3>1. "thinking" \in SpokenFor(d) BY DEF SpokenFor
      <3> QED BY <2>5, <3>1, NotedBy DEF Accounted
    <2> QED BY <2>2, <2>3, <2>4, <2>5
  <1>8. CASE d = "thinking_budget"
    <2>1. CASE Has(f, "adaptive_thinking")
      BY <1>8, <2>1 DEF Accounted, AsksNothing
    <2>2. CASE ~Has(f, "adaptive_thinking")
      <3>1. SUFFICES ASSUME /\ ThinkingOn(f) /\ ThinkingOn(g)
                            /\ ~Has(g, "adaptive_thinking")
                            /\ \/ Rewrote("thinking.budget_tokens") \in notes
                               \/ "thinking_budget" \in DOMAIN f =>
                                     /\ "thinking_budget" \in DOMAIN g
                                     /\ g["thinking_budget"] = f["thinking_budget"]
                     PROVE  Accounted(d)
        <4>1. "adaptive_thinking" \in ThinkingDims \ {"thinking_budget"}
          BY DEF ThinkingDims
        <4> HIDE DEF g, w
        <4> QED BY <1>3, <1>8, <2>2, <4>1, ThinkingAccounted DEF Has, g, w
      <3>2. "thinking_budget" \in DOMAIN f => f["thinking_budget"] \in Nat \ {0}
        BY DEF InFlight, Understood, GivenIn
      <3>3. \/ Rewrote("thinking.budget_tokens") \in notes
            \/ "thinking_budget" \in DOMAIN f =>
                  /\ "thinking_budget" \in DOMAIN w
                  /\ w["thinking_budget"] = f["thinking_budget"]
        <4> HIDE DEF f, g, w
        <4> QED BY <1>3, <3>1, <3>2 DEF Has
      <3> QED BY <1>8, <3>1, <3>3, BudgetDepth
    <2> QED BY <2>1, <2>2
  <1> QED BY <1>4, <1>5, <1>6, <1>7, <1>8 DEF ThinkingDims

\* Every dimension sent to an anthropic upstream is accounted for.
LEMMA AnthropicAccounted ==
  ASSUME InFlight, target = "anthropic", NEW d \in DOMAIN req.params
  PROVE  Accounted(d)
  <1> DEFINE f == req.params
             g == Shaped.params
             w == wire.params
  <1>1. w = EncodeAnthropicParams(g, Shaped.tools)
    BY DEF InFlight, Encoded, EncodeAnthropic, Shaped
  <1>2. \A e \in DOMAIN f : e \notin ThinkingDims /\ e \notin OtherShaped =>
                               e \in DOMAIN g /\ g[e] = f[e]
    BY ShapedParams DEF SameBut
  <1>3. CASE d \in PlainInAnthropic
    <2>1. d \notin ThinkingDims BY <1>3 DEF PlainInAnthropic, ThinkingDims
    <2>2. d \in DOMAIN g => d \in DOMAIN w /\ w[d] = g[d]
      BY <1>1, <1>3, AnthropicParamsEncoded
    <2> QED BY <2>1, <2>2, PlainAccounted
  <1>4. CASE d \in {"max_tokens", "user_id"}
    <2>1. d \notin ThinkingDims BY <1>4 DEF ThinkingDims
    <2>2. d \in DOMAIN g => d \in DOMAIN w /\ w[d] = g[d]
      BY <1>1, <1>4, AnthropicParamsEncoded
    <2> QED BY <2>1, <2>2, PlainAccounted
  <1>5. CASE d = "service_tier"
    <2>1. d \in DOMAIN g /\ g[d] = f[d]
      BY <1>2, <1>5 DEF ThinkingDims, OtherShaped, ShapedSampling, ShapedStops
    <2>2. LET tier == MapServiceTier(target, f["service_tier"]) IN
          tier # NoTier => "service_tier" \in DOMAIN w /\ w["service_tier"] = tier
      BY <1>1, <1>5, <2>1, AnthropicParamsEncoded
    <2>3. Can(target, "ServiceTier") BY TargetCan DEF AnthropicCaps
    <2> QED BY <1>5, <2>2, <2>3, TierAccounted
  <1>6. CASE d = "safety_identifier"
    <2>1. d \in DOMAIN g /\ g[d] = f[d]
      BY <1>2, <1>6 DEF ThinkingDims, OtherShaped, ShapedSampling, ShapedStops
    <2>2. "user_id" \in DOMAIN g <=> "user_id" \in DOMAIN f
      BY ShapedParams
      DEF SameBut, ThinkingDims, OtherShaped, ShapedSampling, ShapedStops
    <2>3. CASE "user_id" \in DOMAIN f
      <3>1. Dropped(d) \in IdentityNotes(target, f)
        BY <1>6, <2>3 DEF IdentityNotes, When
      <3>2. Dropped(d) \in notes BY <3>1, NotesIncluded DEF ParamNotes
      <3>3. d \in SpokenFor(d) BY DEF SpokenFor
      <3> QED BY <3>2, <3>3, NotedBy DEF Accounted
    <2>4. CASE "user_id" \notin DOMAIN f
      <3>1. d \in DOMAIN w /\ w[d] = f[d]
        BY <1>1, <1>6, <2>1, <2>2, <2>4, AnthropicParamsEncoded
      <3> QED BY <3>1 DEF Accounted, Reaches, Has
    <2> QED BY <2>3, <2>4
  <1>7. CASE d = "parallel_tool_calls"
    <2>1. d \in DOMAIN g /\ g[d] = f[d]
      BY <1>2, <1>7 DEF ThinkingDims, OtherShaped, ShapedSampling, ShapedStops
    <2>2. f[d] \in {"yes", "no"}
      BY <1>7 DEF InFlight, Understood, GivenIn
    <2>3. CASE f[d] = "yes" \/ req.tools = <<>>
      BY <1>7, <2>3 DEF Accounted, AsksNothing
    <2>4. CASE f[d] = "no" /\ req.tools # <<>>
      <3>1. Can(target, "ServerTools") BY TargetCan DEF AnthropicCaps
      <3>2. \E i \in DOMAIN Shaped.tools : TRUE BY <2>4, <3>1, ShapedTools
      <3>3. Shaped.tools # <<>> BY <3>2
      <3>4. d \in DOMAIN w /\ w[d] = f[d]
        BY <1>1, <1>7, <2>1, <2>4, <3>3, AnthropicParamsEncoded
      <3> QED BY <3>4 DEF Accounted, Reaches, Has
    <2> QED BY <2>2, <2>3, <2>4
  <1>8. CASE /\ d \in SwitchDims /\ d \notin PlainInAnthropic
             /\ d \notin {"service_tier", "safety_identifier",
                          "parallel_tool_calls"}
    BY <1>8, AnthropicSwitches, SwitchedAccounted
  <1>9. CASE d \in OnlyInDims /\ d \notin PlainInAnthropic
    <2>1. OnlyIn[d] # "anthropic"
      BY <1>9, OnlyInValues DEF OnlyInDims, PlainInAnthropic
    <2> QED BY <1>9, <2>1, OnlyInAccounted
  <1>10. CASE d \in FormatDims BY <1>10, AnthropicFormats
  <1>11. CASE d \in ThinkingDims BY <1>11, AnthropicThoughts
  <1>12. CASE d \in {"modalities", "audio"} BY <1>12, AudioAccounted
  <1>13. CASE d = "logprobs" BY <1>13, LogprobsAccounted
  <1>14. CASE d \in {"background", "store"} BY <1>14, StatesAccounted
  <1>15. d \in Dims BY DEF InFlight, Understood
  <1>16. d \in OtherDims =>
           d \in PlainInAnthropic \cup {"max_tokens", "user_id", "modalities",
                                        "audio", "logprobs", "background", "store"}
    BY DEF OtherDims, PlainInAnthropic
  <1> QED BY <1>3, <1>4, <1>5, <1>6, <1>7, <1>8, <1>9, <1>10, <1>11, <1>12, <1>13,
             <1>14, <1>15, <1>16
          DEF Dims

-----------------------------------------------------------------------------
(* Every parameter is accounted for.                                       *)

\* Every dimension of a request in flight is accounted for, target by
\* target.
LEMMA InFlightAccounted ==
  ASSUME InFlight
  PROVE  ParamsAccounted
  <1>1. \A d \in DOMAIN req.params : Accounted(d)
    BY AnthropicAccounted, ChatAccounted, ResponsesAccounted, GeminiAccounted
    DEF InFlight, Protocols
  <1> QED BY <1>1 DEF ParamsAccounted, Accounted

\* A request that was sent is in flight.
LEMMA WayInFlight ==
  ASSUME InvWay, stage = "sent"
  PROVE  InFlight
  <1>1. Known(req) BY WayKnown
  <1> QED BY <1>1 DEF InvWay, InFlight, Known

\* In every reachable state, for every body, every dimension the client
\* gave reaches the upstream, or asks for nothing, or is named by a note
\* (lossy.go:45-52).
THEOREM NoParameterIsLost == Spec => []ParamsAccounted
  <1>1. InvWay => ParamsAccounted
    <2>1. CASE stage = "sent" BY <2>1, WayInFlight, InFlightAccounted
    <2>2. CASE stage # "sent" BY <2>2 DEF ParamsAccounted, Sending
    <2> QED BY <2>1, <2>2
  <1> QED BY <1>1, WayInvariance, PTL

-----------------------------------------------------------------------------
(* Every tool is accounted for.                                            *)

\* The fields of a declaration a target has a place for.
ToolFields(p) ==
    CASE p = "anthropic" ->
            {"name", "server", "schema", "strict", "modifiers", "cache"}
      [] p \in OpenAI -> {"name", "schema", "strict"}
      [] OTHER -> {"name", "schema"}

\* What these are, target by target.
LEMMA FieldsOfTools ==
  /\ "name" \in ToolFields(target) /\ "schema" \in ToolFields(target)
  /\ target = "anthropic" =>
        {"server", "strict", "modifiers", "cache"} \subseteq ToolFields(target)
  /\ target \in OpenAI => "strict" \in ToolFields(target)
  <1>1. CASE target = "anthropic" BY <1>1 DEF ToolFields, OpenAI
  <1>2. CASE target \in OpenAI BY <1>2 DEF ToolFields, OpenAI
  <1>3. CASE target \notin OpenAI \cup {"anthropic"} BY <1>3 DEF ToolFields
  <1> QED BY <1>1, <1>2, <1>3

\* Every encoder sends the declarations in order, cut to these fields.
LEMMA ToolsEncoded ==
  ASSUME InFlight
  PROVE  /\ DOMAIN wire.tools = DOMAIN Shaped.tools
         /\ \A i \in DOMAIN Shaped.tools :
               wire.tools[i] = Keep(Shaped.tools[i], ToolFields(target))
  <1> DEFINE s == Shaped.tools
             kept(fields) == [i \in DOMAIN s |-> Keep(s[i], fields)]
  <1>1. wire.tools = kept(ToolFields(target))
    <2>1. wire = Encoded(target, Shaped) BY DEF InFlight, Shaped
    <2>2. CASE target = "anthropic"
      <3>1. wire.tools = EncodeAnthropicTools(s)
        BY <2>1, <2>2 DEF Encoded, EncodeAnthropic
      <3>2. ToolFields(target) = {"name", "server", "schema", "strict", "modifiers",
                                  "cache"}
        BY <2>2 DEF ToolFields, OpenAI
      <3> QED BY <3>1, <3>2 DEF EncodeAnthropicTools
    <2>3. CASE target = "chat"
      <3>1. wire.tools = kept({"name", "schema", "strict"})
        BY <2>1, <2>3 DEF Encoded, EncodeChat
      <3> QED BY <2>3, <3>1 DEF ToolFields, OpenAI
    <2>4. CASE target = "responses"
      <3>1. wire.tools = kept({"name", "schema", "strict"})
        BY <2>1, <2>4 DEF Encoded, EncodeResponses
      <3> QED BY <2>4, <3>1 DEF ToolFields, OpenAI
    <2>5. CASE target = "gemini"
      <3>1. wire.tools = kept({"name", "schema"})
        BY <2>1, <2>5 DEF Encoded, EncodeGemini
      <3> QED BY <2>5, <3>1 DEF ToolFields, OpenAI
    <2> QED BY <2>2, <2>3, <2>4, <2>5 DEF InFlight, Protocols
  <1> QED BY <1>1

\* The note for each mark of a declaration.
LEMMA MarkValues ==
  /\ \A m : m \in DOMAIN ToolMarks <=> m \in {"strict", "modifiers", "cache"}
  /\ ToolMarks["strict"] = "strict_flag"
  /\ ToolMarks["modifiers"] = "tool_modifiers"
  /\ ToolMarks["cache"] = "tool_cache_breakpoints"
  BY Merged, Single DEF ToolMarks

\* A mark the target has no place for is in a note.
LEMMA MarkNoted ==
  ASSUME InFlight, NEW k \in DOMAIN req.tools
  PROVE  LET t == req.tools[k] IN
         /\ Has(t, "strict") /\ target = "gemini" => Noted({"strict_flag"})
         /\ Has(t, "modifiers") /\ target # "anthropic" => Noted({"tool_modifiers"})
         /\ Has(t, "cache") /\ target # "anthropic" =>
               Noted({"tool_cache_breakpoints"})
  <1> DEFINE t == req.tools[k]
  <1>1. t \in ToolSet(req) BY DEF ToolSet, ToSet
  <1>2. ~Can("gemini", "ToolStrict") BY TargetCan DEF GeminiCaps
  <1>3. target # "anthropic" => ~Can(target, "CacheControl")
    BY TargetCan DEF ChatCaps, ResponsesCaps, GeminiCaps, InFlight, Protocols
  <1> HIDE DEF t
  <1>4. Has(t, "strict") /\ target = "gemini" =>
           Dropped("strict_flag") \in ToolNotes(target, req)
    BY <1>1, <1>2 DEF ToolNotes, When
  <1>5. Has(t, "modifiers") /\ target # "anthropic" =>
           Dropped("tool_modifiers") \in ToolNotes(target, req)
    BY <1>1 DEF ToolNotes, When
  <1>6. Has(t, "cache") /\ target # "anthropic" =>
           Dropped("tool_cache_breakpoints") \in ToolNotes(target, req)
    BY <1>1, <1>3 DEF ToolNotes, When
  <1> QED BY <1>4, <1>5, <1>6, NotesIncluded, NotedBy DEF t

\* Every declaration of a request in flight is accounted for.
LEMMA EveryToolAccounted ==
  ASSUME InFlight, NEW k \in DOMAIN req.tools
  PROVE  ToolAccounted(req.tools[k])
  <1> DEFINE t == req.tools[k]
             s == Shaped.tools
  <1>1. CASE Has(t, "server") /\ ServerToolNote(t) \in notes
    BY <1>1 DEF ToolAccounted
  <1>2. CASE AllowlistApplies(req.choice) /\ ~Listed(t, req.choice.allowed)
    BY <1>2 DEF ToolAccounted, Listed
  <1>3. CASE \E i \in DOMAIN s : Carried(t, s[i], notes)
    <2>1. PICK i \in DOMAIN s : Carried(t, s[i], notes) BY <1>3
    <2> DEFINE u == s[i]
               v == wire.tools[i]
    <2>2. i \in DOMAIN wire.tools /\ v = Keep(u, ToolFields(target))
      BY ToolsEncoded
    <2>3. \A x \in ToolFields(target) : /\ Has(v, x) <=> Has(u, x)
                                        /\ Has(u, x) => v[x] = u[x]
      BY <2>2, Kept DEF Has
    <2>4. Has(t, "name") BY DEF InFlight, Declared, WellFormedTool
    <2> HIDE DEF t, s, u, v
    <2>5. v.name = t.name
      <3>1. Has(u, "name") /\ u.name = t.name
        BY <2>1, <2>4 DEF Carried, SameBut, Has, u
      <3> QED BY <2>3, <3>1, FieldsOfTools
    <2>6. Get(v, "schema", "absent") = Schema(u)
      BY <2>3, FieldsOfTools DEF Get, Schema
    <2>7. \/ Get(v, "schema", "absent") = Get(t, "schema", "absent")
          \/ Get(t, "schema", "absent") = "absent"
          \/ Noted({"tool_schema"})
      <3>1. (\E n \in notes : SaysSchema(n)) => Noted({"tool_schema"})
        BY DEF SaysSchema, Noted
      <3> QED BY <2>1, <2>6, <3>1 DEF Carried, Schema, u
    <2>8. ASSUME NEW mark \in {"strict", "modifiers", "cache"}, Has(t, mark)
          PROVE  \/ Has(v, mark) \/ Noted({ToolMarks[mark]})
                 \/ mark = "cache" /\ Noted({"cache_control"})
      <3>1. mark # "cache" => Has(u, mark)
        BY <2>1, <2>8 DEF Carried, SameBut, Has, u
      <3>2. mark = "cache" => Has(u, mark) \/ Noted({"cache_control"})
        <4>1. Dropped("cache_control") \in notes => Noted({"cache_control"})
          BY NotedBy
        <4> QED BY <2>1, <2>8, <4>1 DEF Carried, SameBut, Has, u
      <3>3. CASE mark \in ToolFields(target) BY <2>3, <3>1, <3>2, <3>3
      <3>4. CASE mark \notin ToolFields(target)
        <4>1. target # "anthropic" /\ (mark = "strict" => target = "gemini")
          BY <3>4, FieldsOfTools DEF InFlight, Protocols, OpenAI
        <4>2. Noted({ToolMarks[mark]})
          BY <2>8, <4>1, MarkNoted, MarkValues DEF t
        <4> QED BY <4>2
      <3> QED BY <3>3, <3>4
    <2>9. \A mark \in DOMAIN ToolMarks \cap DOMAIN t :
             Has(v, mark) \/ Noted({ToolMarks[mark]})
             \/ (mark = "cache" /\ Noted({"cache_control"}))
      BY <2>8, MarkValues DEF Has
    <2> QED BY <2>2, <2>5, <2>7, <2>9 DEF ToolAccounted, v, t
  <1> QED BY <1>1, <1>2, <1>3, ShapedTools

\* The plain form of a choice keeps mode and name.
LEMMA PlainChoice ==
  ASSUME NEW c, ChoiceKnown(c), c.mode \in {"auto", "any", "none", "tool"}
  PROVE  LET e == Keep(c, {"mode", "name"}) IN
         e.mode = c.mode /\ (c.mode = "tool" => e.name = c.name)
  <1>1. Has(c, "mode") BY DEF ChoiceKnown, NoChoice, Has
  <1>2. c.mode = "tool" => Has(c, "name") BY DEF ChoiceKnown, NoChoice
  <1> QED BY <1>1, <1>2, Kept DEF Has

\* The chat and responses encoders send mode and name, or the client's own
\* words, in which the tool may have the name it had before the repair.
LEMMA OpenAIChoice ==
  ASSUME NEW p \in OpenAI, NEW c, ChoiceKnown(c), c # NoChoice
  PROVE  LET e == EncodeOpenAIChoice(p, c) IN
         \/ /\ e.mode = c.mode
            /\ c.mode = "tool" => \/ e.name = c.name
                                  \/ Has(c, "rawName") /\ c.rawName # c.name
         \/ c.mode = "typed" /\ p # "responses"
  <1> DEFINE e == EncodeOpenAIChoice(p, c)
             own == Get(c, "raw", "none") = p
  <1>1. own <=> Has(c, "raw") /\ c.raw = p BY DEF Get, OpenAI
  <1>2. /\ Has(c, "mode")
        /\ c.mode \in {"auto", "any", "none", "tool", "typed"}
    BY DEF ChoiceKnown
  <1>3. CASE own /\ Has(c, "rawName")
    <2>1. e = [mode |-> "tool", name |-> c.rawName]
      BY <1>3 DEF EncodeOpenAIChoice
    <2>2. c.mode = "tool" BY <1>1, <1>3 DEF ChoiceKnown
    <2> QED BY <1>3, <2>1, <2>2
  <1>4. CASE own /\ ~Has(c, "rawName")
    <2>1. e = Keep(c, {"mode"}) BY <1>4 DEF EncodeOpenAIChoice
    <2>2. c.mode = "typed" BY <1>1, <1>4 DEF ChoiceKnown
    <2>3. e.mode = c.mode BY <1>2, <2>1, Kept DEF Has
    <2> QED BY <2>2, <2>3
  <1>5. CASE ~own /\ c.mode # "typed"
    <2>1. c.mode \in {"auto", "any", "none", "tool"} BY <1>2, <1>5
    <2>2. e = Keep(c, {"mode", "name"}) BY <1>5, <2>1 DEF EncodeOpenAIChoice
    <2> QED BY <2>1, <2>2, PlainChoice
  <1>6. CASE ~own /\ c.mode = "typed"
    BY <1>1, <1>6 DEF ChoiceKnown, NoChoice
  <1> QED BY <1>3, <1>4, <1>5, <1>6

\* The choice of a request in flight is accounted for.
LEMMA ChoiceIsAccounted ==
  ASSUME InFlight
  PROVE  ChoiceAccounted
  <1> DEFINE c == req.choice
  <1>1. "tool_choice" \in {"tool_choice"} OBVIOUS
  <1>2. CASE Dropped("tool_choice") \in notes \/ Rewrote("tool_choice") \in notes
    BY <1>1, <1>2, NotedBy DEF ChoiceAccounted
  <1>3. CASE c = NoChoice BY <1>3 DEF ChoiceAccounted
  <1>4. CASE c.mode = "typed" /\ target # "responses"
    <2>1. Dropped("tool_choice") \in ChoiceNotes(target, req)
      BY <1>4 DEF ChoiceNotes, When
    <2> QED BY <1>2, <2>1, NotesIncluded
  <1>5. CASE Shaped.choice = c /\ c # NoChoice
             /\ ~(c.mode = "typed" /\ target # "responses")
    <2>1. ChoiceKnown(c) BY DEF InFlight
    <2>2. wire = Encoded(target, Shaped) BY DEF InFlight, Shaped
    <2>3. CASE target \in OpenAI
      <3>1. wire.choice = EncodeOpenAIChoice(target, Shaped.choice)
        BY <2>2, <2>3 DEF Encoded, EncodeChat, EncodeResponses, OpenAI
      <3> HIDE DEF c
      <3>2. \/ /\ wire.choice.mode = c.mode
               /\ c.mode = "tool" => \/ wire.choice.name = c.name
                                     \/ Has(c, "rawName") /\ c.rawName # c.name
            \/ c.mode = "typed" /\ target # "responses"
        BY <1>5, <2>1, <2>3, <3>1, OpenAIChoice
      <3> QED BY <1>5, <3>2 DEF ChoiceAccounted, NamesAsGiven, c
    <2>4. CASE target \in {"anthropic", "gemini"}
      <3>1. c.mode \in {"auto", "any", "none", "tool"}
        BY <1>5, <2>1, <2>4 DEF ChoiceKnown
      <3>2. CASE target = "anthropic"
        <4>1. wire.choice = EncodeAnthropicChoice(Shaped.choice)
          BY <2>2, <3>2 DEF Encoded, EncodeAnthropic
        <4>2. wire.choice = Keep(c, {"mode", "name"})
          BY <1>5, <3>1, <4>1 DEF EncodeAnthropicChoice
        <4> QED BY <2>1, <3>1, <4>2, PlainChoice DEF ChoiceAccounted
      <3>3. CASE target = "gemini"
        <4>1. wire.choice = EncodeGeminiChoice(Shaped.choice)
          BY <2>2, <3>3 DEF Encoded, EncodeGemini
        <4>2. wire.choice = Keep(c, {"mode", "name"})
          BY <1>5, <3>1, <4>1 DEF EncodeGeminiChoice
        <4> QED BY <2>1, <3>1, <4>2, PlainChoice DEF ChoiceAccounted
      <3> QED BY <2>4, <3>2, <3>3
    <2> QED BY <2>3, <2>4 DEF InFlight, Protocols, OpenAI
  <1> QED BY <1>2, <1>3, <1>4, <1>5, ShapedTools

\* A list of allowed tools holds or is said not to.
LEMMA ListIsAccounted ==
  ASSUME InFlight
  PROVE  AllowlistHolds
  <1> DEFINE s == Shaped.tools
             allowed == req.choice.allowed
  <1>1. CASE ~AllowlistApplies(req.choice) BY <1>1 DEF AllowlistHolds
  <1>2. CASE Unenforced \in notes
    <2>1. Unenforced[1] # "filled" /\ Unenforced[2] = "tool_choice.allowed_tools"
      BY DEF Unenforced
    <2> QED BY <1>2, <2>1 DEF AllowlistHolds, Noted
  <1>3. CASE \A i \in DOMAIN s : Listed(s[i], allowed)
    <2> SUFFICES ASSUME NEW i \in DOMAIN wire.tools
                 PROVE  \/ Has(wire.tools[i], "server")
                        \/ wire.tools[i].name \in allowed
      BY DEF AllowlistHolds
    <2>1. i \in DOMAIN s /\ wire.tools[i] = Keep(s[i], ToolFields(target))
      BY ToolsEncoded
    <2>2. Has(s[i], "name") /\ (Has(s[i], "server") => Can(target, "ServerTools"))
      BY <2>1, ShapedTools
    <2>3. Can(target, "ServerTools") => target = "anthropic"
      BY TargetCan DEF InFlight, Protocols, ChatCaps, ResponsesCaps, GeminiCaps
    <2>4. CASE Has(s[i], "server")
      <3>1. "server" \in ToolFields(target) BY <2>2, <2>3, <2>4, FieldsOfTools
      <3> QED BY <2>1, <2>4, <3>1, Kept DEF Has
    <2>5. CASE s[i].name \in allowed
      <3>1. wire.tools[i].name = s[i].name
        BY <2>1, <2>2, FieldsOfTools, Kept DEF Has
      <3> QED BY <2>5, <3>1
    <2> QED BY <1>3, <2>1, <2>4, <2>5 DEF Listed
  <1> QED BY <1>1, <1>2, <1>3, ShapedTools

\* In every reachable state, for every body, every declaration with its
\* marks, the choice and the list of allowed tools reach the upstream or
\* are accounted for (shape.go:175-216, encode_request.go of the codecs).
THEOREM NoToolIsLost == Spec => []ToolsAccounted
  <1>1. InvWay => ToolsAccounted
    <2>1. CASE stage = "sent"
      BY <2>1, WayInFlight, EveryToolAccounted, ChoiceIsAccounted, ListIsAccounted
      DEF ToolsAccounted
    <2>2. CASE stage # "sent" BY <2>2 DEF ToolsAccounted, Sending
    <2> QED BY <2>1, <2>2
  <1> QED BY <1>1, WayInvariance, PTL

-----------------------------------------------------------------------------
(* Settings an upstream is known to refuse are not sent.                   *)

\* The limits of the protocols the settings must keep.
LEMMA Limits ==
  /\ Can("anthropic", "RequiresMaxTokens") /\ Can("anthropic", "Thinking")
  /\ Can("anthropic", "ThinkingExcludesSampling")
  /\ Can("anthropic", "ThinkingExcludesForcedTools")
  /\ Caps("anthropic").DefaultMaxTokens = 4096
  /\ Caps("anthropic").MinThinkingBudget = 1024
  /\ Caps("anthropic").MaxTemperature = 10
  /\ Caps("chat").MaxStopSequences = 4
  /\ Caps("gemini").MaxStopSequences = 5
  BY DEF Can, Caps, AnthropicCaps, ChatCaps, GeminiCaps

\* An anthropic body always has a bound on its tokens, which shaping keeps.
LEMMA BoundKnown ==
  ASSUME NEW f, Understood(f)
  PROVE  /\ MaxTokensFor("anthropic", f) \in Nat \ {0}
         /\ \A g : SameBut(f, g, ThinkingDims \cup OtherShaped) =>
               MaxTokensFor("anthropic", g) = MaxTokensFor("anthropic", f)
  <1>1. Has(f, "max_tokens") => f["max_tokens"] \in Nat \ {0}
    BY DEF Understood, GivenIn, Has
  <1>2. \A g : MaxTokensFor("anthropic", g) = Get(g, "max_tokens", 4096)
    BY Limits DEF MaxTokensFor
  <1>3. "max_tokens" \notin ThinkingDims \cup OtherShaped
    BY DEF ThinkingDims, OtherShaped, ShapedSampling, ShapedStops
  <1> QED BY <1>1, <1>2, <1>3 DEF Get, Has, SameBut

\* A budget of thinking that is on lies below the bound after clamping: it
\* is the client's own, or the most there is room for.
LEMMA BudgetBelowBound ==
  ASSUME NEW f, Understood(f)
  PROVE  LET g == ClampBudget("anthropic", f).value
             most == MaxTokensFor("anthropic", f)
         IN ThinkingOn(g) /\ Has(g, "thinking_budget") =>
               /\ g["thinking_budget"] \in Nat /\ g["thinking_budget"] < most
               /\ \/ g["thinking_budget"] = most - 1
                  \/ Has(f, "thinking_budget")
                     /\ g["thinking_budget"] = f["thinking_budget"]
                     /\ g["thinking_budget"] > 0
  <1> DEFINE g == ClampBudget("anthropic", f).value
             most == MaxTokensFor("anthropic", f)
  <1>1. most \in Nat \ {0} BY BoundKnown
  <1>2. Has(f, "thinking_budget") => f["thinking_budget"] \in Nat \ {0}
    BY DEF Understood, GivenIn, Has
  <1> DEFINE over == ThinkingOn(f) /\ most > 0 /\ Get(f, "thinking_budget", 0) >= most
  <1>3. g = IF over THEN [f EXCEPT !["thinking_budget"] = most - 1] ELSE f
    BY Limits DEF ClampBudget
  <1>4. ThinkingOn(g) => ThinkingOn(f) BY <1>3 DEF ThinkingOn, Get, Has
  <1> HIDE DEF most, g
  <1>5. CASE over
    <2>1. Has(f, "thinking_budget") BY <1>1, <1>5 DEF Get
    <2>2. g["thinking_budget"] = most - 1 BY <1>3, <1>5, <2>1 DEF Has
    <2> QED BY <1>1, <2>2 DEF g, most
  <1>6. CASE ~over
    <2>1. g = f BY <1>3, <1>6
    <2>2. ThinkingOn(g) /\ Has(g, "thinking_budget") =>
             f["thinking_budget"] < most
      BY <1>1, <1>2, <1>6, <2>1 DEF Get
    <2> QED BY <1>2, <2>1, <2>2 DEF g, most
  <1> QED BY <1>5, <1>6 DEF g, most

\* Thinking that stays has room for the least budget, and the model is free
\* to call no tool.
LEMMA ThinkingStays ==
  ASSUME NEW f, NEW choice
  PROVE  LET g == DropThinking("anthropic", f, choice).value
             most == MaxTokensFor("anthropic", f)
         IN ThinkingOn(g) =>
               /\ g = f /\ ~Forced(choice)
               /\ most > 0 => ~(most - 1 < 1024)
  <1> DEFINE g == DropThinking("anthropic", f, choice).value
             must == ThinkingMustGo("anthropic", f, choice)
  <1>1. CASE must
    <2>1. g = Without(f, ThinkingDims) BY <1>1 DEF DropThinking
    <2>2. "thinking" \in ThinkingDims BY DEF ThinkingDims
    <2>3. "thinking" \notin DOMAIN g BY <2>1, <2>2, Removed
    <2> HIDE DEF g
    <2>4. ~ThinkingOn(g) BY <2>3 DEF ThinkingOn, Get, Has
    <2> QED BY <2>4 DEF g
  <1>2. CASE ~must
    <2>1. g = f BY <1>2 DEF DropThinking
    <2> HIDE DEF g
    <2>2. ThinkingOn(g) => ~Forced(choice) /\ ~NoRoomToThink("anthropic", f)
      BY <1>2, <2>1, Limits DEF ThinkingMustGo
    <2> QED BY <2>1, <2>2, Limits DEF NoRoomToThink, g
  <1> QED BY <1>1, <1>2

\* Thinking that stays excludes the ways of sampling.
LEMMA SamplingExcluded ==
  ASSUME NEW f
  PROVE  LET g == DropSampling("anthropic", f).value IN
         ThinkingOn(g) => "temperature" \notin DOMAIN g /\ "top_p" \notin DOMAIN g
  <1> DEFINE g == DropSampling("anthropic", f).value
             must == ThinkingOn(f) /\ {"temperature", "top_p"} \cap DOMAIN f # {}
  <1>1. g = IF must THEN Without(f, {"temperature", "top_p"}) ELSE f
    BY Limits DEF DropSampling
  <1> HIDE DEF g
  <1>2. CASE must
    <2>1. "temperature" \notin DOMAIN g /\ "top_p" \notin DOMAIN g
      BY <1>1, <1>2, Removed
    <2> QED BY <2>1 DEF g
  <1>3. CASE ~must
    <2>1. g = f BY <1>1, <1>3
    <2>2. ThinkingOn(g) => "temperature" \notin DOMAIN g /\ "top_p" \notin DOMAIN g
      BY <1>3, <2>1
    <2> QED BY <2>2 DEF g
  <1> QED BY <1>2, <1>3

\* A temperature ends within the bounds of the protocol.
LEMMA TemperatureInBounds ==
  ASSUME NEW f, Has(f, "temperature") => f["temperature"] \in Int
  PROVE  LET g == ClampTemperature("anthropic", f).value IN
         /\ Get(g, "temperature", 0) \in 0 .. 10
         /\ DOMAIN g = DOMAIN f
  <1> DEFINE g == ClampTemperature("anthropic", f).value
             t == Get(f, "temperature", 0)
  <1>1. t \in Int BY DEF Get
  <1>2. /\ t > 10 => g = [f EXCEPT !["temperature"] = 10]
        /\ t < 0 => g = [f EXCEPT !["temperature"] = 0]
        /\ ~(t > 10) /\ ~(t < 0) => g = f
    <2> DEFINE most == Caps("anthropic").MaxTemperature
               with(v) == [value |-> [f EXCEPT !["temperature"] = v],
                           notes |-> {Rewrote("temperature")}]
               same == [value |-> f, notes |-> {}]
               r == ClampTemperature("anthropic", f)
    <2>1. r = CASE most > 0 /\ t > most -> with(most)
                [] most > 0 /\ t < 0    -> with(0)
                [] OTHER -> same
      BY DEF ClampTemperature
    <2>2. most = 10 BY Limits
    <2>3. /\ with(10).value = [f EXCEPT !["temperature"] = 10]
          /\ with(0).value = [f EXCEPT !["temperature"] = 0]
          /\ same.value = f
      OBVIOUS
    <2> HIDE DEF most, with, same, r, t
    <2>4. /\ t > 10 => r = with(10)
          /\ t < 0 => r = with(0)
          /\ ~(t > 10) /\ ~(t < 0) => r = same
      BY <1>1, <2>1, <2>2
    <2> QED BY <2>3, <2>4 DEF r
  <1>3. t # 0 => Has(f, "temperature") BY DEF Get
  <1> HIDE DEF g
  <1>4. /\ t > 10 => Get(g, "temperature", 0) = 10 /\ DOMAIN g = DOMAIN f
        /\ t < 0 => Get(g, "temperature", 0) = 0 /\ DOMAIN g = DOMAIN f
        /\ ~(t > 10) /\ ~(t < 0) => Get(g, "temperature", 0) = t /\ DOMAIN g = DOMAIN f
    <2>1. CASE t > 10
      <3>1. g = [f EXCEPT !["temperature"] = 10] BY <1>2, <2>1
      <3> HIDE DEF t
      <3>2. Has(f, "temperature") /\ ~(t < 0) BY <1>1, <1>3, <2>1
      <3> QED BY <2>1, <3>1, <3>2 DEF Get, Has
    <2>2. CASE t < 0
      <3>1. g = [f EXCEPT !["temperature"] = 0] BY <1>2, <2>2
      <3> HIDE DEF t
      <3>2. Has(f, "temperature") /\ ~(t > 10) BY <1>1, <1>3, <2>2
      <3> QED BY <2>2, <3>1, <3>2 DEF Get, Has
    <2>3. CASE ~(t > 10) /\ ~(t < 0) BY <1>2, <2>3
    <2> QED BY <2>1, <2>2, <2>3
  <1> HIDE DEF t
  <1>5. Get(g, "temperature", 0) \in 0 .. 10 /\ DOMAIN g = DOMAIN f
    BY <1>1, <1>4
  <1> QED BY <1>5 DEF g

\* There are no more stop sequences than the protocol takes.
LEMMA StopsInBounds ==
  ASSUME NEW p \in {"chat", "gemini"}, NEW f,
         Has(f, "stop_sequences") => f["stop_sequences"] \in Nat
  PROVE  Get(LimitStops(p, f).value, "stop_sequences", 0)
            <= Caps(p).MaxStopSequences
  <1> DEFINE most == Caps(p).MaxStopSequences
             g == LimitStops(p, f).value
             n == Get(f, "stop_sequences", 0)
  <1>1. most \in Nat \ {0} BY Limits
  <1>2. n \in Nat BY DEF Get
  <1>3. g = IF n > most THEN [f EXCEPT !["stop_sequences"] = most] ELSE f
    <2>1. most > 0 BY <1>1
    <2> HIDE DEF most
    <2> QED BY <2>1 DEF LimitStops, most
  <1> HIDE DEF most, g
  <1>4. CASE n > most
    <2>1. Has(f, "stop_sequences") BY <1>1, <1>4 DEF Get
    <2>2. Get(g, "stop_sequences", 0) = most BY <1>3, <1>4, <2>1 DEF Get, Has
    <2> QED BY <1>1, <2>2 DEF g, most
  <1>5. CASE ~(n > most)
    <2>1. Get(g, "stop_sequences", 0) = n BY <1>3, <1>5
    <2> QED BY <1>1, <1>2, <1>5, <2>1 DEF g, most
  <1> QED BY <1>4, <1>5

\* What the settings of a body for an anthropic upstream must keep,
FitForAnthropic(f, g, choice) ==
    LET most == MaxTokensFor("anthropic", g) IN
    /\ most \in Nat \ {0}
    /\ Get(g, "temperature", 0) \in 0 .. 10
    /\ ThinkingOn(g) =>
          /\ ~Forced(choice) /\ ~(most - 1 < 1024)
          /\ "temperature" \notin DOMAIN g /\ "top_p" \notin DOMAIN g
          /\ Has(g, "thinking_budget") =>
                /\ g["thinking_budget"] \in Nat /\ g["thinking_budget"] < most
                /\ \/ g["thinking_budget"] = most - 1
                   \/ Has(f, "thinking_budget")
                      /\ g["thinking_budget"] = f["thinking_budget"]
                      /\ g["thinking_budget"] > 0

\* and what it keeps: each step of shapeParams sees what the step before it
\* left, and no later step undoes what an earlier one put right.
LEMMA ParamsFitAnthropic ==
  ASSUME NEW r, Has(r, "params"), Understood(r.params)
  PROVE  FitForAnthropic(r.params, ShapeParams("anthropic", r).req.params, r.choice)
  <1> DEFINE p == "anthropic"
             f == r.params
             budget  == ClampBudget(p, f)
             think   == DropThinking(p, budget.value, r.choice)
             sample  == DropSampling(p, think.value)
             heat    == ClampTemperature(p, sample.value)
             stops   == LimitStops(p, heat.value)
             s == ShapeParams(p, r)
             g == s.req.params
             most == MaxTokensFor(p, f)
  <1>1. g = stops.value
    <2>1. s.req = [r EXCEPT !.params = stops.value] BY DEF ShapeParams, Step
    <2> HIDE DEF s, stops
    <2> QED BY <2>1 DEF Has
  <1>2. /\ SameBut(f, budget.value, ShapedBudget)
        /\ SameBut(budget.value, think.value, ThinkingDims)
        /\ SameBut(think.value, sample.value, ShapedSampling)
        /\ SameBut(sample.value, heat.value, {"temperature"})
        /\ SameBut(heat.value, stops.value, ShapedStops)
    BY BudgetClamped, ThinkingDropped, SamplingDropped, TemperatureClamped, StopsLimited
  <1>3. SameBut(f, g, ThinkingDims \cup OtherShaped)
    <2> HIDE DEF budget, think, sample, heat, stops, s
    <2> QED BY <1>1, <1>2
            DEF SameBut, OtherShaped, ShapedSampling, ShapedStops, ShapedBudget,
                ThinkingDims
  <1>4. MaxTokensFor(p, g) = most /\ most \in Nat \ {0}
    <2> HIDE DEF g
    <2> QED BY <1>3, BoundKnown
  <1>5. MaxTokensFor(p, budget.value) = most
    <2>1. SameBut(f, budget.value, ThinkingDims \cup OtherShaped)
      BY <1>2 DEF SameBut, ShapedBudget, ThinkingDims
    <2> HIDE DEF budget
    <2> QED BY <2>1, BoundKnown
  <1>6. ThinkingOn(budget.value) /\ Has(budget.value, "thinking_budget") =>
           /\ budget.value["thinking_budget"] \in Nat
           /\ budget.value["thinking_budget"] < most
           /\ \/ budget.value["thinking_budget"] = most - 1
              \/ Has(f, "thinking_budget")
                 /\ budget.value["thinking_budget"] = f["thinking_budget"]
                 /\ budget.value["thinking_budget"] > 0
    BY BudgetBelowBound
  <1>7. ThinkingOn(think.value) =>
           /\ think.value = budget.value /\ ~Forced(r.choice)
           /\ MaxTokensFor(p, budget.value) > 0 =>
                 ~(MaxTokensFor(p, budget.value) - 1 < 1024)
    BY ThinkingStays
  <1>8. ThinkingOn(sample.value) =>
           "temperature" \notin DOMAIN sample.value
           /\ "top_p" \notin DOMAIN sample.value
    BY SamplingExcluded
  <1>9. Get(heat.value, "temperature", 0) \in 0 .. 10
        /\ DOMAIN heat.value = DOMAIN sample.value
    <2>1. Has(sample.value, "temperature") => sample.value["temperature"] \in Int
      <3>1. "temperature" \in DOMAIN f => f["temperature"] \in Int
        BY DEF Understood, GivenIn
      <3>2. "temperature" \in DOMAIN sample.value =>
               /\ "temperature" \in DOMAIN think.value
               /\ sample.value["temperature"] = think.value["temperature"]
        <4>1. \/ sample.value = think.value
              \/ sample.value = Without(think.value, {"temperature", "top_p"})
          BY DEF DropSampling
        <4> HIDE DEF sample, think
        <4> QED BY <4>1, Removed
      <3>3. "temperature" \in DOMAIN think.value =>
               /\ "temperature" \in DOMAIN f
               /\ think.value["temperature"] = f["temperature"]
        <4> HIDE DEF budget, think, sample, heat, stops, s
        <4> QED BY <1>2 DEF SameBut, ShapedBudget, ThinkingDims
      <3> HIDE DEF f, think, sample
      <3> QED BY <3>1, <3>2, <3>3 DEF Has
    <2> HIDE DEF sample
    <2> QED BY <2>1, TemperatureInBounds
  <1> HIDE DEF budget, think, sample, heat, stops, s, most
  <1>10. Get(g, "temperature", 0) \in 0 .. 10
    <2>1. Get(g, "temperature", 0) = Get(heat.value, "temperature", 0)
      BY <1>1, <1>2 DEF SameBut, ShapedStops, Get, Has
    <2> QED BY <1>9, <2>1
  <1>11. \A d \in ThinkingDims : /\ d \in DOMAIN g <=> d \in DOMAIN think.value
                                 /\ d \in DOMAIN g => g[d] = think.value[d]
    BY <1>1, <1>2 DEF SameBut, ThinkingDims, ShapedSampling, ShapedStops
  <1>12. ASSUME ThinkingOn(g)
         PROVE  /\ ~Forced(r.choice) /\ ~(most - 1 < 1024)
                /\ "temperature" \notin DOMAIN g /\ "top_p" \notin DOMAIN g
                /\ Has(g, "thinking_budget") =>
                      /\ g["thinking_budget"] \in Nat /\ g["thinking_budget"] < most
                      /\ \/ g["thinking_budget"] = most - 1
                         \/ Has(f, "thinking_budget")
                            /\ g["thinking_budget"] = f["thinking_budget"]
                            /\ g["thinking_budget"] > 0
    <2>1. "thinking" \in ThinkingDims /\ "thinking_budget" \in ThinkingDims
      BY DEF ThinkingDims
    <2>2. ThinkingOn(think.value) BY <1>11, <1>12, <2>1 DEF ThinkingOn, Get, Has
    <2>3. ThinkingOn(sample.value)
      BY <1>2, <2>2 DEF ThinkingOn, Get, Has, SameBut, ShapedSampling
    <2>4. "temperature" \notin DOMAIN g /\ "top_p" \notin DOMAIN g
      BY <1>1, <1>2, <1>8, <1>9, <2>3 DEF SameBut, ShapedStops
    <2>5. think.value = budget.value /\ ~Forced(r.choice) /\ ~(most - 1 < 1024)
      BY <1>4, <1>5, <1>7, <2>2
    <2>6. Has(g, "thinking_budget") =>
             Has(budget.value, "thinking_budget")
             /\ g["thinking_budget"] = budget.value["thinking_budget"]
      BY <1>11, <2>1, <2>5 DEF Has
    <2>7. ThinkingOn(budget.value) BY <2>2, <2>5
    <2> QED BY <1>6, <2>4, <2>5, <2>6, <2>7
  <1> HIDE DEF g, f
  <1>13. FitForAnthropic(f, g, r.choice)
    BY <1>4, <1>10, <1>12 DEF FitForAnthropic, p
  <1> QED BY <1>13 DEF f, g, s, p

\* There are no more stop sequences than chat and gemini take.
LEMMA StopsFit ==
  ASSUME NEW p \in {"chat", "gemini"}, NEW r, Has(r, "params"), Understood(r.params)
  PROVE  Get(ShapeParams(p, r).req.params, "stop_sequences", 0)
            <= Caps(p).MaxStopSequences
  <1> DEFINE f == r.params
             budget  == ClampBudget(p, f)
             think   == DropThinking(p, budget.value, r.choice)
             sample  == DropSampling(p, think.value)
             heat    == ClampTemperature(p, sample.value)
             stops   == LimitStops(p, heat.value)
             s == ShapeParams(p, r)
  <1>1. s.req.params = stops.value
    <2>1. s.req = [r EXCEPT !.params = stops.value] BY DEF ShapeParams, Step
    <2> HIDE DEF s, stops
    <2> QED BY <2>1 DEF Has
  <1>2. /\ SameBut(f, budget.value, ShapedBudget)
        /\ SameBut(budget.value, think.value, ThinkingDims)
        /\ SameBut(think.value, sample.value, ShapedSampling)
        /\ SameBut(sample.value, heat.value, {"temperature"})
    BY BudgetClamped, ThinkingDropped, SamplingDropped, TemperatureClamped
  <1>3. Has(f, "stop_sequences") => f["stop_sequences"] \in Nat
    BY DEF Understood, GivenIn, Has
  <1> HIDE DEF f, budget, think, sample, heat
  <1>4. Has(heat.value, "stop_sequences") => heat.value["stop_sequences"] \in Nat
    BY <1>2, <1>3 DEF SameBut, ShapedBudget, ThinkingDims, ShapedSampling, Has
  <1>5. Get(stops.value, "stop_sequences", 0) <= Caps(p).MaxStopSequences
    BY <1>4, StopsInBounds
  <1> HIDE DEF s, stops
  <1>6. Get(s.req.params, "stop_sequences", 0) <= Caps(p).MaxStopSequences
    BY <1>1, <1>5
  <1> QED BY <1>6 DEF s

\* What this says of the request in flight.
LEMMA SettingsShaped ==
  ASSUME InFlight
  PROVE  /\ target = "anthropic" =>
               FitForAnthropic(req.params, Shaped.params, Shaped.choice)
         /\ target \in {"chat", "gemini"} =>
               Get(Shaped.params, "stop_sequences", 0) <= Caps(target).MaxStopSequences
  <1> DEFINE full   == EnsureNonEmptyMessages(req)
             media  == MoveToolResultMedia(target, full.req)
             tools  == ShapeTools(target, media.req)
             params == ShapeParams(target, tools.req)
             system == ShapeSystem(target, params.req)
             t == tools.req
  <1>1. /\ SameBut(req, tools.req, {"messages", "tools", "choice"})
        /\ SameBut(tools.req, system.req, {"params", "system"})
        /\ SameBut(system.req, Shaped, {"tools", "system", "messages"})
        /\ Shaped.params = params.req.params
    BY RequestShaped DEF InFlight, Shaped
  <1>2. Has(t, "choice")
    <2>1. Has(media.req, "tools") /\ Has(media.req, "choice")
          /\ Declared(media.req.tools)
      <3>1. SameBut(req, media.req, {"messages"}) BY RequestShaped DEF InFlight
      <3> HIDE DEF media
      <3> QED BY <3>1 DEF SameBut, InFlight, Whole, Has
    <2> HIDE DEF media
    <2> QED BY <2>1, ToolsShaped
  <1> HIDE DEF tools, system
  <1>3. Has(t, "params") /\ t.params = req.params
    BY <1>1 DEF InFlight, Whole, SameBut, Has
  <1>4. Shaped.choice = t.choice BY <1>1, <1>2 DEF SameBut, Has
  <1>5. params.req.params = ShapeParams(target, t).req.params OBVIOUS
  <1> HIDE DEF params, t
  <1>6. Understood(t.params) BY <1>3 DEF InFlight
  <1>7. ASSUME target = "anthropic"
        PROVE  FitForAnthropic(req.params, Shaped.params, Shaped.choice)
    <2>1. FitForAnthropic(t.params, ShapeParams("anthropic", t).req.params, t.choice)
      BY <1>3, <1>6, ParamsFitAnthropic
    <2> QED BY <1>1, <1>3, <1>4, <1>5, <1>7, <2>1
  <1>8. ASSUME target \in {"chat", "gemini"}
        PROVE  Get(Shaped.params, "stop_sequences", 0) <= Caps(target).MaxStopSequences
    <2>1. Get(ShapeParams(target, t).req.params, "stop_sequences", 0)
             <= Caps(target).MaxStopSequences
      BY <1>3, <1>6, <1>8, StopsFit
    <2> QED BY <1>1, <1>5, <2>1
  <1> QED BY <1>7, <1>8

\* Where the settings in question end up in an anthropic body: the bound is
\* always there, and nothing else says how to sample or how to think.
LEMMA AnthropicSettingsEncoded ==
  ASSUME NEW f, NEW tools
  PROVE  LET w == EncodeAnthropicParams(f, tools)
             most == MaxTokensFor("anthropic", f)
             think == EncodeAnthropicThinking(f, most)
         IN /\ "max_tokens" \in DOMAIN w /\ w["max_tokens"] = most
            /\ \A d \in {"temperature", "top_p"} :
                  /\ d \in DOMAIN w <=> d \in DOMAIN f
                  /\ d \in DOMAIN f => w[d] = f[d]
            /\ \A d \in {"thinking", "thinking_budget"} :
                  /\ d \in DOMAIN w <=> d \in DOMAIN think
                  /\ d \in DOMAIN think => w[d] = think[d]
            /\ "parallel_tool_calls" \in DOMAIN w => tools # <<>>
  <1> DEFINE w == EncodeAnthropicParams(f, tools)
             most == MaxTokensFor("anthropic", f)
             think == EncodeAnthropicThinking(f, most)
             output == EncodeAnthropicOutput(f)
             identity == EncodeAnthropicIdentity(f)
             tier == MapServiceTier("anthropic", Get(f, "service_tier", "auto"))
             service == IF Has(f, "service_tier") /\ tier # NoTier
                        THEN "service_tier" := tier ELSE << >>
             parallel == IF Get(f, "parallel_tool_calls", "yes") = "no"
                            /\ tools # <<>>
                         THEN "parallel_tool_calls" := "no" ELSE << >>
             plain == Keep(f, PlainInAnthropic)
             bound == "max_tokens" := most
             own == {"user_id", "safety_identifier"}
             late == own \cup OutputInAnthropic \cup {"service_tier"}
  <1>1. w = plain ++ bound ++ think ++ identity ++ output ++ service ++ parallel
    BY DEF EncodeAnthropicParams, PlainInAnthropic
  <1>2. \A d \in DOMAIN think : d \in ThoughtInAnthropic
    BY AnthropicThinkingEncoded
  <1>3. /\ \A d \in DOMAIN output : d \in late
        /\ \A d \in DOMAIN identity : d \in late
        /\ \A d \in DOMAIN service : d \in late
    <2>1. \A d \in DOMAIN output : d \in OutputInAnthropic
      BY AnthropicOutputEncoded
    <2>2. \A d \in DOMAIN identity : d \in own
      BY Kept DEF EncodeAnthropicIdentity, Has
    <2>3. \A d \in DOMAIN service : d = "service_tier" BY Single, Empty
    <2> QED BY <2>1, <2>2, <2>3
  <1>4. \A d \in DOMAIN parallel : d = "parallel_tool_calls" /\ tools # <<>>
    BY Single, Empty
  <1>5. \A d : /\ d \in DOMAIN plain <=> d \in DOMAIN f /\ d \in PlainInAnthropic
               /\ d \in DOMAIN plain => plain[d] = f[d]
    BY Kept
  <1>6. (\A d : d \in DOMAIN bound <=> d = "max_tokens") /\ bound["max_tokens"] = most
    BY Single
  <1>7. /\ \A d \in {"max_tokens", "temperature", "top_p", "thinking",
                     "thinking_budget", "parallel_tool_calls"} : d \notin late
        /\ \A d \in {"max_tokens", "thinking", "thinking_budget",
                     "parallel_tool_calls"} : d \notin PlainInAnthropic
        /\ {"temperature", "top_p"} \subseteq PlainInAnthropic
        /\ \A d \in {"max_tokens", "temperature", "top_p", "parallel_tool_calls"} :
              d \notin ThoughtInAnthropic
    BY DEF PlainInAnthropic, ThoughtInAnthropic, OutputInAnthropic
  <1> HIDE DEF plain, bound, think, most, identity, output, service, parallel, late, w
  <1> DEFINE early == plain ++ bound ++ think
  <1>8. \A d : d \notin late /\ d # "parallel_tool_calls" =>
           /\ d \in DOMAIN w <=> d \in DOMAIN early
           /\ d \in DOMAIN early => w[d] = early[d]
    <2> HIDE DEF early
    <2>1. w = early ++ identity ++ output ++ service ++ parallel
      BY <1>1 DEF early
    <2> QED BY <2>1, <1>3, <1>4, Merged
  <1>9. /\ "max_tokens" \in DOMAIN early /\ early["max_tokens"] = most
        /\ \A d \in {"temperature", "top_p"} :
              /\ d \in DOMAIN early <=> d \in DOMAIN f
              /\ d \in DOMAIN f => early[d] = f[d]
        /\ \A d \in {"thinking", "thinking_budget"} :
              /\ d \in DOMAIN early <=> d \in DOMAIN think
              /\ d \in DOMAIN think => early[d] = think[d]
        /\ "parallel_tool_calls" \notin DOMAIN early
    BY <1>2, <1>5, <1>6, <1>7, Merged
  <1>10. "parallel_tool_calls" \in DOMAIN w => tools # <<>>
    <2>1. "parallel_tool_calls" \in DOMAIN w =>
             \/ "parallel_tool_calls" \in DOMAIN early
             \/ "parallel_tool_calls" \in late
             \/ "parallel_tool_calls" \in DOMAIN parallel
      <3> HIDE DEF early
      <3>1. w = early ++ identity ++ output ++ service ++ parallel
        BY <1>1 DEF early
      <3> QED BY <3>1, <1>3, Merged
    <2> QED BY <1>4, <1>7, <1>9, <2>1
  <1> HIDE DEF early
  <1> QED BY <1>7, <1>8, <1>9, <1>10 DEF w, think, most

\* A budget made from an effort lies between the least and the bound.
LEMMA BudgetMade ==
  ASSUME NEW effort, NEW most \in Nat, ~(most - 1 < 1024)
  PROVE  AnthropicBudgetFor(effort, most) \in 1024 .. (most - 1)
  <1> DEFINE share == CASE effort \in {"low", "minimal"} -> most \div 5
                        [] effort \in {"high", "max"}    -> (most * 4) \div 5
                        [] OTHER                         -> most \div 2
             least == IF share < 1024 THEN 1024 ELSE share
  <1>1. share \in Int
    <2>1. /\ most \div 5 \in Int /\ (most * 4) \div 5 \in Int
          /\ most \div 2 \in Int
      OBVIOUS
    <2>2. \/ share = most \div 5 \/ share = (most * 4) \div 5
          \/ share = most \div 2
      OBVIOUS
    <2> QED BY <2>1, <2>2
  <1>2. AnthropicBudgetFor(effort, most) = IF least >= most THEN most - 1 ELSE least
    BY DEF AnthropicBudgetFor
  <1> HIDE DEF share
  <1> QED BY <1>1, <1>2

\* Thinking sent to an anthropic upstream is thinking that stayed on, and
\* its budget is the one shaping left or one made from the effort.
LEMMA ThinkingSent ==
  ASSUME NEW f, NEW most
  PROVE  LET e == EncodeAnthropicThinking(f, most) IN
         /\ "thinking" \in DOMAIN e /\ e["thinking"] = "on" => ThinkingOn(f)
         /\ "thinking_budget" \in DOMAIN e =>
               \/ Has(f, "thinking_budget")
                  /\ e["thinking_budget"] = f["thinking_budget"]
               \/ \E effort : e["thinking_budget"] = AnthropicBudgetFor(effort, most)
  <1> DEFINE e == EncodeAnthropicThinking(f, most)
  <1>1. CASE ThinkingOn(f) /\ ~Has(f, "adaptive_thinking")
    <2> DEFINE budget == IF Get(f, "thinking_budget", 0) > 0
                         THEN f["thinking_budget"]
                         ELSE AnthropicBudgetFor(Get(f, "thinking_effort", "unset"),
                                                 most)
               own == Keep(f, {"thinking", "thinking_display_preference"})
               depth == "thinking_budget" := budget
    <2>1. e = depth ++ own
      BY <1>1 DEF EncodeAnthropicThinking, ThinkingOn, ThinkingOff
    <2>2. \/ Has(f, "thinking_budget") /\ budget = f["thinking_budget"]
          \/ \E effort : budget = AnthropicBudgetFor(effort, most)
      BY DEF Get
    <2>3. "thinking_budget" \in DOMAIN depth /\ depth["thinking_budget"] = budget
      BY Single
    <2> HIDE DEF budget, own, depth, e
    <2>4. e["thinking_budget"] = budget BY <2>1, <2>3, Merged
    <2> QED BY <1>1, <2>2, <2>4 DEF e
  <1>2. CASE ThinkingOn(f) /\ Has(f, "adaptive_thinking")
    <2>1. e = Keep(f, {"thinking", "adaptive_thinking",
                       "thinking_display_preference"})
      BY <1>2 DEF EncodeAnthropicThinking, ThinkingOn, ThinkingOff
    <2> HIDE DEF e
    <2>2. "thinking_budget" \notin DOMAIN e BY <2>1, Kept
    <2> QED BY <1>2, <2>2 DEF e
  <1>3. CASE ~ThinkingOn(f)
    <2>1. e = << >> \/ e = ("thinking" := "off")
      BY <1>3 DEF EncodeAnthropicThinking
    <2> HIDE DEF e
    <2>2. "thinking_budget" \notin DOMAIN e
          /\ ("thinking" \in DOMAIN e => e["thinking"] = "off")
      BY <2>1, Single, Empty
    <2> QED BY <2>2 DEF e
  <1> QED BY <1>1, <1>2, <1>3

\* What a choice must be next to the declarations it is sent with.
ChoiceFits(choice, tools) ==
    \/ choice = NoChoice
    \/ /\ \E i \in DOMAIN tools : TRUE
       /\ choice.mode = "tool" => \E i \in DOMAIN tools : tools[i].name = choice.name

\* shapeToolChoice leaves no choice without tools and none of a tool that
\* is not declared.
LEMMA ToolChoiceFits ==
  ASSUME NEW q, Has(q, "tools"), Has(q, "choice"),
         q.tools # <<>> => \E i \in DOMAIN q.tools : TRUE
  PROVE  LET r == ShapeToolChoice(q).req IN
         /\ r.tools = q.tools /\ ChoiceFits(r.choice, q.tools)
         /\ r.choice \in {q.choice, NoChoice, [mode |-> "auto"]}
  <1> DEFINE r == ShapeToolChoice(q).req
             lacks == \A i \in DOMAIN q.tools : q.tools[i].name # q.choice.name
  <1>1. CASE q.choice = NoChoice
    <2>1. q.choice.mode # "tool" BY <1>1 DEF NoChoice
    <2>2. r = q BY <1>1, <2>1 DEF ShapeToolChoice, Step
    <2> HIDE DEF r
    <2> QED BY <1>1, <2>2 DEF ChoiceFits, r
  <1>2. CASE q.choice # NoChoice /\ q.tools = <<>>
    <2>1. r = [q EXCEPT !.choice = NoChoice] BY <1>2 DEF ShapeToolChoice, Step
    <2> HIDE DEF r
    <2>2. r.tools = q.tools /\ r.choice = NoChoice BY <2>1 DEF Has
    <2> QED BY <2>2 DEF ChoiceFits, r
  <1>3. CASE q.choice # NoChoice /\ q.tools # <<>> /\ q.choice.mode = "tool" /\ lacks
    <2>1. ShapeToolChoice(q) = Step([q EXCEPT !.choice = [mode |-> "auto"]],
                                    {Rewrote("tool_choice")})
      BY <1>3 DEF ShapeToolChoice
    <2>2. r = [q EXCEPT !.choice = [mode |-> "auto"]] BY <2>1 DEF Step
    <2> HIDE DEF r
    <2>3. r.tools = q.tools /\ r.choice = [mode |-> "auto"] BY <2>2 DEF Has
    <2> QED BY <1>3, <2>3 DEF ChoiceFits, r
  <1>4. CASE /\ q.choice # NoChoice /\ q.tools # <<>>
             /\ ~(q.choice.mode = "tool" /\ lacks)
    <2>1. r = q BY <1>4 DEF ShapeToolChoice, Step
    <2> HIDE DEF r
    <2> QED BY <1>4, <2>1 DEF ChoiceFits, r
  <1> QED BY <1>1, <1>2, <1>3, <1>4

\* The declarations the choice is made to fit are those that are sent.
LEMMA ChoiceShapedFits ==
  ASSUME InFlight
  PROVE  /\ ChoiceFits(Shaped.choice, Shaped.tools)
         /\ Shaped.choice \in {req.choice, NoChoice, [mode |-> "auto"]}
         /\ Listing(Shaped.tools)
  <1> DEFINE full   == EnsureNonEmptyMessages(req)
             media  == MoveToolResultMedia(target, full.req)
             tools  == ShapeTools(target, media.req)
             params == ShapeParams(target, tools.req)
             system == ShapeSystem(target, params.req)
             cache  == BudgetCache(target, system.req)
             server == DropServerTools(target, media.req)
             allow  == EnforceToolAllowlist(server.req)
             schema == ShapeToolSchemas(target, allow.req)
             choice == ShapeToolChoice(schema.req)
             q == schema.req
             t == tools.req
  <1>1. /\ Shaped = cache.req
        /\ SameBut(req, media.req, {"messages"})
        /\ SameBut(t, system.req, {"params", "system"})
        /\ SameBut(system.req, Shaped, {"tools", "system", "messages"})
    BY RequestShaped DEF InFlight, Shaped
  <1>2. t = choice.req BY DEF ShapeTools, Step
  <1>3. /\ Has(media.req, "tools") /\ Declared(media.req.tools)
        /\ Has(media.req, "choice") /\ media.req.choice = req.choice
    <2> HIDE DEF media
    <2> QED BY <1>1 DEF SameBut, InFlight, Whole, Has
  <1> HIDE DEF media
  <1>4. SameBut(media.req, server.req, {"tools"}) /\ Declared(server.req.tools)
    BY <1>3, ServerToolsDropped
  <1>5. /\ Has(server.req, "tools") /\ Has(server.req, "choice")
        /\ server.req.choice = req.choice
    <2>1. Has(server.req, "tools") BY <1>3, FieldsStay DEF Has
    <2> HIDE DEF server
    <2> QED BY <1>3, <1>4, <2>1 DEF SameBut, Has
  <1> HIDE DEF server
  <1>6. SameBut(server.req, allow.req, {"tools"}) /\ Declared(allow.req.tools)
    BY <1>4, <1>5, AllowlistEnforced
  <1>7. /\ Has(allow.req, "tools") /\ Has(allow.req, "choice")
        /\ allow.req.choice = req.choice
    <2>1. Has(allow.req, "tools") BY <1>5, FieldsStay DEF Has
    <2> HIDE DEF allow
    <2> QED BY <1>5, <1>6, <2>1 DEF SameBut, Has
  <1> HIDE DEF allow
  <1>8. SameBut(allow.req, q, {"tools"}) /\ DOMAIN q.tools = DOMAIN allow.req.tools
    BY <1>6, <1>7, SchemasShaped
  <1>9. /\ Has(q, "tools") /\ Has(q, "choice") /\ q.choice = req.choice
    <2>1. Has(q, "tools") BY <1>7, FieldsStay DEF Has
    <2> HIDE DEF q
    <2> QED BY <1>7, <1>8, <2>1 DEF SameBut, Has
  <1>10. Listing(q.tools)
    <2> DEFINE a == allow.req.tools
    <2>1. q.tools = [i \in DOMAIN a |-> ShapeToolSchema(target, a[i])]
      <3>1. q = [allow.req EXCEPT !.tools =
                    [i \in DOMAIN @ |-> ShapeToolSchema(target, @[i])]]
        BY DEF ShapeToolSchemas, Step
      <3> HIDE DEF q
      <3> QED BY <1>7, <3>1 DEF Has
    <2> HIDE DEF a, q
    <2> QED BY <2>1 DEF Listing
  <1> HIDE DEF schema, q
  <1>11. /\ t.tools = q.tools /\ ChoiceFits(t.choice, q.tools)
         /\ t.choice \in {req.choice, NoChoice, [mode |-> "auto"]}
    <2>1. choice.req = ShapeToolChoice(q).req BY DEF q
    <2> HIDE DEF choice, tools
    <2> QED BY <1>2, <1>9, <1>10, <2>1, ToolChoiceFits, ListingHolds
  <1>12. Has(t, "tools") /\ Has(t, "choice")
         /\ \A i \in DOMAIN t.tools : Has(t.tools[i], "name")
    BY <1>3, ToolsShaped
  <1> HIDE DEF tools, t, choice
  <1>13. Has(system.req, "tools") /\ system.req.tools = t.tools
         /\ Has(system.req, "choice") /\ system.req.choice = t.choice
    <2> HIDE DEF system
    <2> QED BY <1>1, <1>12 DEF SameBut, Has
  <1> HIDE DEF system
  <1>14. /\ DOMAIN Shaped.tools = DOMAIN t.tools /\ Listing(Shaped.tools)
         /\ \A i \in DOMAIN t.tools : Shaped.tools[i].name = t.tools[i].name
    <2>1. /\ DOMAIN cache.req.tools = DOMAIN t.tools
          /\ Listing(t.tools) => Listing(cache.req.tools)
          /\ \A i \in DOMAIN cache.req.tools :
                SameBut(t.tools[i], cache.req.tools[i], {"cache"})
      BY <1>13, CacheBudgeted
    <2> HIDE DEF cache
    <2> QED BY <1>1, <1>10, <1>11, <1>12, <2>1 DEF SameBut, Has
  <1>15. Shaped.choice = t.choice BY <1>1, <1>13 DEF SameBut, Has
  <1> HIDE DEF cache
  <1> QED BY <1>11, <1>14, <1>15 DEF ChoiceFits

\* A choice that is sent is about declared tools, but for a hosted tool or
\* a name in the client's own words from before the repair.
LEMMA ChoiceSentDeclared ==
  ASSUME InFlight, req.choice.mode # "typed", ~NamesAsGiven
  PROVE  ChoiceIsDeclared
  <1> DEFINE c == Shaped.choice
             s == Shaped.tools
             named == \E i \in DOMAIN s : s[i].name = c.name
  <1>1. ChoiceFits(c, s) /\ c \in {req.choice, NoChoice, [mode |-> "auto"]}
    BY ChoiceShapedFits
  <1>2. ChoiceKnown(c) /\ c.mode # "typed"
        /\ (Has(c, "rawName") => c.rawName = c.name)
    <2>1. CASE c = req.choice BY <2>1 DEF InFlight, NamesAsGiven
    <2>2. CASE c = NoChoice BY <2>2 DEF ChoiceKnown, NoChoice, Has
    <2>3. CASE c = [mode |-> "auto"] BY <2>3 DEF ChoiceKnown, Has
    <2> HIDE DEF c
    <2> QED BY <1>1, <2>1, <2>2, <2>3
  <1>3. wire = Encoded(target, Shaped) BY DEF InFlight, Shaped
  <1>4. /\ wire.choice # NoChoice => c # NoChoice
        /\ wire.choice.mode = "tool" => c.mode = "tool" /\ wire.choice.name = c.name
    <2>1. CASE target \in {"anthropic", "gemini"}
      <3>1. wire.choice = IF c.mode \in {"auto", "any", "none", "tool"}
                          THEN Keep(c, {"mode", "name"}) ELSE NoChoice
        BY <1>3, <2>1 DEF Encoded, EncodeAnthropic, EncodeAnthropicChoice,
                          EncodeGemini, EncodeGeminiChoice
      <3>2. NoChoice.mode = "absent" BY DEF NoChoice
      <3> HIDE DEF c
      <3>3. CASE c.mode \in {"auto", "any", "none", "tool"}
        <4>1. wire.choice = Keep(c, {"mode", "name"}) BY <3>1, <3>3
        <4>2. wire.choice.mode = c.mode /\ (c.mode = "tool" => wire.choice.name = c.name)
          BY <1>2, <3>3, <4>1, PlainChoice
        <4> QED BY <3>2, <3>3, <4>2
      <3>4. CASE c.mode \notin {"auto", "any", "none", "tool"}
        BY <3>1, <3>2, <3>4
      <3> QED BY <3>3, <3>4
    <2>2. CASE target \in OpenAI
      <3>1. wire.choice = EncodeOpenAIChoice(target, c)
        BY <1>3, <2>2 DEF Encoded, EncodeChat, EncodeResponses, OpenAI
      <3> HIDE DEF c
      <3>2. CASE c = NoChoice
        <4>1. EncodeOpenAIChoice(target, c) = NoChoice
          BY <2>2, <3>2 DEF EncodeOpenAIChoice, NoChoice, Get, Has, OpenAI
        <4> QED BY <3>1, <3>2, <4>1 DEF NoChoice
      <3>3. CASE c # NoChoice
        BY <1>2, <2>2, <3>1, <3>3, OpenAIChoice
      <3> QED BY <3>2, <3>3
    <2> QED BY <2>1, <2>2 DEF InFlight, Protocols, OpenAI
  <1>5. /\ DOMAIN wire.tools = DOMAIN s
        /\ \A i \in DOMAIN s : wire.tools[i].name = s[i].name
    <2>1. /\ DOMAIN wire.tools = DOMAIN s
          /\ \A i \in DOMAIN s : wire.tools[i] = Keep(s[i], ToolFields(target))
      BY ToolsEncoded
    <2>2. \A i \in DOMAIN s : Has(s[i], "name") BY ShapedTools
    <2> HIDE DEF s
    <2> QED BY <2>1, <2>2, FieldsOfTools, Kept DEF Has
  <1> HIDE DEF c, s
  <1>6. c # NoChoice => (\E i \in DOMAIN s : TRUE) /\ (c.mode = "tool" => named)
    BY <1>1 DEF ChoiceFits
  <1>7. wire.choice # NoChoice => wire.tools # <<>> BY <1>4, <1>5, <1>6
  <1>8. ASSUME wire.choice.mode = "tool" PROVE wire.choice.name \in SentTools
    <2>1. wire.choice # NoChoice BY <1>8 DEF NoChoice
    <2>2. PICK i \in DOMAIN s : s[i].name = c.name BY <1>4, <1>6, <1>8, <2>1
    <2>3. wire.tools[i].name = wire.choice.name BY <1>4, <1>5, <1>8, <2>2
    <2> QED BY <1>5, <2>3 DEF SentTools
  <1> QED BY <1>7, <1>8 DEF ChoiceIsDeclared

\* A body for an anthropic upstream thinks within its bound, does not
\* sample while it thinks and is not forced to call a tool.
LEMMA AnthropicIsFit ==
  ASSUME InFlight, target = "anthropic"
  PROVE  /\ Has(wire.params, "max_tokens") /\ AnthropicThinks
         /\ Get(wire.params, "temperature", 0) \in 0 .. 10
         /\ \/ Get(wire.params, "parallel_tool_calls", "yes") = "yes"
            \/ Shaped.tools # <<>>
  <1> DEFINE w == wire.params
             f == req.params
             g == Shaped.params
             c == Shaped.choice
             most == MaxTokensFor("anthropic", g)
             e == EncodeAnthropicThinking(g, most)
  <1>1. wire = EncodeAnthropic(Shaped) BY DEF InFlight, Shaped, Encoded
  <1>2. w = EncodeAnthropicParams(g, Shaped.tools) BY <1>1 DEF EncodeAnthropic
  <1>3. /\ "max_tokens" \in DOMAIN w /\ w["max_tokens"] = most
        /\ \A d \in {"temperature", "top_p"} :
              /\ d \in DOMAIN w <=> d \in DOMAIN g
              /\ d \in DOMAIN g => w[d] = g[d]
        /\ \A d \in {"thinking", "thinking_budget"} :
              /\ d \in DOMAIN w <=> d \in DOMAIN e
              /\ d \in DOMAIN e => w[d] = e[d]
        /\ "parallel_tool_calls" \in DOMAIN w => Shaped.tools # <<>>
    BY <1>2, AnthropicSettingsEncoded
  <1>4. FitForAnthropic(f, g, c) BY SettingsShaped
  <1>5. /\ "thinking" \in DOMAIN e /\ e["thinking"] = "on" => ThinkingOn(g)
        /\ "thinking_budget" \in DOMAIN e =>
              \/ Has(g, "thinking_budget")
                 /\ e["thinking_budget"] = g["thinking_budget"]
              \/ \E effort :
                    e["thinking_budget"] = AnthropicBudgetFor(effort, most)
    BY ThinkingSent
  <1>6. Forced(wire.choice) => Forced(c)
    <2>1. wire.choice = IF c.mode \in {"auto", "any", "none", "tool"}
                        THEN Keep(c, {"mode", "name"}) ELSE NoChoice
      BY <1>1 DEF EncodeAnthropic, EncodeAnthropicChoice
    <2>2. ChoiceKnown(c)
      <3>1. c \in {req.choice, NoChoice, [mode |-> "auto"]} BY ChoiceShapedFits
      <3>2. CASE c = req.choice BY <3>2 DEF InFlight
      <3>3. CASE c = NoChoice BY <3>3 DEF ChoiceKnown
      <3>4. CASE c = [mode |-> "auto"] BY <3>4 DEF ChoiceKnown, Has
      <3> HIDE DEF c
      <3> QED BY <3>1, <3>2, <3>3, <3>4
    <2> HIDE DEF c
    <2>3. CASE c.mode \in {"auto", "any", "none", "tool"}
      <3>1. wire.choice.mode = c.mode BY <2>1, <2>2, <2>3, PlainChoice
      <3> QED BY <3>1 DEF Forced
    <2>4. CASE c.mode \notin {"auto", "any", "none", "tool"}
      BY <2>1, <2>4 DEF Forced, NoChoice
    <2> QED BY <2>3, <2>4
  <1> HIDE DEF w, f, g, c, e
  <1>7. /\ most \in Nat \ {0} /\ Get(g, "temperature", 0) \in 0 .. 10
    BY <1>4 DEF FitForAnthropic
  <1>8. Get(w, "temperature", 0) = Get(g, "temperature", 0)
    BY <1>3 DEF Get, Has
  <1>9. ASSUME ThinkingOn(w)
        PROVE  /\ {"temperature", "top_p"} \cap DOMAIN w = {}
               /\ ~Forced(wire.choice)
               /\ Has(w, "thinking_budget") =>
                     /\ w["thinking_budget"] < w["max_tokens"]
                     /\ w["thinking_budget"] >= 1024
                        \/ w["thinking_budget"] = Get(f, "thinking_budget", 1024)
    <2>1. ThinkingOn(g) BY <1>3, <1>5, <1>9 DEF ThinkingOn, Get, Has
    <2>2. /\ ~Forced(c) /\ ~(most - 1 < 1024)
          /\ "temperature" \notin DOMAIN g /\ "top_p" \notin DOMAIN g
          /\ Has(g, "thinking_budget") =>
                /\ g["thinking_budget"] \in Nat /\ g["thinking_budget"] < most
                /\ \/ g["thinking_budget"] = most - 1
                   \/ Has(f, "thinking_budget")
                      /\ g["thinking_budget"] = f["thinking_budget"]
      BY <1>4, <2>1 DEF FitForAnthropic
    <2> HIDE DEF most
    <2>3. {"temperature", "top_p"} \cap DOMAIN w = {} BY <1>3, <2>2
    <2>4. ASSUME Has(w, "thinking_budget")
          PROVE  /\ w["thinking_budget"] < most
                 /\ w["thinking_budget"] >= 1024
                    \/ w["thinking_budget"] = Get(f, "thinking_budget", 1024)
      <3>1. "thinking_budget" \in DOMAIN e
            /\ w["thinking_budget"] = e["thinking_budget"]
        BY <1>3, <2>4 DEF Has
      <3>2. CASE /\ Has(g, "thinking_budget")
                 /\ e["thinking_budget"] = g["thinking_budget"]
        BY <1>7, <2>2, <3>1, <3>2 DEF Get
      <3>3. ASSUME NEW effort,
                   e["thinking_budget"] = AnthropicBudgetFor(effort, most)
            PROVE  /\ w["thinking_budget"] < most
                   /\ w["thinking_budget"] >= 1024
        <4>1. AnthropicBudgetFor(effort, most) \in 1024 .. (most - 1)
          BY <1>7, <2>2, BudgetMade
        <4> QED BY <1>7, <3>1, <3>3, <4>1
      <3> QED BY <1>5, <3>1, <3>2, <3>3
    <2> QED BY <1>3, <1>6, <2>2, <2>3, <2>4
  <1> QED BY <1>3, <1>7, <1>8, <1>9 DEF AnthropicThinks, Get, Has, w, f

\* The bodies for chat and gemini list the stop sequences shaping left.
LEMMA StopsEncoded ==
  ASSUME InFlight, target \in {"chat", "gemini"}
  PROVE  Get(wire.params, "stop_sequences", 0)
            = Get(Shaped.params, "stop_sequences", 0)
  <1> DEFINE w == wire.params
             g == Shaped.params
             d == "stop_sequences"
  <1>1. wire = Encoded(target, Shaped) BY DEF InFlight, Shaped
  <1>2. CASE target = "chat"
    <2> DEFINE plain == Keep(g, PlainInChat)
               tier  == MapServiceTier("chat", Get(g, "service_tier", "auto"))
               service == IF Has(g, "service_tier") /\ tier # NoTier
                          THEN "service_tier" := tier ELSE << >>
               modes == EncodeModalities(g)
               format == EncodeFormat(g)
               effort == EncodeEffort(g)
    <2>1. w = plain ++ service ++ modes ++ format ++ effort
      BY <1>1, <1>2 DEF Encoded, EncodeChat, EncodeChatParams, PlainInChat
    <2>2. /\ d \notin DOMAIN service /\ d \notin DOMAIN modes
          /\ d \notin DOMAIN format /\ d \notin DOMAIN effort
      <3>1. d \notin DOMAIN service BY Single, Empty
      <3>2. d \notin DOMAIN modes BY Single, Empty DEF EncodeModalities
      <3>3. d \notin DOMAIN format
        BY Kept, Single, Empty DEF EncodeFormat, FormatDims
      <3>4. d \notin DOMAIN effort BY Merged, Single, Empty DEF EncodeEffort
      <3> QED BY <3>1, <3>2, <3>3, <3>4
    <2>3. /\ d \in DOMAIN plain <=> d \in DOMAIN g
          /\ d \in DOMAIN g => plain[d] = g[d]
      BY Kept DEF PlainInChat
    <2> HIDE DEF plain, service, modes, format, effort, w, g
    <2>4. /\ d \in DOMAIN w <=> d \in DOMAIN g
          /\ d \in DOMAIN g => w[d] = g[d]
      BY <2>1, <2>2, <2>3, Merged
    <2> QED BY <2>4 DEF Get, Has, w, g
  <1>3. CASE target = "gemini"
    <2> DEFINE plain == Keep(g, PlainInGemini)
               implied == IF Has(g, "top_logprobs")
                          THEN "logprobs" := "yes" ELSE << >>
               think == EncodeGeminiThinking(g)
               format == EncodeGeminiFormat(g)
    <2>1. w = plain ++ implied ++ think ++ format
      BY <1>1, <1>3 DEF Encoded, EncodeGemini, EncodeGeminiParams, PlainInGemini
    <2>2. d \notin DOMAIN implied /\ d \notin DOMAIN think /\ d \notin DOMAIN format
      <3>1. d \notin DOMAIN implied BY Single, Empty
      <3>2. d \notin DOMAIN think
        BY Merged, Single, Empty DEF EncodeGeminiThinking
      <3>3. d \notin DOMAIN format
        BY Merged, Kept, Single, Empty DEF EncodeGeminiFormat
      <3> QED BY <3>1, <3>2, <3>3
    <2>3. /\ d \in DOMAIN plain <=> d \in DOMAIN g
          /\ d \in DOMAIN g => plain[d] = g[d]
      BY Kept DEF PlainInGemini
    <2> HIDE DEF plain, implied, think, format, w, g
    <2>4. /\ d \in DOMAIN w <=> d \in DOMAIN g
          /\ d \in DOMAIN g => w[d] = g[d]
      BY <2>1, <2>2, <2>3, Merged
    <2> QED BY <2>4 DEF Get, Has, w, g
  <1> QED BY <1>2, <1>3

\* In every reachable state, for every body, what is sent keeps the rules
\* about settings its upstream is known to have: a choice is of a declared
\* tool, stop sequences are not too many, and an anthropic body bounds its
\* tokens, thinks below the bound, and neither samples nor forces a call
\* while it thinks (shape.go: shapeParams, shapeToolChoice).
THEOREM SettingsAreAccepted == Spec => [](Sending => SettingsAccepted)
  <1>1. ASSUME InFlight PROVE SettingsAccepted
    <2>1. ChoiceIsDeclared \/ req.choice.mode = "typed" \/ NamesAsGiven
      BY <1>1, ChoiceSentDeclared
    <2>2. /\ target = "chat" => Get(wire.params, "stop_sequences", 0) <= 4
          /\ target = "gemini" => Get(wire.params, "stop_sequences", 0) <= 5
      BY <1>1, StopsEncoded, SettingsShaped, Limits
    <2>3. target = "anthropic" =>
             /\ Has(wire.params, "max_tokens") /\ AnthropicThinks
             /\ Get(wire.params, "temperature", 0) \in 0 .. 10
             /\ Get(wire.params, "parallel_tool_calls", "yes") = "yes"
                \/ wire.tools # <<>>
      <3>1. Shaped.tools # <<>> => wire.tools # <<>>
        <4>1. DOMAIN wire.tools = DOMAIN Shaped.tools BY <1>1, ToolsEncoded
        <4>2. Shaped.tools # <<>> => \E i \in DOMAIN Shaped.tools : TRUE
          BY <1>1, ChoiceShapedFits, ListingHolds
        <4> QED BY <4>1, <4>2
      <3> QED BY <1>1, <3>1, AnthropicIsFit
    <2> QED BY <2>1, <2>2, <2>3 DEF SettingsAccepted
  <1>2. ASSUME InvWay, Sending PROVE SettingsAccepted
    BY <1>1, <1>2, WayInFlight DEF Sending
  <1> QED BY <1>2, WayInvariance, PTL

-----------------------------------------------------------------------------
(* What is filled in.                                                      *)

\* Notes of losses: none of them says that a value was filled in.
Losing(told) == \A n \in told : n[1] # "filled"

\* The verbs of notes.
LEMMA Verbs ==
  ASSUME NEW x
  PROVE  /\ Dropped(x)[1] # "filled" /\ Rewrote(x)[1] # "filled"
         /\ Unreturned(x)[1] # "filled"
         /\ Filled(x)[1] = "filled" /\ Filled(x)[2] = x
  BY DEF Dropped, Rewrote, Unreturned, Filled

\* A note on a condition is a loss when the note is.
LEMMA LosingWhen ==
  ASSUME NEW condition, NEW n, n[1] # "filled"
  PROVE  Losing(When(condition, n)) /\ \A m \in When(condition, n) : m = n
  BY DEF Losing, When

\* Losses about tools, their arguments and the choice between them,
LEMMA ToolLosses ==
  ASSUME NEW p, NEW r
  PROVE  /\ Losing(ToolNotes(p, r)) /\ Losing(ArgumentNotes(p, r))
         /\ Losing(ChoiceNotes(p, r))
  <1>1. Losing(ToolNotes(p, r)) BY Verbs, LosingWhen DEF ToolNotes, Losing
  <1>2. Losing(ArgumentNotes(p, r)) BY LosingWhen DEF ArgumentNotes
  <1>3. Losing(ChoiceNotes(p, r)) BY Verbs, LosingWhen DEF ChoiceNotes
  <1> QED BY <1>1, <1>2, <1>3

\* about parameters only one protocol has,
LEMMA SpecialLosses ==
  ASSUME NEW p, NEW f
  PROVE  Losing(OnlyInNotes(p, f)) /\ Losing(AudioOutNotes(p, f))
  <1>1. Losing(OnlyInNotes(p, f)) BY Verbs, LosingWhen DEF OnlyInNotes, Losing
  <1>2. Losing(AudioOutNotes(p, f)) BY Verbs, LosingWhen DEF AudioOutNotes
  <1> QED BY <1>1, <1>2

\* about blocks, one by one
LEMMA BlockLosses ==
  ASSUME NEW p, NEW b
  PROVE  Losing(BlockNotes(p, b))
  <1>1. Losing(ThoughtNotes(p, b))
    <2>1. \A n \in ThoughtNotes(p, b) :
             n \in {Dropped("redacted_thinking"), Dropped("empty_thinking_blocks"),
                    Dropped("thinking_signature")}
      <3>1. CASE Has(b, "redacted")
        BY <3>1, Verbs, LosingWhen DEF ThoughtNotes
      <3>2. CASE ~Has(b, "redacted")
        BY <3>2, Verbs, LosingWhen DEF ThoughtNotes
      <3> QED BY <3>1, <3>2
    <2> QED BY <2>1, Verbs DEF Losing
  <1>2. Losing(ImageNotes(p, b)) BY Verbs, LosingWhen DEF ImageNotes, Losing
  <1>3. Losing(MediaNotes(p, b))
    <2> DEFINE lost == Dropped(b.type \o "_blocks")
    <2>1. lost[1] # "filled" BY Verbs
    <2> HIDE DEF lost
    <2>2. \E one, two, three :
             \/ MediaNotes(p, b) \subseteq ImageNotes(p, b) \cup When(one, lost)
             \/ MediaNotes(p, b) \subseteq
                   ImageNotes(p, b) \cup (When(two, lost) \cup When(three, lost))
      BY DEF MediaNotes, lost
    <2> QED BY <1>2, <2>1, <2>2, LosingWhen DEF Losing
  <1>4. Losing(ProvenanceNotes(p, b))
    BY Verbs, LosingWhen DEF ProvenanceNotes, Losing
  <1> DEFINE cache == When(Has(b, "cache") /\ ~Can(p, "CacheControl"),
                           Dropped("cache_control"))
  <1>5. Losing(cache) BY Verbs, LosingWhen
  <1>6. \/ BlockNotes(p, b) = cache \cup ThoughtNotes(p, b)
        \/ BlockNotes(p, b) = cache \cup MediaNotes(p, b)
        \/ BlockNotes(p, b) = cache \cup ProvenanceNotes(p, b)
    BY DEF BlockNotes
  <1> HIDE DEF cache
  <1> QED BY <1>1, <1>3, <1>4, <1>5, <1>6 DEF Losing

\* and over the whole request.
LEMMA KindLosses ==
  ASSUME NEW p, NEW r
  PROVE  Losing(KindNotes(p, r)) /\ Losing(MarkNotes(p, r))
  <1>1. Losing(KindNotes(p, r))
    <2> DEFINE has(types) == \E b \in TopSet(r) : b.type \in types
               custom(type) == \E b \in TopSet(r) : b.type = type /\ Has(b, "custom")
               refused == ~Can(p, "Refusal") /\ has({"refusal"})
               flat == \E b \in TopSet(r) : FlattenedResult(p, b)
               served == p # "anthropic" /\ has(ServerToolTypes)
               upload == p # "anthropic" /\ has({"container_upload"})
               config == p # "anthropic"
                         /\ (\E b \in BlockSet(r) : IsMedia(b) /\ Has(b, "context"))
               calls == p \notin OpenAI /\ custom("tool_use")
               outputs == p # "responses" /\ custom("tool_result")
    <2>1. KindNotes(p, r) = UNION {
             When(refused, Rewrote("refusal_blocks")),
             When(flat, Dropped("tool_result_non-text_content")),
             When(served, Dropped("server_tool_blocks")),
             When(upload, Dropped("container_upload_blocks")),
             When(config, Dropped("document_config")),
             When(calls, Rewrote("custom_tool_calls")),
             When(outputs, Rewrote("custom_tool_outputs"))}
      BY DEF KindNotes
    <2> HIDE DEF refused, flat, served, upload, config, calls, outputs
    <2> QED BY <2>1, Verbs, LosingWhen DEF Losing
  <1>2. Losing(MarkNotes(p, r)) BY Verbs, LosingWhen DEF MarkNotes, Losing
  <1> QED BY <1>1, <1>2

\* Of the parameters, only the bound on all tokens is ever filled in,
LEMMA ParamFilled ==
  ASSUME NEW p, NEW f, NEW x
  PROVE  Filled(x) \in ParamNotes(p, f) <=>
            x = "max_tokens" /\ ~Has(f, "max_tokens") /\ Can(p, "RequiresMaxTokens")
  <1> DEFINE bound == When(~Has(f, "max_tokens") /\ Can(p, "RequiresMaxTokens"),
                           Filled("max_tokens"))
             ground == When(Get(f, "background", "no") = "yes",
                            Dropped("background"))
             store == When(Get(f, "store", "no") = "yes", Dropped("store"))
  <1>1. Losing(SwitchNotes(p, f)) BY Verbs DEF SwitchNotes, Losing
  <1>2. Losing(LogprobsNotes(p, f)) BY Verbs, LosingWhen DEF LogprobsNotes, Losing
  <1>3. Losing(TierNotes(p, f)) BY Verbs, LosingWhen DEF TierNotes
  <1>4. Losing(IdentityNotes(p, f)) BY Verbs, LosingWhen DEF IdentityNotes, Losing
  <1>5. Losing(FormatNotes(p, f)) BY Verbs, LosingWhen DEF FormatNotes, Losing
  <1>6. Losing(ground) /\ Losing(store) BY Verbs, LosingWhen
  <1>7. Filled(x) \in bound <=>
           x = "max_tokens" /\ ~Has(f, "max_tokens") /\ Can(p, "RequiresMaxTokens")
    BY Verbs DEF When
  <1>8. ParamNotes(p, f) =
           UNION {SwitchNotes(p, f), LogprobsNotes(p, f), TierNotes(p, f),
                  IdentityNotes(p, f), FormatNotes(p, f), ground, store, bound}
    BY DEF ParamNotes
  <1> HIDE DEF bound, ground, store
  <1> QED BY <1>1, <1>2, <1>3, <1>4, <1>5, <1>6, <1>7, <1>8, Verbs DEF Losing

\* and of thinking, how deep it goes.
LEMMA DepthFilled ==
  ASSUME NEW p, NEW r, NEW x
  PROVE  Filled(x) \in ThinkingNotes(p, r) <=> Filled(x) \in DepthNotes(p, r)
  <1> DEFINE f == r.params
             own == IF p = "responses" THEN {}
                    ELSE {Dropped(d) : d \in {"reasoning_summary_preference",
                             "reasoning_context_scope", "reasoning_mode"}
                             \cap DOMAIN f}
             shown == IF p = "anthropic" THEN {}
                      ELSE {Dropped(d) : d \in {"adaptive_thinking",
                               "thinking_display_preference"} \cap DOMAIN f}
             effort == When(p = "anthropic"
                            /\ Get(f, "thinking_effort", "low") \notin
                                  {"none", "low", "medium", "high", "xhigh", "max"},
                            Dropped("thinking_effort"))
  <1>1. Losing(own) /\ Losing(shown) BY Verbs DEF Losing
  <1>2. Losing(effort) BY Verbs, LosingWhen
  <1>3. ThinkingNotes(p, r) = UNION {DepthNotes(p, r), own, shown, effort}
    BY DEF ThinkingNotes
  <1> HIDE DEF own, shown, effort
  <1> QED BY <1>1, <1>2, <1>3, Verbs DEF Losing

\* Of what is told of a request only the bound and the depth are filled in:
\* lossy.go foresees them, shaping adds losses alone.
LEMMA ParamShapingLosses ==
  ASSUME NEW p, NEW r
  PROVE  Losing(ShapeParams(p, r).notes)
  <1> DEFINE budget  == ClampBudget(p, r.params)
             think   == DropThinking(p, budget.value, r.choice)
             sample  == DropSampling(p, think.value)
             heat    == ClampTemperature(p, sample.value)
             stops   == LimitStops(p, heat.value)
  <1>1. ShapeParams(p, r).notes = UNION {budget.notes, think.notes, sample.notes,
                                         heat.notes, stops.notes}
    BY DEF ShapeParams, Step
  <1>2. \A f : Losing(ClampBudget(p, f).notes)
    BY Verbs DEF ClampBudget, Losing
  <1>3. \A f, c : Losing(DropThinking(p, f, c).notes)
    BY Verbs DEF DropThinking, Losing
  <1>4. \A f : Losing(DropSampling(p, f).notes)
    BY Verbs DEF DropSampling, Losing
  <1>5. \A f : Losing(ClampTemperature(p, f).notes)
    BY Verbs DEF ClampTemperature, Losing
  <1>6. \A f : Losing(LimitStops(p, f).notes)
    BY Verbs DEF LimitStops, Losing
  <1>7. /\ Losing(budget.notes) /\ Losing(think.notes) /\ Losing(sample.notes)
        /\ Losing(heat.notes) /\ Losing(stops.notes)
    BY <1>2, <1>3, <1>4, <1>5, <1>6
  <1> HIDE DEF budget, think, sample, heat, stops
  <1> QED BY <1>1, <1>7 DEF Losing

LEMMA ToolShapingLosses ==
  ASSUME NEW p, NEW q, Has(q, "tools"), Has(q, "choice"), Declared(q.tools)
  PROVE  Losing(ShapeTools(p, q).notes)
  <1> DEFINE server == DropServerTools(p, q)
             allow  == EnforceToolAllowlist(server.req)
             schema == ShapeToolSchemas(p, allow.req)
             choice == ShapeToolChoice(schema.req)
  <1>1. ShapeTools(p, q).notes = UNION {server.notes, allow.notes, schema.notes,
                                        choice.notes}
    BY DEF ShapeTools, Step
  <1>2. Losing(server.notes)
    BY Verbs DEF DropServerTools, ServerToolNote, Step, Losing
  <1>3. \A x : Losing(EnforceToolAllowlist(x).notes)
    BY DEF EnforceToolAllowlist, Step, Losing
  <1>4. \A x : Losing(ShapeToolChoice(x).notes)
    BY Verbs DEF ShapeToolChoice, Step, Losing
  <1>5. Losing(schema.notes)
    <2>1. SameBut(q, server.req, {"tools"}) /\ Declared(server.req.tools)
      BY ServerToolsDropped
    <2>2. Has(server.req, "tools") /\ Has(server.req, "choice")
      <3>1. Has(server.req, "tools") BY FieldsStay DEF Has
      <3> HIDE DEF server
      <3> QED BY <2>1, <3>1 DEF SameBut, Has
    <2> HIDE DEF server
    <2>3. Declared(allow.req.tools) BY <2>1, <2>2, AllowlistEnforced
    <2> HIDE DEF allow
    <2>4. IsSequence(allow.req.tools) BY <2>3 DEF Declared
    <2> QED BY <2>4, SchemasCollected DEF SchemaSaid, Losing
  <1>6. Losing(allow.notes) /\ Losing(choice.notes) BY <1>3, <1>4
  <1> HIDE DEF server, allow, schema, choice
  <1> QED BY <1>1, <1>2, <1>5, <1>6 DEF Losing

LEMMA ShapingLosses ==
  ASSUME InFlight
  PROVE  Losing(ShapeRequest(target, req).notes)
  <1> DEFINE full   == EnsureNonEmptyMessages(req)
             media  == MoveToolResultMedia(target, full.req)
             tools  == ShapeTools(target, media.req)
             params == ShapeParams(target, tools.req)
             system == ShapeSystem(target, params.req)
             cache  == BudgetCache(target, system.req)
  <1>1. /\ ShapeRequest(target, req).notes
              = UNION {full.notes, media.notes, tools.notes, params.notes,
                       system.notes, cache.notes}
        /\ SameBut(req, media.req, {"messages"})
    BY RequestShaped DEF InFlight
  <1>2. Losing(full.notes) BY Verbs DEF EnsureNonEmptyMessages, Step, Losing
  <1>3. \A x : Losing(MoveToolResultMedia(target, x).notes)
    BY Verbs DEF MoveToolResultMedia, Step, Losing
  <1>4. \A x : Losing(ShapeSystem(target, x).notes)
    <2>1. \A b : Losing(SystemNote(b)) BY Verbs DEF SystemNote, Losing
    <2> QED BY <2>1 DEF ShapeSystem, Step, Losing
  <1>5. \A x : Losing(BudgetCache(target, x).notes)
    BY Verbs DEF BudgetCache, Step, Losing
  <1>6. Losing(tools.notes)
    <2>1. /\ Has(media.req, "tools") /\ Has(media.req, "choice")
          /\ Declared(media.req.tools)
      <3> HIDE DEF media
      <3> QED BY <1>1 DEF SameBut, InFlight, Whole, Has
    <2> HIDE DEF media
    <2> QED BY <2>1, ToolShapingLosses
  <1>7. Losing(params.notes) BY ParamShapingLosses
  <1>8. Losing(media.notes) /\ Losing(system.notes) /\ Losing(cache.notes)
    BY <1>3, <1>4, <1>5
  <1> HIDE DEF full, media, tools, params, system, cache
  <1> QED BY <1>1, <1>2, <1>6, <1>7, <1>8 DEF Losing

LEMMA FilledIsForeseen ==
  ASSUME InFlight, NEW x
  PROVE  Said("filled", x) <=>
            \/ x = "max_tokens" /\ ~Has(req.params, "max_tokens")
               /\ Can(target, "RequiresMaxTokens")
            \/ Filled(x) \in DepthNotes(target, req)
  <1> DEFINE blocks == AllBlocks(req)
             about == UNION {BlockNotes(target, blocks[i]) : i \in DOMAIN blocks}
             shaping == ShapeRequest(target, req).notes
             tools == ToolNotes(target, req)
             arguments == ArgumentNotes(target, req)
             params == ParamNotes(target, req.params)
             special == OnlyInNotes(target, req.params)
             audio == AudioOutNotes(target, req.params)
             choice == ChoiceNotes(target, req)
             think == ThinkingNotes(target, req)
             kinds == KindNotes(target, req)
             marks == MarkNotes(target, req)
  <1>1. notes = (UNION {tools, arguments, params, special, audio, choice, think,
                        kinds, marks, about}) \cup shaping
    BY DEF InFlight, NotesOf, DescribeLossy
  <1>2. /\ Losing(tools) /\ Losing(arguments) /\ Losing(special) /\ Losing(audio)
        /\ Losing(choice) /\ Losing(kinds) /\ Losing(marks) /\ Losing(shaping)
    BY ToolLosses, SpecialLosses, KindLosses, ShapingLosses
  <1>3. Losing(about) BY BlockLosses DEF Losing
  <1>4. /\ Filled(x) \in params <=>
              x = "max_tokens" /\ ~Has(req.params, "max_tokens")
              /\ Can(target, "RequiresMaxTokens")
        /\ Filled(x) \in think <=> Filled(x) \in DepthNotes(target, req)
    BY ParamFilled, DepthFilled
  <1> HIDE DEF about, shaping, tools, arguments, params, special, audio, choice,
               think, kinds, marks
  <1>5. Filled(x) \in notes <=> Filled(x) \in params \/ Filled(x) \in think
    <2>1. \A s : Losing(s) => Filled(x) \notin s BY Verbs DEF Losing
    <2>2. /\ Filled(x) \notin tools /\ Filled(x) \notin arguments
          /\ Filled(x) \notin special /\ Filled(x) \notin audio
          /\ Filled(x) \notin choice /\ Filled(x) \notin kinds
          /\ Filled(x) \notin marks /\ Filled(x) \notin shaping
          /\ Filled(x) \notin about
      BY <1>2, <1>3, <2>1
    <2> DEFINE n == Filled(x)
               losses == UNION {tools, arguments, params, special, audio, choice,
                                think, kinds, marks, about}
    <2>3. /\ n \notin tools /\ n \notin arguments /\ n \notin special
          /\ n \notin audio /\ n \notin choice /\ n \notin kinds
          /\ n \notin marks /\ n \notin shaping /\ n \notin about
      BY <2>2
    <2>4. notes = losses \cup shaping BY <1>1
    <2> HIDE DEF n
    <2>5. n \in losses
          <=> \/ n \in tools \/ n \in arguments \/ n \in params \/ n \in special
              \/ n \in audio \/ n \in choice \/ n \in think \/ n \in kinds
              \/ n \in marks \/ n \in about
      OBVIOUS
    <2> HIDE DEF losses
    <2>6. n \in notes <=> n \in params \/ n \in think BY <2>3, <2>4, <2>5
    <2> QED BY <2>6 DEF n
  <1> QED BY <1>4, <1>5 DEF Said, Filled

\* Shaping takes thinking away as a whole, by the conditions of
\* ThinkingMustGo over the parameters as they came and the choice as it is
\* left, or leaves all of its settings; the bound on tokens stays.
LeftOf(p, f, g, choice) ==
    /\ "max_tokens" \in DOMAIN g <=> "max_tokens" \in DOMAIN f
    /\ ThinkingMustGo(p, f, choice) => \A d \in ThinkingDims : d \notin DOMAIN g
    /\ ~ThinkingMustGo(p, f, choice) =>
          /\ \A d \in ThinkingDims : d \in DOMAIN g <=> d \in DOMAIN f
          /\ ThinkingOn(g) <=> ThinkingOn(f)

LEMMA ParamsLeft ==
  ASSUME NEW p, NEW r, Has(r, "params")
  PROVE  LeftOf(p, r.params, ShapeParams(p, r).req.params, r.choice)
  <1> DEFINE f == r.params
             c == r.choice
             budget  == ClampBudget(p, f)
             think   == DropThinking(p, budget.value, c)
             sample  == DropSampling(p, think.value)
             heat    == ClampTemperature(p, sample.value)
             stops   == LimitStops(p, heat.value)
             s == ShapeParams(p, r)
             b == budget.value
             t == think.value
             g == s.req.params
  <1>1. g = stops.value
    <2>1. s.req = [r EXCEPT !.params = stops.value] BY DEF ShapeParams, Step
    <2> HIDE DEF s, stops
    <2> QED BY <2>1 DEF Has
  <1>2. /\ SameBut(f, b, ShapedBudget)
        /\ "thinking_budget" \in DOMAIN f <=> "thinking_budget" \in DOMAIN b
    BY BudgetClamped
  <1>3. t = IF ThinkingMustGo(p, b, c) THEN Without(b, ThinkingDims) ELSE b
    BY DEF DropThinking
  <1>4. SameBut(t, sample.value, ShapedSampling) BY SamplingDropped
  <1>5. SameBut(sample.value, heat.value, {"temperature"}) BY TemperatureClamped
  <1>6. SameBut(heat.value, stops.value, ShapedStops) BY StopsLimited
  <1> HIDE DEF budget, think, sample, heat, stops, s, f, c, b, t, g
  <1>7. SameBut(t, g, OtherShaped)
    BY <1>1, <1>4, <1>5, <1>6 DEF SameBut, OtherShaped, ShapedSampling, ShapedStops
  <1>8. \A d \in ThinkingDims \cup {"max_tokens"} : d \notin OtherShaped
    BY DEF OtherShaped, ShapedSampling, ShapedStops, ThinkingDims
  <1>9. /\ "thinking" \in ThinkingDims /\ "max_tokens" \notin ThinkingDims
        /\ "thinking" \notin ShapedBudget /\ "max_tokens" \notin ShapedBudget
    BY DEF ThinkingDims, ShapedBudget
  <1>10. \A d : d \in DOMAIN b <=> d \in DOMAIN f
    BY <1>2 DEF SameBut, ShapedBudget
  <1>11. ThinkingMustGo(p, b, c) <=> ThinkingMustGo(p, f, c)
    <2>1. ThinkingOn(b) <=> ThinkingOn(f)
      BY <1>2, <1>9 DEF SameBut, ThinkingOn, Get, Has
    <2>2. MaxTokensFor(p, b) = MaxTokensFor(p, f)
      BY <1>2, <1>9 DEF SameBut, MaxTokensFor, Get, Has
    <2> QED BY <2>1, <2>2 DEF ThinkingMustGo, NoRoomToThink
  <1>12. "max_tokens" \in DOMAIN g <=> "max_tokens" \in DOMAIN f
    <2>1. "max_tokens" \in DOMAIN t <=> "max_tokens" \in DOMAIN b
      BY <1>3, <1>9, Removed
    <2> QED BY <1>7, <1>8, <1>10, <2>1 DEF SameBut
  <1>13. ASSUME ThinkingMustGo(p, f, c)
         PROVE  \A d \in ThinkingDims : d \notin DOMAIN g
    <2>1. \A d \in ThinkingDims : d \notin DOMAIN t
      BY <1>3, <1>11, <1>13, Removed
    <2> QED BY <1>7, <1>8, <2>1 DEF SameBut
  <1>14. ASSUME ~ThinkingMustGo(p, f, c)
         PROVE  /\ \A d \in ThinkingDims : d \in DOMAIN g <=> d \in DOMAIN f
                /\ ThinkingOn(g) <=> ThinkingOn(f)
    <2>1. t = b BY <1>3, <1>11, <1>14
    <2>2. \A d \in ThinkingDims : d \in DOMAIN g <=> d \in DOMAIN f
      BY <1>7, <1>8, <1>10, <2>1 DEF SameBut
    <2>3. "thinking" \in DOMAIN f => g["thinking"] = f["thinking"]
      BY <1>2, <1>7, <1>8, <1>9, <2>1 DEF SameBut
    <2> QED BY <1>9, <2>2, <2>3 DEF ThinkingOn, Get, Has
  <1> QED BY <1>12, <1>13, <1>14 DEF LeftOf, f, g, c, s

LEMMA ThinkingLeft ==
  ASSUME InFlight
  PROVE  LeftOf(target, req.params, Shaped.params, Shaped.choice)
  <1> DEFINE full   == EnsureNonEmptyMessages(req)
             media  == MoveToolResultMedia(target, full.req)
             tools  == ShapeTools(target, media.req)
             params == ShapeParams(target, tools.req)
             system == ShapeSystem(target, params.req)
             t == tools.req
  <1>1. /\ SameBut(req, tools.req, {"messages", "tools", "choice"})
        /\ SameBut(tools.req, system.req, {"params", "system"})
        /\ SameBut(system.req, Shaped, {"tools", "system", "messages"})
        /\ Shaped.params = params.req.params
    BY RequestShaped DEF InFlight, Shaped
  <1>2. Has(t, "choice")
    <2>1. Has(media.req, "tools") /\ Has(media.req, "choice")
          /\ Declared(media.req.tools)
      <3>1. SameBut(req, media.req, {"messages"}) BY RequestShaped DEF InFlight
      <3> HIDE DEF media
      <3> QED BY <3>1 DEF SameBut, InFlight, Whole, Has
    <2> HIDE DEF media
    <2> QED BY <2>1, ToolsShaped
  <1> HIDE DEF tools, system
  <1>3. Has(t, "params") /\ t.params = req.params
    BY <1>1 DEF InFlight, Whole, SameBut, Has
  <1>4. Shaped.choice = t.choice BY <1>1, <1>2 DEF SameBut, Has
  <1>5. params.req.params = ShapeParams(target, t).req.params OBVIOUS
  <1> HIDE DEF params, t
  <1>6. LeftOf(target, t.params, ShapeParams(target, t).req.params, t.choice)
    BY <1>3, ParamsLeft
  <1> QED BY <1>1, <1>3, <1>4, <1>5, <1>6

\* What a body says of the bound on tokens and of how deep to think: the
\* bound where there is one or the protocol requires it, an effort for the
\* protocols that know efforts, and a budget for those that know budgets.
DepthSaid(p, g, w) ==
    /\ "max_tokens" \in DOMAIN w <=> p = "anthropic" \/ "max_tokens" \in DOMAIN g
    /\ "thinking_effort" \in DOMAIN w /\ "thinking_effort" \notin DOMAIN g
       <=> p \in OpenAI /\ ThinkingOn(g) /\ "thinking_effort" \notin DOMAIN g
    /\ "thinking_budget" \in DOMAIN w
       <=> /\ ThinkingOn(g)
           /\ p = "gemini" \/ (p = "anthropic" /\ ~Has(g, "adaptive_thinking"))

\* The dimensions in question.
DepthDims == {"max_tokens", "thinking_effort", "thinking_budget"}

\* An effort is said exactly where thinking is on.
LEMMA EffortSaid ==
  ASSUME NEW g
  PROVE  LET e == EncodeEffort(g) IN
         /\ \A d \in DOMAIN e : d \in {"thinking", "thinking_effort"}
         /\ "thinking_effort" \in DOMAIN e <=> ThinkingOn(g)
  <1> DEFINE e == EncodeEffort(g)
  <1>1. CASE ThinkingOn(g) BY <1>1, EffortEncoded
  <1>2. CASE ~ThinkingOn(g)
    <2>1. e = << >> \/ e = ("thinking" := "off") BY <1>2 DEF EncodeEffort
    <2> HIDE DEF e
    <2>2. "thinking_effort" \notin DOMAIN e BY <2>1, Single, Empty
    <2> QED BY <1>2, <2>2, EffortEncoded DEF e
  <1> QED BY <1>1, <1>2

LEMMA ChatDepthSaid ==
  ASSUME NEW g
  PROVE  DepthSaid("chat", g, EncodeChatParams(g))
  <1> DEFINE w == EncodeChatParams(g)
             plain == Keep(g, PlainInChat)
             tier  == MapServiceTier("chat", Get(g, "service_tier", "auto"))
             service == IF Has(g, "service_tier") /\ tier # NoTier
                        THEN "service_tier" := tier ELSE << >>
             modes == EncodeModalities(g)
             format == EncodeFormat(g)
             effort == EncodeEffort(g)
  <1>1. w = plain ++ service ++ modes ++ format ++ effort
    BY DEF EncodeChatParams, PlainInChat
  <1>2. /\ \A d \in DOMAIN service : d = "service_tier"
        /\ \A d \in DOMAIN modes : d = "modalities"
    BY Single, Empty DEF EncodeModalities
  <1>3. \A d \in DOMAIN format : d \in FormatDims BY FormatEncoded
  <1>4. /\ \A d \in DOMAIN effort : d \in {"thinking", "thinking_effort"}
        /\ "thinking_effort" \in DOMAIN effort <=> ThinkingOn(g)
    BY EffortSaid
  <1>5. \A d \in DepthDims : /\ d \notin FormatDims /\ d # "service_tier"
                             /\ d # "modalities"
                             /\ d \in PlainInChat <=> d = "max_tokens"
    BY DEF DepthDims, FormatDims, PlainInChat
  <1>6. \A d : d \in DOMAIN plain <=> d \in DOMAIN g /\ d \in PlainInChat
    BY Kept
  <1> HIDE DEF plain, service, modes, format, effort, w
  <1>7. \A d \in DepthDims : d \in DOMAIN w <=> \/ d = "max_tokens" /\ d \in DOMAIN g
                                                \/ d \in DOMAIN effort
    BY <1>1, <1>2, <1>3, <1>5, <1>6, Merged
  <1> QED BY <1>4, <1>7 DEF DepthSaid, DepthDims, OpenAI, w

LEMMA ResponsesDepthSaid ==
  ASSUME NEW g
  PROVE  DepthSaid("responses", g, EncodeResponsesParams(g))
  <1> DEFINE w == EncodeResponsesParams(g)
             plain == Keep(g, PlainInResponses)
             tier  == MapServiceTier("responses", Get(g, "service_tier", "auto"))
             service == IF Has(g, "service_tier") /\ tier # NoTier
                        THEN "service_tier" := tier ELSE << >>
             included == WithIncluded(g)
             top == EncodeTopLogprobs(g)
             format == EncodeFormat(g)
             reason == EncodeReasoning(g)
  <1>1. w = plain ++ service ++ included ++ top ++ format ++ reason
    BY DEF EncodeResponsesParams, PlainInResponses
  <1>2. /\ \A d \in DOMAIN service : d = "service_tier"
        /\ \A d \in DOMAIN included : d = "include"
        /\ \A d \in DOMAIN top : d = "top_logprobs"
    BY Single, Empty, Kept DEF WithIncluded, EncodeTopLogprobs
  <1>3. \A d \in DOMAIN format : d \in FormatDims BY FormatEncoded
  <1>4. /\ "max_tokens" \notin DOMAIN reason
        /\ "thinking_budget" \notin DOMAIN reason
        /\ "thinking_effort" \in DOMAIN reason <=> ThinkingOn(g)
    <2> DEFINE scope == Keep(g, ReasoningOnly)
               summary == "reasoning_summary_preference"
               asked == summary := Get(g, summary, "auto")
               own == Keep(g, {summary})
               off == "thinking" := "off"
               effort == EncodeEffort(g)
    <2>1. /\ ThinkingOn(g) => reason = scope ++ effort ++ asked
          /\ ~ThinkingOn(g) => reason = scope ++ off \/ reason = scope ++ own
      <3>1. ~(ThinkingOff(g) /\ ThinkingOn(g)) BY DEF ThinkingOff, ThinkingOn
      <3>2. CASE ThinkingOn(g)
        BY <3>1, <3>2 DEF EncodeReasoning, ReasoningOnly
      <3>3. CASE ThinkingOff(g)
        BY <3>1, <3>3 DEF EncodeReasoning, ReasoningOnly
      <3>4. CASE ~ThinkingOn(g) /\ ~ThinkingOff(g)
        BY <3>4 DEF EncodeReasoning, ReasoningOnly
      <3> QED BY <3>2, <3>3, <3>4
    <2>2. /\ \A d \in DOMAIN scope : d \in ReasoningOnly
          /\ \A d \in DOMAIN own : d = summary
      BY Kept
    <2>3. /\ \A d \in DOMAIN asked : d = summary
          /\ \A d \in DOMAIN off : d = "thinking"
      BY Single
    <2>4. /\ \A d \in DOMAIN effort : d \in {"thinking", "thinking_effort"}
          /\ "thinking_effort" \in DOMAIN effort <=> ThinkingOn(g)
      BY EffortSaid
    <2>5. \A d \in DepthDims : d \notin ReasoningOnly BY DEF DepthDims, ReasoningOnly
    <2> HIDE DEF reason, scope, asked, own, off, effort
    <2> QED BY <2>1, <2>2, <2>3, <2>4, <2>5, Merged DEF DepthDims
  <1>5. \A d \in DepthDims : /\ d \notin FormatDims /\ d # "service_tier"
                             /\ d # "include" /\ d # "top_logprobs"
                             /\ d \in PlainInResponses <=> d = "max_tokens"
    BY DEF DepthDims, FormatDims, PlainInResponses
  <1>6. \A d : d \in DOMAIN plain <=> d \in DOMAIN g /\ d \in PlainInResponses
    BY Kept
  <1> HIDE DEF plain, service, included, top, format, reason, w
  <1>7. \A d \in DepthDims : d \in DOMAIN w <=> \/ d = "max_tokens" /\ d \in DOMAIN g
                                                \/ d \in DOMAIN reason
    BY <1>1, <1>2, <1>3, <1>5, <1>6, Merged
  <1> QED BY <1>4, <1>7 DEF DepthSaid, DepthDims, OpenAI, w

LEMMA GeminiDepthSaid ==
  ASSUME NEW g
  PROVE  DepthSaid("gemini", g, EncodeGeminiParams(g))
  <1> DEFINE w == EncodeGeminiParams(g)
             plain == Keep(g, PlainInGemini)
             implied == IF Has(g, "top_logprobs") THEN "logprobs" := "yes" ELSE << >>
             think == EncodeGeminiThinking(g)
             format == EncodeGeminiFormat(g)
  <1>1. w = plain ++ implied ++ think ++ format
    BY DEF EncodeGeminiParams, PlainInGemini
  <1>2. \A d \in DOMAIN implied : d = "logprobs" BY Single, Empty
  <1>3. \A d \in DOMAIN format : d \in FormatDims
    BY Merged, Kept, Single, Empty DEF EncodeGeminiFormat, FormatDims
  <1>4. /\ \A d \in DOMAIN think : d \in {"thinking", "thinking_budget"}
        /\ "thinking_budget" \in DOMAIN think <=> ThinkingOn(g)
    <2>1. ~ThinkingOn(g) => think = << >> \/ think = ("thinking" := "off")
      BY DEF EncodeGeminiThinking
    <2> QED BY <2>1, GeminiThinkingEncoded, Single, Empty
  <1>5. \A d \in DepthDims : /\ d \notin FormatDims /\ d # "logprobs"
                             /\ d \in PlainInGemini <=> d = "max_tokens"
    BY DEF DepthDims, FormatDims, PlainInGemini
  <1>6. \A d : d \in DOMAIN plain <=> d \in DOMAIN g /\ d \in PlainInGemini
    BY Kept
  <1> HIDE DEF plain, implied, think, format, w
  <1>7. \A d \in DepthDims : d \in DOMAIN w <=> \/ d = "max_tokens" /\ d \in DOMAIN g
                                                \/ d \in DOMAIN think
    BY <1>1, <1>2, <1>3, <1>5, <1>6, Merged
  <1>8. /\ "max_tokens" \in DOMAIN w <=> "max_tokens" \in DOMAIN g
        /\ "thinking_effort" \notin DOMAIN w
        /\ "thinking_budget" \in DOMAIN w <=> ThinkingOn(g)
    BY <1>4, <1>7 DEF DepthDims
  <1> QED BY <1>8 DEF DepthSaid, OpenAI, w

LEMMA AnthropicDepthSaid ==
  ASSUME NEW g, NEW tools
  PROVE  DepthSaid("anthropic", g, EncodeAnthropicParams(g, tools))
  <1> DEFINE w == EncodeAnthropicParams(g, tools)
             most == MaxTokensFor("anthropic", g)
             think == EncodeAnthropicThinking(g, most)
             output == EncodeAnthropicOutput(g)
             identity == EncodeAnthropicIdentity(g)
             tier == MapServiceTier("anthropic", Get(g, "service_tier", "auto"))
             service == IF Has(g, "service_tier") /\ tier # NoTier
                        THEN "service_tier" := tier ELSE << >>
             parallel == IF Get(g, "parallel_tool_calls", "yes") = "no"
                            /\ tools # <<>>
                         THEN "parallel_tool_calls" := "no" ELSE << >>
             plain == Keep(g, PlainInAnthropic)
             bound == "max_tokens" := most
  <1>1. w = plain ++ bound ++ think ++ identity ++ output ++ service ++ parallel
    BY DEF EncodeAnthropicParams, PlainInAnthropic
  <1>2. /\ "max_tokens" \in DOMAIN w
        /\ "thinking_budget" \in DOMAIN w <=> "thinking_budget" \in DOMAIN think
    BY AnthropicSettingsEncoded
  <1>3. "thinking_effort" \in DOMAIN output => "thinking_effort" \in DOMAIN g
    <2>1. \E s, t : /\ \A d \in DOMAIN s : d \in FormatDims
                    /\ \A d \in DOMAIN t : d \in DOMAIN g
                    /\ output = s ++ t
      <3> DEFINE one == IF Get(g, "response_format", "absent") = "schema"
                           /\ Has(g, "response_format.schema")
                        THEN ("response_format.strict" := "strict")
                             ++ Keep(g, {"response_format", "response_format.schema"})
                        ELSE << >>
                 two == IF Get(g, "thinking_effort", "unset") \in AnthropicEfforts
                        THEN Keep(g, {"thinking_effort"}) ELSE << >>
      <3>1. output = one ++ two BY DEF EncodeAnthropicOutput
      <3>2. \A d \in DOMAIN one : d \in FormatDims
        BY Merged, Kept, Single, Empty DEF FormatDims
      <3>3. \A d \in DOMAIN two : d \in DOMAIN g BY Kept, Empty
      <3> HIDE DEF one, two, output
      <3> QED BY <3>1, <3>2, <3>3
    <2>2. "thinking_effort" \notin FormatDims BY DEF FormatDims
    <2> HIDE DEF output
    <2> QED BY <2>1, <2>2, Merged
  <1>4. /\ "thinking_effort" \notin DOMAIN bound
        /\ "thinking_effort" \notin DOMAIN identity
        /\ "thinking_effort" \notin DOMAIN service
        /\ "thinking_effort" \notin DOMAIN parallel
        /\ "thinking_effort" \notin DOMAIN plain
        /\ "thinking_effort" \notin DOMAIN think
    <2>1. "thinking_effort" \notin DOMAIN bound BY Single
    <2>2. "thinking_effort" \notin DOMAIN identity
      BY Kept DEF EncodeAnthropicIdentity, Has
    <2>3. "thinking_effort" \notin DOMAIN service BY Single, Empty
    <2>4. "thinking_effort" \notin DOMAIN parallel BY Single, Empty
    <2>5. "thinking_effort" \notin DOMAIN plain BY Kept DEF PlainInAnthropic
    <2>6. "thinking_effort" \notin DOMAIN think
      BY AnthropicThinkingEncoded DEF ThoughtInAnthropic
    <2> QED BY <2>1, <2>2, <2>3, <2>4, <2>5, <2>6
  <1>5. "thinking_budget" \in DOMAIN think
        <=> ThinkingOn(g) /\ ~Has(g, "adaptive_thinking")
    <2>1. CASE ThinkingOn(g) /\ ~Has(g, "adaptive_thinking")
      <3> DEFINE budget == IF Get(g, "thinking_budget", 0) > 0
                           THEN g["thinking_budget"]
                           ELSE AnthropicBudgetFor(
                                    Get(g, "thinking_effort", "unset"), most)
                 depth == "thinking_budget" := budget
                 own == Keep(g, {"thinking", "thinking_display_preference"})
      <3>1. think = depth ++ own
        BY <2>1 DEF EncodeAnthropicThinking, ThinkingOn, ThinkingOff
      <3>2. "thinking_budget" \in DOMAIN depth BY Single
      <3> HIDE DEF depth, own, think
      <3> QED BY <2>1, <3>1, <3>2, Merged
    <2>2. CASE ThinkingOn(g) /\ Has(g, "adaptive_thinking")
      <3>1. think = Keep(g, {"thinking", "adaptive_thinking",
                             "thinking_display_preference"})
        BY <2>2 DEF EncodeAnthropicThinking, ThinkingOn, ThinkingOff
      <3> HIDE DEF think
      <3> QED BY <2>2, <3>1, Kept
    <2>3. CASE ~ThinkingOn(g)
      <3>1. think = << >> \/ think = ("thinking" := "off")
        BY <2>3 DEF EncodeAnthropicThinking
      <3> HIDE DEF think
      <3> QED BY <2>3, <3>1, Single, Empty
    <2> QED BY <2>1, <2>2, <2>3
  <1> HIDE DEF plain, bound, think, most, identity, output, service, parallel, w
  <1>6. "thinking_effort" \in DOMAIN w => "thinking_effort" \in DOMAIN g
    BY <1>1, <1>3, <1>4, Merged
  <1> QED BY <1>2, <1>5, <1>6 DEF DepthSaid, OpenAI, w

LEMMA DepthSent ==
  ASSUME InFlight
  PROVE  DepthSaid(target, Shaped.params, wire.params)
  <1> DEFINE g == Shaped.params
             w == wire.params
  <1>1. wire = Encoded(target, Shaped) BY DEF InFlight, Shaped
  <1>2. CASE target = "anthropic"
    <2>1. w = EncodeAnthropicParams(g, Shaped.tools)
      BY <1>1, <1>2 DEF Encoded, EncodeAnthropic
    <2> HIDE DEF w, g
    <2>2. DepthSaid("anthropic", g, w) BY <2>1, AnthropicDepthSaid
    <2> QED BY <1>2, <2>2 DEF w, g
  <1>3. CASE target = "chat"
    <2>1. w = EncodeChatParams(g) BY <1>1, <1>3 DEF Encoded, EncodeChat
    <2> HIDE DEF w, g
    <2>2. DepthSaid("chat", g, w) BY <2>1, ChatDepthSaid
    <2> QED BY <1>3, <2>2 DEF w, g
  <1>4. CASE target = "responses"
    <2>1. w = EncodeResponsesParams(g) BY <1>1, <1>4 DEF Encoded, EncodeResponses
    <2> HIDE DEF w, g
    <2>2. DepthSaid("responses", g, w) BY <2>1, ResponsesDepthSaid
    <2> QED BY <1>4, <2>2 DEF w, g
  <1>5. CASE target = "gemini"
    <2>1. w = EncodeGeminiParams(g) BY <1>1, <1>5 DEF Encoded, EncodeGemini
    <2> HIDE DEF w, g
    <2>2. DepthSaid("gemini", g, w) BY <2>1, GeminiDepthSaid
    <2> QED BY <1>5, <2>2 DEF w, g
  <1> QED BY <1>2, <1>3, <1>4, <1>5 DEF InFlight, Protocols

\* Only an anthropic upstream requires a bound, and only there shaping may
\* take thinking away.
LEMMA OnlyAnthropicInsists ==
  ASSUME NEW p \in Protocols
  PROVE  /\ Can(p, "Thinking")
         /\ Can(p, "RequiresMaxTokens") <=> p = "anthropic"
         /\ \A f, choice : ThinkingMustGo(p, f, choice) => p = "anthropic"
  <1>1. CASE p = "anthropic"
    BY <1>1, TargetCan DEF AnthropicCaps
  <1>2. CASE p \in {"chat", "responses", "gemini"}
    <2>1. /\ Can(p, "Thinking") /\ ~Can(p, "RequiresMaxTokens")
          /\ ~Can(p, "ThinkingExcludesForcedTools")
      BY <1>2, TargetCan DEF ChatCaps, ResponsesCaps, GeminiCaps
    <2>2. Caps(p).MinThinkingBudget = 0
      BY <1>2 DEF Caps, ChatCaps, ResponsesCaps, GeminiCaps
    <2> QED BY <1>2, <2>1, <2>2 DEF ThinkingMustGo, NoRoomToThink
  <1> QED BY <1>1, <1>2 DEF Protocols

\* What DepthNotes says is filled in.
LEMMA DepthForeseen ==
  ASSUME NEW p, NEW r
  PROVE  LET budget == Get(r.params, "thinking_budget", 0) > 0 IN
         /\ Filled("max_tokens") \notin DepthNotes(p, r)
         /\ Filled("thinking_effort") \in DepthNotes(p, r)
            <=> /\ ThinkingOn(r.params) /\ ~Has(r.params, "thinking_effort")
                /\ p \in OpenAI /\ ~budget
         /\ Filled("thinking_budget") \in DepthNotes(p, r)
            <=> /\ ~budget /\ ThinkingSurvivesShaping(p, r)
                /\ p = "gemini" \/ (p = "anthropic"
                                    /\ ~Has(r.params, "adaptive_thinking"))
  <1> DEFINE effort == Filled("thinking_effort")
             depth  == Filled("thinking_budget")
             most   == Filled("max_tokens")
             coarse == Rewrote("thinking_budget")
             budget == Get(r.params, "thinking_budget", 0) > 0
             one == /\ ThinkingOn(r.params) /\ ~Has(r.params, "thinking_effort")
                    /\ p \in OpenAI /\ budget
             two == /\ ThinkingOn(r.params) /\ ~Has(r.params, "thinking_effort")
                    /\ p \in OpenAI /\ ~budget
             three == /\ ~budget
                      /\ p = "gemini" \/ (p = "anthropic"
                                          /\ ~Has(r.params, "adaptive_thinking"))
                      /\ ThinkingSurvivesShaping(p, r)
  <1>1. /\ effort # depth /\ effort # most /\ depth # most
        /\ coarse # effort /\ coarse # depth /\ coarse # most
    BY Verbs
  <1>2. DepthNotes(p, r) = UNION {When(one, coarse), When(two, effort),
                                  When(three, depth)}
    BY DEF DepthNotes
  <1> HIDE DEF effort, depth, most, coarse, one, two, three
  <1>3. /\ most \notin DepthNotes(p, r)
        /\ effort \in DepthNotes(p, r) <=> two
        /\ depth \in DepthNotes(p, r) <=> three
    BY <1>1, <1>2 DEF When
  <1> QED BY <1>3 DEF effort, depth, most, two, three

LEMMA FilledInFlight ==
  ASSUME InFlight
  PROVE  FilledMeansInvented
  <1> DEFINE f == req.params
             g == Shaped.params
             w == wire.params
             c == Shaped.choice
             gone == ThinkingMustGo(target, f, c)
             takes == target = "gemini"
                      \/ (target = "anthropic" /\ ~Has(f, "adaptive_thinking"))
  <1>1. target \in Protocols BY DEF InFlight
  <1>2. /\ "max_tokens" \in DOMAIN g <=> "max_tokens" \in DOMAIN f
        /\ gone => \A d \in ThinkingDims : d \notin DOMAIN g
        /\ ~gone => /\ \A d \in ThinkingDims : d \in DOMAIN g <=> d \in DOMAIN f
                    /\ ThinkingOn(g) <=> ThinkingOn(f)
    BY ThinkingLeft DEF LeftOf
  <1>3. {"thinking", "thinking_budget", "thinking_effort", "adaptive_thinking"}
           \subseteq ThinkingDims
    BY DEF ThinkingDims
  <1>4. /\ "max_tokens" \in DOMAIN w
           <=> target = "anthropic" \/ "max_tokens" \in DOMAIN g
        /\ "thinking_effort" \in DOMAIN w /\ "thinking_effort" \notin DOMAIN g
           <=> target \in OpenAI /\ ThinkingOn(g) /\ "thinking_effort" \notin DOMAIN g
        /\ "thinking_budget" \in DOMAIN w
           <=> /\ ThinkingOn(g)
               /\ target = "gemini" \/ (target = "anthropic"
                                        /\ ~Has(g, "adaptive_thinking"))
    BY DepthSent DEF DepthSaid
  <1>5. Get(f, "thinking_budget", 0) > 0 <=> Has(f, "thinking_budget")
    BY DEF InFlight, Understood, GivenIn, Get, Has
  <1>6. gone => target = "anthropic" /\ ~ThinkingOn(g)
    <2>1. gone => target = "anthropic" BY <1>1, OnlyAnthropicInsists
    <2>2. gone => "thinking" \notin DOMAIN g BY <1>2, <1>3
    <2> HIDE DEF g, gone
    <2> QED BY <2>1, <2>2 DEF ThinkingOn, Get, Has
  <1>7. target \in OpenAI => target # "anthropic" BY DEF OpenAI
  <1>8. Said("filled", "max_tokens") <=> Invented("max_tokens")
    <2>1. Said("filled", "max_tokens") <=> ~Has(f, "max_tokens") /\ target = "anthropic"
      BY <1>1, FilledIsForeseen, DepthForeseen, OnlyAnthropicInsists
    <2> HIDE DEF f, g, w, c, gone
    <2>2. "max_tokens" \in DOMAIN w /\ "max_tokens" \notin DOMAIN f
          <=> target = "anthropic" /\ "max_tokens" \notin DOMAIN f
      BY <1>2, <1>4
    <2> QED BY <2>1, <2>2 DEF Invented, Has, f, w
  <1>9. Said("filled", "thinking_effort")
        <=> Invented("thinking_effort") /\ ~Has(req.params, "thinking_budget")
    <2>1. Said("filled", "thinking_effort")
          <=> /\ ThinkingOn(f) /\ ~Has(f, "thinking_effort")
              /\ target \in OpenAI /\ ~Has(f, "thinking_budget")
      BY <1>5, FilledIsForeseen, DepthForeseen
    <2> HIDE DEF f, g, w, c, gone
    <2>2. "thinking_effort" \in DOMAIN w /\ "thinking_effort" \notin DOMAIN f
          <=> target \in OpenAI /\ ThinkingOn(f) /\ "thinking_effort" \notin DOMAIN f
      <3>1. CASE gone BY <1>2, <1>3, <1>4, <1>6, <1>7, <3>1
      <3>2. CASE ~gone BY <1>2, <1>3, <1>4, <3>2
      <3> QED BY <3>1, <3>2
    <2> QED BY <2>1, <2>2 DEF Invented, Has, f, w
  <1>10. ForceTakenBack
         \/ (Said("filled", "thinking_budget") <=> Invented("thinking_budget"))
    <2> SUFFICES ASSUME ~ForceTakenBack
                 PROVE  Said("filled", "thinking_budget")
                        <=> Invented("thinking_budget")
      OBVIOUS
    <2>1. Forced(req.choice) <=> Forced(c)
      <3>1. Forced(req.choice) => Forced(c) BY DEF ForceTakenBack, Shaped
      <3>2. c \in {req.choice, NoChoice, [mode |-> "auto"]} BY ChoiceShapedFits
      <3>3. ~Forced(NoChoice) /\ ~Forced([mode |-> "auto"])
        BY DEF Forced, NoChoice
      <3> HIDE DEF c
      <3> QED BY <3>1, <3>2, <3>3
    <2>2. ThinkingSurvivesShaping(target, req) <=> ThinkingOn(f) /\ ~gone
      BY <1>1, <2>1, OnlyAnthropicInsists
         DEF ThinkingSurvivesShaping, ThinkingMustGo
    <2>3. Said("filled", "thinking_budget")
          <=> ~Has(f, "thinking_budget") /\ takes /\ ThinkingOn(f) /\ ~gone
      BY <1>5, <2>2, FilledIsForeseen, DepthForeseen
    <2> HIDE DEF f, g, w, c, gone
    <2>4. "thinking_budget" \in DOMAIN w <=> takes /\ ThinkingOn(f) /\ ~gone
      <3>1. CASE gone BY <1>4, <1>6, <3>1
      <3>2. CASE ~gone BY <1>2, <1>3, <1>4, <3>2 DEF Has
      <3> QED BY <3>1, <3>2
    <2> QED BY <2>3, <2>4 DEF Invented, Has, f, w
  <1> QED BY <1>8, <1>9, <1>10 DEF FilledMeansInvented

\* In every reachable state, for every body, what the client is told was
\* filled in is what the encoder made up, and the other way round: lossy.go
\* foresees from the request as it came what shaping leaves of thinking and
\* what four encoders then add (lossy.go describeThinkingModernLossy, the
\* encodeThinking functions).
THEOREM FilledIsTold == Spec => [](Sending => FilledMeansInvented)
  <1>1. ASSUME InvWay, Sending PROVE FilledMeansInvented
    BY <1>1, WayInFlight, FilledInFlight DEF Sending
  <1> QED BY <1>1, WayInvariance, PTL

=============================================================================
