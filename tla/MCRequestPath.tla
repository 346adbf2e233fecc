---------------------------- MODULE MCRequestPath ---------------------------
(***************************************************************************)
(* The bodies RequestPath is checked with: for every client protocol all   *)
(* combinations of the parameters that interact, all pairs of the others,  *)
(* conversations of every shape up to a length, and every kind of block    *)
(* with every set of its optional fields.                                  *)
(***************************************************************************)
EXTENDS RequestPath

(* A parameter that is absent, or has one of some values. *)
Maybe(d, values) == {<< >>} \cup {d :> v : v \in values}

(* Every way of joining one function of each set. *)
Join(F, G) == {f @@ g : f \in F, g \in G}

One(d, v) == {d :> v}

Hello == <<Message("user", <<Text("hello") @@ [tag |-> 1]>>)>>
HelloItem == <<MessageItem("user", <<Text("hello") @@ [tag |-> 1]>>)>>

Tool(name) == [name |-> name, schema |-> "object"]
Hosted == [name |-> "search", server |-> TRUE]

(* Declarations with the choices that go with them. *)
ToolSetups ==
    {[tools |-> <<>>, choice |-> NoChoice],
     [tools |-> <<>>, choice |-> [mode |-> "any"]],
     [tools |-> <<Tool("a")>>, choice |-> NoChoice],
     [tools |-> <<Tool("a")>>, choice |-> [mode |-> "any"]],
     [tools |-> <<Tool("a")>>, choice |-> [mode |-> "none"]],
     [tools |-> <<Hosted>>, choice |-> [mode |-> "any"]],
     [tools |-> <<Tool("a")>>, choice |-> [mode |-> "tool", name |-> "a"]],
     [tools |-> <<Tool("a")>>, choice |-> [mode |-> "tool", name |-> "z"]]}

Narrowed ==
    {[tools |-> t, choice |-> [mode |-> m, allowed |-> a]] :
        t \in {<<Tool("a"), Tool("b")>>, <<Hosted, Tool("a")>>, <<Hosted>>},
        m \in {"auto", "any"}, a \in {{"a"}, {"b"}, {"z"}}}

MarkedTools ==
    {[tools |-> <<("name" :> "a") @@ f, Hosted>>, choice |-> NoChoice] :
        f \in Join(Maybe("schema", {"object", "untyped", "foreign", "invalid"}),
                   Join(Maybe("strict", {TRUE}),
                        Join(Maybe("modifiers", {TRUE}), Maybe("cache", {TRUE}))))}

Typed == [tools |-> <<Tool("a")>>, choice |-> [mode |-> "typed"]]
NamedTools(modes) ==
    {[tools |-> <<Tool("a"), Tool("get:weather")>>,
      choice |-> [mode |-> m, name |-> n]] :
        m \in modes, n \in {"a", "z", "get:weather"}}

(* A list of allowed tools, one of whose names has to be repaired. *)
RenamedAllowlist ==
    {[tools |-> <<Tool("get:weather"), Tool("a")>>,
      choice |-> [mode |-> m, allowed |-> {"get:weather", "a"}]] :
        m \in {"auto", "any"}}

Body(client, params, setup, messages) ==
    [client |-> client,
     raw |-> [params |-> params, system |-> <<>>, messages |-> messages] @@ setup]

Plain == [tools |-> <<>>, choice |-> NoChoice]

-----------------------------------------------------------------------------
(* Anthropic parameters *)

AnthropicThinking ==
    {<< >>, "thinking" :> "disabled"}
    \cup Join(One("thinking", "adaptive"), Maybe("display", {"yes"}))
    \cup Join(One("thinking", "enabled"),
              Join(Maybe("budget_tokens", {500, 2000, 6000}), Maybe("display", {"yes"})))

AnthropicDepth ==
    Join(AnthropicThinking,
         Join(Maybe("max_tokens", {1000, 5000}),
              Join(Maybe("effort", {"low", "max"}), Maybe("temperature", {5}))))

(* What the documentation of the protocol rules out and the codec takes,   *)
(* adaptive thinking with a budget and no effort at all, and a bound that  *)
(* leaves no budget below it.                                              *)
AnthropicOdd ==
    Join(One("thinking", "adaptive"),
         Join(Maybe("budget_tokens", {500, 2000, 6000}),
              Join(Maybe("effort", {"none", "low"}),
                   Maybe("max_tokens", {1, 1000, 5000}))))
    \cup {("thinking" :> "enabled") @@ ("effort" :> "none")}

AnthropicOthers ==
    {<<"top_p", 9>>, <<"top_k", 4>>, <<"stop_sequences", 1>>,
     <<"stop_sequences", 6>>, <<"user_id", "u">>, <<"cache_control", "yes">>,
     <<"inference_geo", "eu">>, <<"container", "c">>,
     <<"service_tier", "auto">>, <<"service_tier", "standard_only">>,
     <<"mcp_servers", "given">>, <<"mcp_servers", "empty">>,
     <<"context_management", "given">>, <<"diagnostics", "given">>,
     <<"disable_parallel_tool_use", "yes">>, <<"output_format", "schema">>,
     <<"thinking", "enabled">>}

(* Chat parameters *)

ChatDepth ==
    Join(Maybe("reasoning_effort", {"none", "minimal", "high"}),
         Join(Maybe("max_completion_tokens", {1000, 5000}),
              Maybe("temperature", {5, 15})))

ChatOthers ==
    {<<"top_p", 9>>, <<"presence_penalty", 1>>, <<"frequency_penalty", 1>>,
     <<"seed", 7>>, <<"n", 2>>, <<"logprobs", "yes">>, <<"logprobs", "no">>,
     <<"top_logprobs", 3>>, <<"logit_bias", "b">>, <<"service_tier", "ultrafast">>,
     <<"service_tier", "default">>, <<"prompt_cache_key", "k">>,
     <<"parallel_tool_calls", "no">>, <<"parallel_tool_calls", "yes">>,
     <<"store", "yes">>, <<"verbosity", "low">>, <<"safety_identifier", "s">>,
     <<"moderation", "m">>, <<"prompt_cache_options", "o">>,
     <<"prompt_cache_retention", "24h">>, <<"modalities", {"text", "audio"}>>,
     <<"modalities", {"text", "video"}>>, <<"audio", "voice">>,
     <<"prediction", "p">>, <<"web_search_options", "w">>,
     <<"web_search_options", "empty">>, <<"metadata", "kv">>,
     <<"include_obfuscation", "yes">>, <<"stop", 1>>, <<"stop", 6>>,
     <<"user", "u">>, <<"max_tokens", 5000>>, <<"reasoning_effort", "low">>}

Formats ==
    {"response_format" :> "json", "response_format" :> "text"}
    \cup Join(One("response_format", "schema"),
              Join(Maybe("response_format.schema", {"yes"}),
                   Join(Maybe("response_format.name", {"yes"}),
                        Join(Maybe("response_format.description", {"yes"}),
                             Maybe("response_format.strict",
                                   {"strict", "lenient"})))))

(* Responses parameters *)

ResponsesDepth ==
    Join(Maybe("reasoning_effort", {"none", "minimal", "xhigh"}),
         Join(Maybe("max_output_tokens", {1000, 5000}),
              Join(Maybe("summary", {"detailed"}),
                   Join(Maybe("reasoning_context_scope", {"yes"}),
                        Maybe("temperature", {5})))))

ResponsesOthers ==
    {<<"top_p", 9>>, <<"include", {"x"}>>, <<"background", "yes">>,
     <<"background", "no">>, <<"store", "yes">>, <<"truncation", "auto">>,
     <<"max_tool_calls", 3>>, <<"access_programs", "given">>,
     <<"access_programs", "empty">>, <<"include_obfuscation", "yes">>,
     <<"metadata", "kv">>, <<"service_tier", "ultrafast">>,
     <<"prompt_cache_key", "k">>, <<"safety_identifier", "s">>,
     <<"moderation", "m">>, <<"prompt_cache_options", "o">>,
     <<"prompt_cache_retention", "24h">>, <<"parallel_tool_calls", "no">>,
     <<"top_logprobs", 3>>, <<"verbosity", "low">>, <<"user", "u">>,
     <<"generate_summary", "auto">>, <<"reasoning_mode", "yes">>,
     <<"reasoning_effort", "low">>, <<"previous_response_id", "r">>}

Pairs(others) ==
    {(x[1] :> x[2]) @@ (y[1] :> y[2]) : x \in others, y \in others}

ParamBodies ==
    {Body("anthropic", f, s, Hello) : f \in AnthropicDepth, s \in ToolSetups}
    \cup {Body("anthropic", f, Plain, Hello) :
              f \in Pairs(AnthropicOthers) \cup AnthropicOdd}
    \cup {Body("chat", f, s, Hello) : f \in ChatDepth, s \in ToolSetups}
    \cup {Body("chat", f, Plain, Hello) : f \in Pairs(ChatOthers) \cup Formats}
    \cup {Body("responses", f, s, HelloItem) :
              f \in ResponsesDepth, s \in ToolSetups}
    \cup {Body("responses", f, Plain, HelloItem) :
              f \in Pairs(ResponsesOthers) \cup Formats}
    \cup {Body("anthropic", << >>, s, Hello) : s \in MarkedTools}
    \cup {Body("chat", << >>, s, Hello) :
              s \in MarkedTools \cup Narrowed \cup RenamedAllowlist
                    \cup NamedTools({"custom", "tool"})}
    \cup {Body("responses", << >>, s, HelloItem) :
              s \in MarkedTools \cup Narrowed \cup {Typed}
                    \cup NamedTools({"function", "custom", "tool"})}

-----------------------------------------------------------------------------
(* Conversations.  Every block has a tag of its own, from its place.       *)

TagBlocks(blocks, base) ==
    [j \in DOMAIN blocks |->
        [tag |-> base + 10 * j] @@
        (IF Has(blocks[j], "content")
         THEN [blocks[j] EXCEPT !.content =
                  [k \in DOMAIN @ |-> [tag |-> base + 10 * j + k] @@ @[k]]]
         ELSE blocks[j])]

TagItem(m, base) ==
    IF Has(m, "block")
    THEN [m EXCEPT !.block = TagBlocks(<<@>>, base)[1]]
    ELSE (IF m.role = "tool" THEN [tag |-> base + 90] ELSE << >>)
         @@ [f \in DOMAIN m \cap {"content", "reasoning", "refusal", "calls"} |->
               TagBlocks(m[f], base + (CASE f = "content" -> 0
                                         [] f = "reasoning" -> 30
                                         [] f = "refusal" -> 50
                                         [] f = "calls" -> 60))]
         @@ m

Tagged(messages) ==
    [i \in DOMAIN messages |-> TagItem(messages[i], 100 * i)]

Talk(n, turns) == {Tagged(c) : c \in [1 .. n -> turns]}

W == Text("w")
Trail == Text("w") @@ [trail |-> TRUE]
U == Message("user", <<W>>)
A == Message("assistant", <<W>>)
C(id) == ToolUse(id, "get:weather")
R(id) == ToolResult(id, <<W>>)
Calls(ids) == Message("assistant", [i \in DOMAIN ids |-> C(ids[i])])
Results(ids) == Message("user", [i \in DOMAIN ids |-> R(ids[i])])

(* What a turn can be: said, empty, blank, called, answered in or out of   *)
(* order, answered to nobody.                                              *)
Steps == {U, A, Calls(<<"1">>), Calls(<<"1", "2">>), Results(<<"1">>),
          Results(<<"2", "1">>)}
Odd == {Message("user", <<Text("")>>), Message("assistant", <<Trail>>),
        Message("assistant", <<W, Text(" ")>>), Message("assistant", <<>>),
        Message("user", <<R("x"), W>>), Message("user", <<Trail, R("1")>>),
        Message("user", <<Trail>>),
        Message("assistant", <<W, C("2"), Text("")>>)}

(* Calls and results without an id. *)
Nameless == {U, Calls(<<"">>), Calls(<<"", "1">>), Results(<<"">>),
             Results(<<"1", "">>)}

Declared ==
    {<<>>, <<Tool("get:weather"), Tool("a")>>, <<Tool("get:weather"), Tool("get/weather")>>,
     <<Tool(""), Tool("get_weather")>>}

NamedTalk ==
    {Tagged(<<U, Message("assistant", <<C("1"), ToolUse("2", name)>>),
              Results(<<"2", "1">>)>>) :
        name \in {"get_weather", "get/weather", "z"}}

AnthropicTalk ==
    {Body("anthropic", << >>, Plain, m) :
        m \in Talk(1, Steps \cup Odd) \cup Talk(2, Steps \cup Odd)
              \cup Talk(3, Nameless) \cup Talk(3, Steps \cup Odd) \cup Talk(4, Steps)
              \cup Talk(5, {U, Calls(<<"1", "2">>), Results(<<"2", "1">>)})}
    \cup {Body("anthropic", << >>, [tools |-> t, choice |-> c], m) :
              t \in Declared \ {<<>>}, m \in NamedTalk,
              c \in {NoChoice, [mode |-> "tool", name |-> "get:weather"],
                     [mode |-> "tool", name |-> "a"]}}
    \cup {Body("anthropic", << >>, Plain, <<>>)}

(* Chat messages: names, audio, refusals, free-text calls, failures that   *)
(* were written into the text.                                             *)
ChatTool(id, content) == Message("tool", content) @@ [id |-> id]
ChatTurns ==
    {U, U @@ [name |-> "ann"], A, A @@ [audio |-> "v"], Message("assistant", <<>>),
     Message("assistant", <<>>) @@ [audio |-> "v"],
     Message("assistant", <<W>>) @@ [refusal |-> <<[type |-> "refusal", text |-> "no"]>>],
     Message("assistant", <<>>)
        @@ [reasoning |-> <<[type |-> "thinking", text |-> "t"]>>,
            calls |-> <<C("1"), ToolUse("2", "z") @@ [custom |-> TRUE]>>],
     ChatTool("1", <<W>>),
     ChatTool("2", <<W @@ [errorPrefix |-> TRUE]>>) @@ [name |-> "f"],
     ChatTool("1", <<>>), ChatTool("2", <<Text("") @@ [errorPrefix |-> TRUE]>>)}

ChatTalk ==
    {Body("chat", << >>, Plain, m) :
        m \in Talk(1, ChatTurns) \cup Talk(2, ChatTurns) \cup Talk(3, ChatTurns)}

(* Items: identities, phases, reasoning with its ciphertext, free-text     *)
(* calls, outputs of any content.                                          *)
Items ==
    {MessageItem("user", <<W>>), MessageItem("user", <<W>>) @@ [id |-> "m1"],
     MessageItem("assistant", <<W>>) @@ [id |-> "m2", phase |-> "commentary"],
     MessageItem("assistant", <<[type |-> "refusal", text |-> "no"]>>),
     BlockItem("reasoning", [type |-> "thinking", text |-> "", sig |-> "responses",
                             codex |-> TRUE, item |-> "r1"]),
     BlockItem("reasoning", [type |-> "thinking", text |-> "t", channel |-> TRUE]),
     BlockItem("call", C("1") @@ [item |-> "c1", respCaller |-> TRUE]),
     BlockItem("call", ToolUse("2", "z") @@ [custom |-> TRUE]),
     BlockItem("output", R("1")),
     BlockItem("output", ToolResult("2", <<>>) @@ [custom |-> TRUE]),
     BlockItem("opaque", [type |-> "opaque"])}

ResponsesTalk ==
    {Body("responses", << >>, Plain, m) :
        m \in Talk(1, Items) \cup Talk(2, Items) \cup Talk(3, Items)}

-----------------------------------------------------------------------------
(* Blocks with every set of their optional fields, in every place they can *)
(* be: alone, after a text, in a result, in the system prompt.             *)

Payloads == {<< >>, "data" :> 1, "url" :> 1, "file" :> 1}
Kinds(kinds) == {<< >>} \cup {"kind" :> k : k \in kinds}

AnthropicMedia ==
    Join({[type |-> "image"]},
         Join(Payloads, Join(Kinds({"png", "bmp", "pdf"}),
              Join(Maybe("oversized", {TRUE}), Maybe("cache", {TRUE})))))
    \cup Join({[type |-> "document"]},
              Join(Payloads, Join(Kinds({"pdf", "txt"}),
                   Join(Maybe("context", {TRUE}), Maybe("name", {"n"})))))

ChatMedia ==
    Join({[type |-> "image"]},
         Join({"data" :> 1, "url" :> 1},
              Join(Kinds({"png", "bmp"}), Maybe("detail", {"high"}))))
    \cup Join({[type |-> "audio"]}, Join({"data" :> 1}, Kinds({"wav", "flac"})))
    \cup Join({[type |-> "file"]},
              Join(Payloads, Join(Kinds({"png", "pdf", "mp4"}), Maybe("name", {"n"}))))

ResponsesMedia ==
    ChatMedia
    \cup Join({[type |-> "image"]},
              Join({"file" :> 1, ("file" :> 1) @@ ("url" :> 1), << >>},
                   Join(Kinds({"png", "bmp"}), Maybe("detail", {"high"}))))

AnthropicAssistant ==
    {b @@ f : b \in {[type |-> "thinking", text |-> t] : t \in {"", "t"}},
              f \in Join(Maybe("sig", {"anthropic"}),
                         Join(Maybe("codex", {TRUE}), Maybe("cache", {TRUE})))}
    \cup {[type |-> "thinking", text |-> "", redacted |-> TRUE] @@ f :
              f \in Maybe("ciphertext", {TRUE})}
    \cup {[type |-> t] @@ f : t \in ServerToolTypes \cup {"container_upload", "new"},
                              f \in Maybe("cache", {TRUE})}

CallMarks ==
    Join(Maybe("caller", {TRUE}),
         Join(Maybe("malformed", {TRUE}), Maybe("cache", {TRUE})))
ResultMarks ==
    Join(Maybe("is_error", {TRUE}),
         Join(Maybe("toolset", {TRUE}), Maybe("cache", {TRUE})))

Answering(calls, results) ==
    Tagged(<<U, Message("assistant", calls), Message("user", results)>>)

AnthropicBlockTalk ==
    {Tagged(<<Message("user", <<b>>)>>) : b \in AnthropicMedia}
    \cup {Tagged(<<Message("user", <<W, b>>)>>) : b \in AnthropicMedia}
    \cup {Answering(<<C("1")>>, <<ToolResult("1", <<W, b>>)>>) :
              b \in AnthropicMedia \cup {[type |-> "new"]}}
    \cup {Answering(<<C("1")>>, <<ToolResult("1", <<b>>), W>>) : b \in AnthropicMedia}
    \cup {Tagged(<<U, Message("assistant", <<b>>)>>) : b \in AnthropicAssistant}
    \cup {Tagged(<<Message("assistant", <<b, W>>), U>>) : b \in AnthropicAssistant}
    \cup {Answering(<<C("1") @@ f>>, <<R("1") @@ g>>) :
              f \in CallMarks, g \in ResultMarks}

(* More cache breakpoints than the protocol allows. *)
Marked(b) == b @@ [cache |-> TRUE]
Breakpoints ==
    {[client |-> "anthropic",
      raw |-> [params |-> << >>, tools |-> t, choice |-> NoChoice,
               system |-> TagBlocks(s, 0),
               messages |-> Answering(<<Marked(C("1")), Marked(C("2"))>>, r)]] :
        t \in {<<>>, <<Marked(Tool("a"))>>, <<Marked(Tool("a")), Marked(Tool("b"))>>},
        s \in {<<>>, <<W, Marked(W)>>, <<Marked(Text("")), Marked(W)>>},
        r \in {<<R("1"), R("2")>>,
               <<Marked(ToolResult("1", <<W, Marked(W)>>)), R("2")>>,
               <<R("1"), Marked(R("2")), Marked(W)>>}}

ChatBlockTalk ==
    {Tagged(<<Message("user", <<b>>)>>) : b \in ChatMedia \cup {[type |-> "new"]}}
    \cup {Tagged(<<Message("system", <<W, b>>), U>>) : b \in ChatMedia}

ResponsesBlockTalk ==
    {Tagged(<<MessageItem("user", <<b>>)>>) :
        b \in ResponsesMedia \cup {[type |-> "new"]}}
    \cup {Tagged(<<BlockItem("call", C("1")),
                   BlockItem("output", ToolResult("1", <<W, b>>))>>) :
              b \in ResponsesMedia
                    \cup {[type |-> "new"], [type |-> "refusal", text |-> "no"]}}
    \cup {Tagged(<<MessageItem("system", <<W, b>>), MessageItem("user", <<W>>)>>) :
              b \in ResponsesMedia}

BlockBodies ==
    {Body("anthropic", << >>, Plain, m) : m \in AnthropicBlockTalk}
    \cup Breakpoints
    \cup {Body("chat", << >>, Plain, m) : m \in ChatBlockTalk}
    \cup {Body("responses", << >>, Plain, m) : m \in ResponsesBlockTalk}

TalkBodies == AnthropicTalk \cup ChatTalk \cup ResponsesTalk

AllBodies == ParamBodies \cup BlockBodies \cup TalkBodies
=============================================================================
