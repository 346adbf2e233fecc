------------------------------- MODULE Shaping ------------------------------
(***************************************************************************)
(* codec.ShapeRequest (backend/codec/shape.go): the adjustments one        *)
(* attempt makes to its own copy of the request, from what the target      *)
(* declares it can take.  Every step yields the request and the notes it   *)
(* adds; a note is kept for the first reason given for a field             *)
(* (noteCollector.put).                                                    *)
(***************************************************************************)
EXTENDS Requests

Step(req, notes) == [req |-> req, notes |-> notes]

(* noteCollector.put over a set of notes. *)
Collect(notes, more) ==
    notes \cup {n \in more : \A m \in notes : m[2] # n[2]}

-----------------------------------------------------------------------------
(* Messages *)

ConversationPlaceholder == "(continuing the conversation)"
AttachmentOmitted == "[attachment omitted]"

(* ensureNonEmptyMessages: no protocol accepts an empty conversation. *)
EnsureNonEmptyMessages(req) ==
    IF req.messages # <<>> THEN Step(req, {})
    ELSE Step([req EXCEPT !.messages =
                  <<Message("user", <<Text(ConversationPlaceholder)>>)>>],
              {Rewrote("messages")})

(* Mutant: only the pictures of a tool result are taken along. *)
NestedImages(b) ==
    IF b.type = "tool_result"
    THEN SelectSeq(b.content, LAMBDA c : c.type = "image") ELSE <<>>

NestedMedia(b) ==
    IF b.type = "tool_result" THEN SelectSeq(b.content, IsMedia) ELSE <<>>

WithoutNestedMedia(b) ==
    IF b.type = "tool_result"
    THEN [b EXCEPT !.content = SelectSeq(@, LAMBDA c : ~IsMedia(c))] ELSE b

(* moveToolResultMedia: where a tool result is text only, its media follow *)
(* in a user message of their own.                                         *)
MoveToolResultMedia(p, req) ==
    LET media(m) == FlattenSeq([i \in DOMAIN m.content |->
                                  NestedMedia(m.content[i])])
        split(m) ==
            LET kept == [m EXCEPT !.content =
                            [i \in DOMAIN @ |-> WithoutNestedMedia(@[i])]]
            IN IF media(m) = <<>> THEN <<m>>
               ELSE <<kept, Message("user", media(m))>>
    IN IF ~Can(p, "ToolResultTextOnly")
          \/ \A i \in DOMAIN req.messages : media(req.messages[i]) = <<>>
       THEN Step(req, {})
       ELSE Step([req EXCEPT !.messages =
                     FlattenSeq([i \in DOMAIN @ |-> split(@[i])])],
                 {Rewrote("tool_result_content")})

-----------------------------------------------------------------------------
(* Tools *)

ServerToolNote(t) == Dropped("tools[" \o t.name \o "]")

(* dropServerTools: only anthropic runs them. *)
DropServerTools(p, req) ==
    IF Can(p, "ServerTools") THEN Step(req, {})
    ELSE Step([req EXCEPT !.tools = Filter(@, LAMBDA t : ~Has(t, "server"))],
              {ServerToolNote(req.tools[i]) :
                  i \in {j \in DOMAIN req.tools : Has(req.tools[j], "server")}})

(* Mutant: the list is only enforced where the model may choose freely. *)
EnforceFreeAllowlist(req) ==
    IF ~AllowlistApplies(req.choice) \/ req.choice.mode = "any" THEN Step(req, {})
    ELSE IF AllowlistMatches(req)
         THEN Step([req EXCEPT !.tools = AllowlistNarrow(req)], {})
         ELSE Step(req, {<<"unenforced", "tool_choice.allowed_tools">>})

(* enforceToolAllowlist: remove what the client excluded, unless the list  *)
(* names no declared tool.                                                 *)
EnforceToolAllowlist(req) ==
    IF ~AllowlistApplies(req.choice) THEN Step(req, {})
    ELSE IF AllowlistMatches(req)
         THEN Step([req EXCEPT !.tools = AllowlistNarrow(req)], {})
         ELSE Step(req, {<<"unenforced", "tool_choice.allowed_tools">>})

(* shapeToolSchema: a schema is not JSON ("invalid"), declares no type     *)
(* ("untyped"), uses keywords of another dialect ("foreign"), was not      *)
(* given, or is fine ("object"); the dialect with an allow list is         *)
(* gemini's.                                                               *)
SchemaNotes(p, t) ==
    CASE Has(t, "server") -> {}
      [] Get(t, "schema", "absent") \in {"invalid", "untyped"} ->
            {Rewrote("tool_schema")}
      [] Get(t, "schema", "absent") = "foreign" /\ Can(p, "SchemaDialect") ->
            {Dropped("tool_schema")}
      [] OTHER -> {}

ShapeToolSchema(p, t) ==
    IF Has(t, "server") \/ (Get(t, "schema", "absent") = "foreign"
                            /\ ~Can(p, "SchemaDialect"))
    THEN t ELSE [schema |-> "object"] ++ t

ShapeToolSchemas(p, req) ==
    Step([req EXCEPT !.tools =
             [i \in DOMAIN @ |-> ShapeToolSchema(p, @[i])]],
         FoldLeft(LAMBDA notes, t : Collect(notes, SchemaNotes(p, t)),
                  {}, req.tools))

(* shapeToolChoice: no tools left, or a choice of an undeclared tool. *)
ShapeToolChoice(req) ==
    CASE req.choice = NoChoice -> Step(req, {})
      [] req.choice # NoChoice /\ req.tools = <<>> ->
            Step([req EXCEPT !.choice = NoChoice], {Dropped("tool_choice")})
      [] req.tools # <<>> /\ req.choice.mode = "tool"
         /\ \A i \in DOMAIN req.tools : req.tools[i].name # req.choice.name ->
            Step([req EXCEPT !.choice = [mode |-> "auto"]],
                 {Rewrote("tool_choice")})
      [] OTHER -> Step(req, {})

-----------------------------------------------------------------------------
(* Parameters *)

(* The budget is clamped below the bound on all tokens, then thinking      *)
(* leaves when too little room remains or when the tool call is forced.    *)
ClampBudget(p, params) ==
    LET most == MaxTokensFor(p, params)
        given == Get(params, "thinking_budget", 0)
    IN IF ThinkingOn(params) /\ Can(p, "Thinking")
          /\ most > 0 /\ given >= most
       THEN [value |-> [params EXCEPT !["thinking_budget"] = most - 1],
             notes |-> {Rewrote("thinking.budget_tokens")}]
       ELSE [value |-> params, notes |-> {}]

NoRoomToThink(p, params) ==
    /\ Caps(p).MinThinkingBudget > 0
    /\ MaxTokensFor(p, params) > 0
    /\ MaxTokensFor(p, params) - 1 < Caps(p).MinThinkingBudget

(* Mutant: forced tool choices do not exclude thinking. *)
ThinkingMayStay(p, params, choice) ==
    ThinkingOn(params) /\ Can(p, "Thinking") /\ NoRoomToThink(p, params)

ThinkingMustGo(p, params, choice) ==
    /\ ThinkingOn(params) /\ Can(p, "Thinking")
    /\ \/ NoRoomToThink(p, params)
       \/ Can(p, "ThinkingExcludesForcedTools") /\ Forced(choice)

DropThinking(p, params, choice) ==
    IF ThinkingMustGo(p, params, choice)
    THEN [value |-> Without(params, ThinkingDims),
          notes |-> {Dropped("thinking")}]
    ELSE [value |-> params, notes |-> {}]

DropSampling(p, params) ==
    IF ThinkingOn(params) /\ Can(p, "ThinkingExcludesSampling")
       /\ {"temperature", "top_p"} \cap DOMAIN params # {}
    THEN [value |-> Without(params, {"temperature", "top_p"}),
          notes |-> {Dropped("temperature/top_p")}]
    ELSE [value |-> params, notes |-> {}]

(* Temperatures are in tenths. *)
ClampTemperature(p, params) ==
    LET most == Caps(p).MaxTemperature IN
    CASE most > 0 /\ Get(params, "temperature", 0) > most ->
            [value |-> [params EXCEPT !["temperature"] = most],
             notes |-> {Rewrote("temperature")}]
      [] most > 0 /\ Get(params, "temperature", 0) < 0 ->
            [value |-> [params EXCEPT !["temperature"] = 0],
             notes |-> {Rewrote("temperature")}]
      [] OTHER -> [value |-> params, notes |-> {}]

(* The value of stop_sequences is how many there are. *)
LimitStops(p, params) ==
    LET most == Caps(p).MaxStopSequences IN
    IF most > 0 /\ Get(params, "stop_sequences", 0) > most
    THEN [value |-> [params EXCEPT !["stop_sequences"] = most],
          notes |-> {Dropped("stop_sequences")}]
    ELSE [value |-> params, notes |-> {}]

(* shapeParams: the budget before the removal of thinking, the removal     *)
(* before the sampling parameters it makes illegal.                        *)
ShapeParams(p, req) ==
    LET budget  == ClampBudget(p, req.params)
        think   == DropThinking(p, budget.value, req.choice)
        sample  == DropSampling(p, think.value)
        heat    == ClampTemperature(p, sample.value)
        stops   == LimitStops(p, heat.value)
    IN Step([req EXCEPT !.params = stops.value],
            UNION {budget.notes, think.notes, sample.notes, heat.notes,
                   stops.notes})

-----------------------------------------------------------------------------
(* System prompt and cache breakpoints *)

(* shapeSystem: empty texts go everywhere; where the prompt is plain text  *)
(* it becomes one block, with the last cache mark.  A field has but one    *)
(* possible note here, so none has to give way to an earlier one.          *)
SystemNote(b) ==
    CASE b.type = "text" -> {}
      [] IsMedia(b) -> {Rewrote("system_media")}
      [] OTHER -> {Dropped(b.type \o "_blocks_in_system")}

SystemText(b) ==
    CASE b.type = "text" -> <<b.text>>
      [] IsMedia(b) -> <<AttachmentOmitted>>
      [] OTHER -> <<>>

ShapeSystem(p, req) ==
    LET kept == SelectSeq(req.system,
                          LAMBDA b : ~(b.type = "text" /\ b.text = ""))
        texts == FlattenSeq([i \in DOMAIN kept |-> SystemText(kept[i])])
        marks == \E i \in DOMAIN kept : Has(kept[i], "cache")
        folded == [type |-> "text", text |-> "folded", parts |-> texts]
                  ++ (IF marks THEN [cache |-> TRUE] ELSE << >>)
    IN IF ~Can(p, "SystemAsText") \/ kept = <<>>
       THEN Step([req EXCEPT !.system = kept], {})
       ELSE Step([req EXCEPT !.system = IF texts = <<>> THEN <<>> ELSE <<folded>>],
                 UNION {SystemNote(kept[i]) : i \in DOMAIN kept})

(* collectCacheMarks: where the breakpoints are, in order: tools, system,  *)
(* then the messages with what a tool result nests.                        *)
Nested(b) == IF b.type = "tool_result" THEN b.content ELSE <<>>

BlockMarks(blocks, path) ==
    LET marked(list, here) ==
            SelectSeq([i \in DOMAIN list |-> <<here \o <<i>>, list[i]>>],
                      LAMBDA m : Has(m[2], "cache"))
        at(i) == marked(<<blocks[i]>>, path \o <<i>>)
                 \o marked(Nested(blocks[i]), path \o <<i, 0>>)
        all == FlattenSeq([i \in DOMAIN blocks |-> at(i)])
    IN [i \in DOMAIN all |-> all[i][1]]

CacheMarks(req) ==
    LET tools == SelectSeq([i \in DOMAIN req.tools |-> <<"tool", i>>],
                           LAMBDA m : Has(req.tools[m[2]], "cache"))
    IN tools \o BlockMarks(req.system, <<"system">>)
       \o FlattenSeq([i \in DOMAIN req.messages |->
                        BlockMarks(req.messages[i].content, <<"message", i>>)])

(* budgetCache: the earliest marks beyond the limit go. *)
BudgetCache(p, req) ==
    LET marks  == CacheMarks(req)
        excess == Len(marks) - Caps(p).CacheBreakpoints
        gone   == {marks[i] : i \in 1 .. excess}
        unmark(x, path) == IF path \in gone THEN Without(x, {"cache"}) ELSE x
        inner(x, path) ==
            IF x.type # "tool_result" THEN x
            ELSE [x EXCEPT !.content =
                     [j \in DOMAIN @ |-> unmark(@[j], path \o <<0, j>>)]]
        unmarkAll(blocks, path) ==
            [i \in DOMAIN blocks |->
                unmark(inner(blocks[i], path \o <<i>>), path \o <<i, 1>>)]
    IN IF Caps(p).CacheBreakpoints = 0 \/ excess <= 0 THEN Step(req, {})
       ELSE Step([req EXCEPT
                    !.tools    = [i \in DOMAIN @ |-> unmark(@[i], <<"tool", i>>)],
                    !.system   = unmarkAll(@, <<"system">>),
                    !.messages = [i \in DOMAIN @ |->
                        [@[i] EXCEPT !.content =
                            unmarkAll(@, <<"message", i>>)]]],
                 {Dropped("cache_control")})

-----------------------------------------------------------------------------
(* shapeTools, and ShapeRequest as a whole.  shapeToolIDs is left out: no  *)
(* protocol declares a length limit.                                       *)
ShapeTools(p, req) ==
    LET server == DropServerTools(p, req)
        allow  == EnforceToolAllowlist(server.req)
        schema == ShapeToolSchemas(p, allow.req)
        choice == ShapeToolChoice(schema.req)
    IN Step(choice.req, UNION {server.notes, allow.notes, schema.notes,
                               choice.notes})

ShapeRequest(p, req) ==
    LET full   == EnsureNonEmptyMessages(req)
        media  == MoveToolResultMedia(p, full.req)
        tools  == ShapeTools(p, media.req)
        params == ShapeParams(p, tools.req)
        system == ShapeSystem(p, params.req)
        cache  == BudgetCache(p, system.req)
    IN Step(cache.req, UNION {full.notes, media.notes, tools.notes,
                              params.notes, system.notes, cache.notes})
=============================================================================
