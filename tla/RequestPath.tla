----------------------------- MODULE RequestPath ----------------------------
(***************************************************************************)
(* The way of a request: decoded from the client's protocol, repaired once *)
(* (pipeline.go, Serve), then encoded anew for every target an attempt     *)
(* goes to (EncodeRequestLossy of the four codecs), with the notes that    *)
(* tell the client what was lost.                                          *)
(*                                                                         *)
(* An attempt shapes a copy, so what the next target is sent must not      *)
(* depend on the targets tried before; attempts may go to any target in    *)
(* any order.                                                              *)
(***************************************************************************)
EXTENDS AnthropicRequest, ResponsesRequest, GeminiRequest, Lossy, Sanitize

CONSTANT Bodies   \* the bodies of client requests: [client, raw]

(* What a field can hold, where it was given at all.  A count that is not  *)
(* positive and a list without members are taken for absent by every test  *)
(* of the code, so that they are not given here; an unknown kind of        *)
(* thinking or of format is refused by the codecs.                         *)
GivenIn(f, fields, values) == \A d \in DOMAIN f \cap fields : f[d] \in values

WellTyped(f) ==
    /\ GivenIn(f, {"max_tokens", "max_completion_tokens", "max_output_tokens",
                   "budget_tokens", "stop", "stop_sequences"}, Nat \ {0})
    /\ GivenIn(f, {"temperature"}, Int)
    /\ GivenIn(f, {"logprobs", "background", "store", "parallel_tool_calls"},
               {"yes", "no"})
    /\ GivenIn(f, {"thinking"}, {"enabled", "disabled", "adaptive"})
    /\ GivenIn(f, {"response_format"}, {"text", "json", "schema"})
    /\ GivenIn(f, {"response_format.strict"}, {"strict", "lenient"})
    /\ \A d \in DOMAIN f \cap {"modalities", "include"} : f[d] # {}

(* A tool has a name, if only the empty one, and a schema the dialects may *)
(* differ about.                                                           *)
WellFormedTool(t) ==
    Has(t, "name")
    /\ GivenIn(t, {"schema"}, {"object", "untyped", "foreign", "invalid"})

(* Where a choice is given it has a mode its protocol knows, and a name    *)
(* when it is about one tool; any other is refused (decodeToolChoice).     *)
ChoiceModes(client) ==
    {"auto", "any", "none", "tool"}
    \cup CASE client = "chat"      -> {"custom"}
           [] client = "responses" -> {"function", "custom", "typed"}
           [] OTHER                -> {}

WellFormedChoice(client, choice) ==
    \/ choice = NoChoice
    \/ /\ Has(choice, "mode") /\ choice.mode \in ChoiceModes(client)
       /\ choice.mode \in {"tool", "function", "custom"} => Has(choice, "name")
       /\ {"raw", "rawName"} \cap DOMAIN choice = {}

(* Another role or kind of item is refused too ("unknown role", chat and   *)
(* responses decode_request.go), or is kept as an opaque item.             *)
KnownMessage(client, m) ==
    CASE client = "chat" ->
            m.role \in {"system", "developer", "tool", "assistant", "user"}
      [] client = "responses" ->
            \/ m.item = "message"
               /\ m.role \in {"system", "developer", "assistant", "user"}
            \/ m.item \in {"call", "output", "reasoning", "opaque"}
      [] OTHER -> TRUE

IsSequence(s) == s \in Seq(ToSet(s))

ASSUME BodiesAssumption ==
    \A b \in Bodies :
        /\ b.client \in Clients /\ WellTyped(b.raw.params)
        /\ IsSequence(b.raw.tools) /\ IsSequence(b.raw.messages)
        /\ \A t \in ToSet(b.raw.tools) : WellFormedTool(t)
        /\ WellFormedChoice(b.client, b.raw.choice)
        /\ \A m \in ToSet(b.raw.messages) : KnownMessage(b.client, m)

VARIABLES
    body,      \* what the client sent
    stage,     \* "received", "refused", "decoded", "repaired" or "sent"
    decoded,   \* the request as the codec understood it
    req,       \* Call.Request: the same request, repaired in place
    repairs,   \* the notes of Sanitize
    target,    \* the protocol of the last attempt
    wire,      \* what that attempt sent
    notes      \* what the client is told about that attempt

vars == <<body, stage, decoded, req, repairs, target, wire, notes>>

Nothing == [params |-> << >>, tools |-> <<>>, choice |-> NoChoice,
            system |-> <<>>, messages |-> <<>>]

Init ==
    /\ body \in Bodies
    /\ stage = "received"
    /\ decoded = Nothing /\ req = Nothing /\ repairs = {}
    /\ target = "none" /\ wire = Nothing /\ notes = {}

Decoded(client, raw) ==
    CASE client = "anthropic" -> DecodeAnthropic(raw)
      [] client = "chat"      -> DecodeChat(raw)
      [] client = "responses" -> DecodeResponses(raw)

(* statefulFields: the responses codec refuses what needs stored state. *)
Decode ==
    /\ stage = "received"
    /\ IF body.client = "responses" /\ DOMAIN body.raw.params \cap StatefulDims # {}
       THEN stage' = "refused" /\ UNCHANGED decoded
       ELSE stage' = "decoded" /\ decoded' = Decoded(body.client, body.raw)
    /\ UNCHANGED <<body, req, repairs, target, wire, notes>>

(* Serve repairs the request before the first attempt, and never again. *)
Repair ==
    /\ stage = "decoded"
    /\ stage' = "repaired"
    /\ \E all \in {SanitizeRequest(decoded)} :
          req' = all.req /\ repairs' = all.notes
    /\ UNCHANGED <<body, decoded, target, wire, notes>>

Encoded(p, shaped) ==
    CASE p = "anthropic" -> EncodeAnthropic(shaped)
      [] p = "chat"      -> EncodeChat(shaped)
      [] p = "responses" -> EncodeResponses(shaped)
      [] p = "gemini"    -> EncodeGemini(shaped)

(* One attempt: EncodeRequestLossy on a copy. *)
Attempt ==
    /\ stage \in {"repaired", "sent"}
    /\ stage' = "sent"
    /\ target' \in Protocols \ {target}
    /\ \E shaped \in {ShapeRequest(target', req)} :
          /\ wire' = Encoded(target', shaped.req)
          /\ notes' = NotesOf(target', req, shaped)
    /\ UNCHANGED <<body, decoded, req, repairs>>

Next == Decode \/ Repair \/ Attempt

Spec == Init /\ [][Next]_vars

-----------------------------------------------------------------------------
(* What was sent, as one sequence of parts: messages, items, blocks and    *)
(* what tool results nest.                                                 *)

PartsOf(m) ==
    LET inner(b) == IF b.type = "tool_result" THEN <<b>> \o b.content ELSE <<b>>
        self == IF ~Has(m, "block") /\ m.role = "tool"
                THEN [type |-> "tool_result"] ++ m ELSE m
    IN IF Has(m, "block") THEN <<m.block>> \o Get(m.block, "content", <<>>)
       ELSE <<self>> \o FlattenSeq([i \in DOMAIN m.content |->
                                       inner(m.content[i])])

SentParts == FlattenSeq([i \in DOMAIN wire.messages |-> PartsOf(wire.messages[i])])
SentSet == ToSet(SentParts) \cup ToSet(wire.system)

(* The attempt fails before it is sent: a part cannot be encoded. *)
Unencodable == Error \in SentSet

Noted(names) == \E n \in notes : n[1] # "filled" /\ n[2] \in names
Said(verb, field) == <<verb, field>> \in notes

Sending == stage = "sent" /\ ~Unencodable

-----------------------------------------------------------------------------
(* Parameters *)

(* The fields of notes that speak for a dimension. *)
SpokenFor(d) ==
    {d} \cup (IF d \in {"temperature", "top_p"} THEN {"temperature/top_p"} ELSE {})
        \cup (IF d \in {"modalities", "audio"} THEN {"modalities/audio"} ELSE {})
        \cup (IF d \in ThinkingDims THEN {"thinking"} ELSE {})
        \cup (IF d = "thinking_budget" THEN {"thinking.budget_tokens"} ELSE {})
        \cup (IF d \in FormatDims THEN {"response_format"} ELSE {})

(* Dimensions that ask for nothing: defaults, empty containers, settings   *)
(* of thinking that is off, properties of a schema that is not there.  An  *)
(* effort of "none" is taken for thinking that was not asked for, and      *)
(* adaptive thinking has no budget (ir/types.go:657): both are left out    *)
(* for an anthropic upstream without a note.                               *)
AsksNothing(d, v) ==
    \/ d \in {"logprobs", "background", "store"} /\ v = "no"
    \/ d = "parallel_tool_calls" /\ (v = "yes" \/ req.tools = <<>>)
    \/ Void(d, v)
    \/ d \in ThinkingDims \ {"thinking"} /\ ~ThinkingOn(req.params)
    \/ d = "thinking_effort" /\ v = "none" /\ target = "anthropic"
    \/ d = "thinking_budget" /\ Has(req.params, "adaptive_thinking")
       /\ target = "anthropic"
    \/ d \in FormatDims \ {"response_format"}
       /\ ~Has(req.params, "response_format.schema")

(* The target understands the same thing. *)
Reaches(d, v) ==
    /\ Has(wire.params, d)
    /\ \/ wire.params[d] = v
       \/ d = "service_tier" /\ wire.params[d] = MapServiceTier(target, v)
       \/ d = "include" /\ v \subseteq wire.params[d]
       \/ d = "response_format" /\ ~Has(req.params, "response_format.schema")

(* How much to think is said as a budget or as an effort; either stands    *)
(* for the other once the client is told.                                  *)
DepthAccounted(d) ==
    /\ d \in {"thinking_budget", "thinking_effort"}
    /\ \/ Said("filled", "thinking_budget")
       \/ Noted(SpokenFor("thinking_budget"))
       \/ Reaches("thinking_budget", Get(req.params, "thinking_budget", 0))
       \/ Reaches("thinking_effort", Get(req.params, "thinking_effort", "unset"))

(* Every dimension the client gave reaches the upstream or is named by a   *)
(* note: the shaping, four encoders and the list of losses agree about     *)
(* every one of them (lossy.go:45-52 calls a silent loss a defect).        *)
ParamsAccounted ==
    Sending =>
        \A d \in DOMAIN req.params :
            LET v == req.params[d] IN
            AsksNothing(d, v) \/ Reaches(d, v) \/ Noted(SpokenFor(d))
            \/ DepthAccounted(d)

-----------------------------------------------------------------------------
(* What the client is told is true *)

ParamDims ==
    DOMAIN Switch \cup DOMAIN OnlyIn \cup ThinkingDims \cup FormatDims
    \cup {"logprobs", "user_id", "background", "store", "modalities",
          "temperature"}

(* The value of a dimension did not get through as it was given. *)
Missing(d) == Has(req.params, d) /\ ~Reaches(d, req.params[d])

(* A note names a dimension only if the client gave it and the upstream    *)
(* does not get it as given.                                               *)
LossesAreReal ==
    /\ \A d \in ParamDims \cap {n[2] : n \in notes} :
          Said("dropped", d) \/ Said("rewrote", d) => Missing(d)
    /\ Said("dropped", "temperature/top_p") =>
          Missing("temperature") \/ Missing("top_p")
    /\ Said("dropped", "modalities/audio") =>
          Missing("modalities") \/ Missing("audio")
    /\ Said("rewrote", "thinking.budget_tokens") => Missing("thinking_budget")

(* Shaping takes back a forced choice nobody declared a tool for, so that  *)
(* thinking stays; the notes do not foresee it (shape.go:349-364 asks them *)
(* to follow the conditions of shaping).                                   *)
ForceTakenBack ==
    Forced(req.choice) /\ ~Forced(ShapeRequest(target, req).req.choice)

Invented(d) == Has(wire.params, d) /\ ~Has(req.params, d)

(* A value is filled in exactly when the client is told so. *)
FilledMeansInvented ==
    /\ Said("filled", "max_tokens") <=> Invented("max_tokens")
    /\ ForceTakenBack
       \/ (Said("filled", "thinking_budget") <=> Invented("thinking_budget"))
    /\ Said("filled", "thinking_effort") <=>
          (Invented("thinking_effort") /\ ~Has(req.params, "thinking_budget"))

-----------------------------------------------------------------------------
(* Tools *)

SentTools == {wire.tools[i].name : i \in DOMAIN wire.tools}

ToolMarks == ("strict" := "strict_flag") ++ ("modifiers" := "tool_modifiers")
             ++ ("cache" := "tool_cache_breakpoints")

(* A declaration reaches the upstream with all its marks, or the client    *)
(* excluded it, or is told.                                                *)
ToolAccounted(t) ==
    \/ Has(t, "server") /\ ServerToolNote(t) \in notes
    \/ AllowlistApplies(req.choice) /\ ~Has(t, "server")
       /\ t.name \notin req.choice.allowed
    \/ \E i \in DOMAIN wire.tools :
          /\ wire.tools[i].name = t.name
          /\ \A mark \in DOMAIN ToolMarks \cap DOMAIN t :
                Has(wire.tools[i], mark) \/ Noted({ToolMarks[mark]})
                \/ (mark = "cache" /\ Noted({"cache_control"}))
          /\ Get(wire.tools[i], "schema", "absent") = Get(t, "schema", "absent")
             \/ Get(t, "schema", "absent") = "absent" \/ Noted({"tool_schema"})

(* A choice kept in the client's own words names the tool as it was before *)
(* the repair renamed it (applyToolRenames changes Name and not Raw).      *)
NamesAsGiven == Has(req.choice, "rawName") /\ req.choice.rawName # req.choice.name

ChoiceAccounted ==
    \/ req.choice = NoChoice \/ Noted({"tool_choice"})
    \/ /\ wire.choice.mode = req.choice.mode
       /\ req.choice.mode = "tool" =>
             NamesAsGiven \/ wire.choice.name = req.choice.name

(* The list of allowed tools holds, hosted tools aside, or is said not to. *)
AllowlistHolds ==
    \/ ~AllowlistApplies(req.choice) \/ Noted({"tool_choice.allowed_tools"})
    \/ \A i \in DOMAIN wire.tools :
          Has(wire.tools[i], "server") \/ wire.tools[i].name \in req.choice.allowed

(* Every tool and every restriction on tools reaches the upstream or is    *)
(* accounted for, through four shaping steps that each look at what the    *)
(* one before left.                                                        *)
ToolsAccounted ==
    Sending => /\ \A i \in DOMAIN req.tools : ToolAccounted(req.tools[i])
               /\ ChoiceAccounted
               /\ AllowlistHolds

-----------------------------------------------------------------------------
(* Blocks and what is attached to them.  A part of the wire came from the  *)
(* block with its tag.                                                     *)

(* Fields of a block, with the notes that can speak for each. *)
ContentMarkNotes ==
    ("cache" := {"cache_control"})
    ++ ("sig"        := {"thinking_signature"})
    ++ ("detail"     := {"image_detail"})
    ++ ("oversized"  := {"image_transformations"})
    ++ ("context"    := {"document_config"})
    ++ ("is_error"   := {"tool_result.is_error"})

OriginMarkNotes ==
    ("caller" := {"tool_call_caller/toolset_name"})
    ++ ("respCaller" := {"tool_call_caller/namespace/async"})
    ++ ("toolset"    := {"tool_result_toolset_name"})
    ++ ("custom"     := {"custom_tool_calls", "custom_tool_outputs"})
    ++ ("item"       := {"item_id"})
    ++ ("channel"    := {"reasoning_channel"})

BlockMarkNotes == ContentMarkNotes ++ OriginMarkNotes

(* The notes that say a whole block was left out or put in words. *)
KindNotesFor(b) ==
    CASE b.type = "thinking" ->
            {"redacted_thinking", "empty_thinking_blocks"}
            \cup (IF b.text = "" THEN {"thinking_signature"} ELSE {})
      [] IsMedia(b) ->
            {b.type \o "_blocks", "image_payload", "image_file_reference"}
      [] b.type = "refusal" -> {"refusal_blocks", "tool_result_non-text_content"}
      [] b.type = "opaque" -> {"tool_result_non-text_content"}
      [] b.type \in ServerToolTypes -> {"server_tool_blocks"}
      [] b.type = "container_upload" -> {"container_upload_blocks"}
      [] OTHER -> {}

(* A thought of no words and no ciphertext is nothing to lose. *)
Hollow(b) == b.type = "thinking" /\ b.text = "" /\ ~Has(b, "sig")
             /\ ~Has(b, "redacted")

SentAs(b, w) == Has(w, "tag") /\ w.tag = b.tag /\ w.type = b.type

(* A picture keeps its file name or the client is told, unless it is sent  *)
(* by a file id: its name is then taken for kept (lossy.go:688-694).       *)
NameAccounted(b, w) ==
    b.type = "image" /\ Has(b, "name") /\ HasPayload(b) =>
        Has(w, "name") \/ Noted({"image_filename"})

(* The marks that mean something: an order about too large pictures does   *)
(* on a picture only.  The anthropic encoder forgets it when the picture   *)
(* is named by a file id (encode_request.go:287-292).                      *)
MarksOf(b) ==
    (DOMAIN b \cap DOMAIN BlockMarkNotes)
    \ (IF b.type = "image" /\ (HasPayload(b) \/ target # "anthropic")
       THEN {} ELSE {"oversized"})

BlockAccounted(b) ==
    \/ Hollow(b) \/ Noted(KindNotesFor(b))
    \/ \E w \in SentSet :
          /\ SentAs(b, w) /\ NameAccounted(b, w)
          /\ \A mark \in MarksOf(b) :
                Has(w, mark) \/ Noted(BlockMarkNotes[mark])

(* Blocks with a place on the wire: not what becomes one text, and not the *)
(* refusals in a tool's result, which no note counts (lossy.go:2284-2293). *)
Placed ==
    LET all == AllBlocks([req EXCEPT !.system =
                             IF Can(target, "SystemAsText") THEN <<>> ELSE @])
        top == TopBlocks(req)
    IN {all[i] : i \in {j \in DOMAIN all :
                           /\ Has(all[j], "tag")
                           /\ all[j].type = "refusal" => Contains(top, all[j])}}

MessageMarks == ("name" := "message_sender_name")
                ++ ("audio" := "assistant_audio_references")
                ++ ("id"    := "item_id") ++ ("phase" := "message_phase")

(* Names of tool messages are decoded and never sent again. *)
MessageAccounted(m) ==
    OnlyToolResults(m.content)
    \/ \A mark \in DOMAIN m \cap DOMAIN MessageMarks :
          \/ Noted({MessageMarks[mark]})
          \/ \E i \in DOMAIN wire.messages :
                Get(wire.messages[i], mark, "none") = m[mark]

(* Every block of the conversation, every mark on it and every mark on a   *)
(* message reaches the upstream or is named by a note, in tool results and *)
(* after their media moved out of them too.  What the target cannot repeat *)
(* at all refuses the attempt.                                             *)
BlocksAccounted ==
    Sending => /\ \A b \in Placed :
                     (b.type = "text" /\ b.text = "") \/ BlockAccounted(b)
               /\ \A i \in DOMAIN req.messages : MessageAccounted(req.messages[i])

(* Notes about blocks, with the block each must be about.                  *)
Lost(b, mark) == ~\E w \in SentSet : SentAs(b, w) /\ Has(w, mark)
LostWhole(b)  == ~\E w \in SentSet : SentAs(b, w)

(* The responses encoder sends an image whatever its type, and the notes   *)
(* say it was put in words.                                                *)
SaidAnyway(b) == target = "responses" /\ b.type = "image" /\ HasPayload(b)
                 /\ ~AcceptsMedia("responses", b)

BlockLossesAreReal ==
    LET blocks == {AllBlocks(req)[i] : i \in DOMAIN AllBlocks(req)}
        tagged == {b \in blocks : Has(b, "tag")}
    IN /\ \A mark \in DOMAIN BlockMarkNotes \ {"cache", "custom", "item"} :
             Noted(BlockMarkNotes[mark]) =>
                 \E b \in tagged : Has(b, mark) /\ Lost(b, mark)
       /\ \A type \in MediaTypes :
             Said("dropped", type \o "_blocks") =>
                 \E b \in tagged : b.type = type /\ (LostWhole(b) \/ SaidAnyway(b))
       /\ \A name \in {"image_payload", "image_file_reference",
                       "redacted_thinking", "empty_thinking_blocks",
                       "server_tool_blocks", "container_upload_blocks",
                       "tool_result_non-text_content"} :
             Said("dropped", name) =>
                 \E b \in tagged : name \in KindNotesFor(b) /\ LostWhole(b)
       /\ Said("rewrapped", "tool_arguments")
             <=> \E w \in SentSet : Has(w, "rewrapped")

(* What the client is told is true: notes are made from the request and    *)
(* the capabilities alone, before shaping, and agree with what shaping and *)
(* the encoder then do.  A parameter said to be dropped does not get       *)
(* through, a value said to be filled in is, and some block really lost    *)
(* what a note about blocks names.                                         *)
NotesTruthful ==
    Sending => LossesAreReal /\ FilledMeansInvented /\ BlockLossesAreReal

-----------------------------------------------------------------------------
(* What the upstreams refuse *)

(* Calls and results in the order in which they are sent, with a mark      *)
(* where the user says something else.                                     *)
TraceOfBlock(role, b) ==
    CASE b.type = "tool_use"    -> <<<<"call", b.id>>>>
      [] b.type = "tool_result" -> <<<<"result", b.id>>>>
      [] OTHER -> IF role = "user" THEN <<<<"said", "">>>> ELSE <<>>

TraceOf(m) ==
    CASE Has(m, "block") -> TraceOfBlock("assistant", m.block)
      [] ~Has(m, "block") /\ m.role = "tool" -> <<<<"result", m.id>>>>
      [] OTHER -> FlattenSeq([i \in DOMAIN m.content |->
                                TraceOfBlock(m.role, m.content[i])])

Trace(messages) == FlattenSeq([i \in DOMAIN messages |-> TraceOf(messages[i])])

(* The calls of a turn are followed at once by their results, in the order *)
(* of the calls; there are no other results.                               *)
AnsweredInOrder(t) ==
    LET isCall(i) == i \in DOMAIN t /\ t[i][1] = "call"
        first(i) == CHOOSE a \in 1 .. i : (\A k \in a .. i : isCall(k))
                                          /\ ~isCall(a - 1)
        last(i)  == CHOOSE b \in i .. Len(t) : (\A k \in i .. b : isCall(k))
                                               /\ ~isCall(b + 1)
        answer(i) == i + last(i) - first(i) + 1
    IN /\ \A i \in DOMAIN t : isCall(i) =>
             answer(i) \in DOMAIN t /\ t[answer(i)] = <<"result", t[i][2]>>
       /\ Cardinality({i \in DOMAIN t : isCall(i)})
             = Cardinality({i \in DOMAIN t : t[i][1] = "result"})

(* Two calls with one id cannot be told apart, and the repair says so; a   *)
(* call without an id cannot be answered: its result becomes a text and,   *)
(* counted as an answer before that, the call stays (sanitize.go:158-168). *)
DistinctCalls(messages) ==
    Cardinality(SitesOf(messages, "tool_use")) = Cardinality(CallIds(messages))

Alternate(messages) ==
    \A i \in 2 .. Len(messages) :
        messages[i].role # messages[i - 1].role

CacheMarkCount ==
    Cardinality({i \in DOMAIN wire.tools : Has(wire.tools[i], "cache")})
    + Cardinality({i \in DOMAIN wire.system : Has(wire.system[i], "cache")})
    + Cardinality({i \in DOMAIN SentParts : Has(SentParts[i], "cache")})

ChoiceIsDeclared ==
    /\ wire.choice # NoChoice => wire.tools # <<>>
    /\ wire.choice.mode = "tool" => wire.choice.name \in SentTools

(* A budget the client itself gave below the minimum is not raised         *)
(* (shape.go:420 asks only whether the bound on all tokens leaves room).   *)
AnthropicThinks ==
    ThinkingOn(wire.params) =>
        /\ {"temperature", "top_p"} \cap DOMAIN wire.params = {}
        /\ ~Forced(wire.choice)
        /\ Has(wire.params, "thinking_budget") =>
              /\ wire.params["thinking_budget"] < wire.params["max_tokens"]
              /\ wire.params["thinking_budget"] >= 1024
                 \/ wire.params["thinking_budget"]
                        = Get(req.params, "thinking_budget", 1024)

(* What the settings of a body must have to do with each other: a choice   *)
(* is about declared tools, and what may not be combined is not combined.  *)
SettingsAccepted ==
    /\ ChoiceIsDeclared \/ req.choice.mode = "typed" \/ NamesAsGiven
    /\ target = "chat" => Get(wire.params, "stop_sequences", 0) <= 4
    /\ target = "gemini" => Get(wire.params, "stop_sequences", 0) <= 5
    /\ target = "anthropic" =>
          /\ Has(wire.params, "max_tokens") /\ AnthropicThinks
          /\ Get(wire.params, "temperature", 0) \in 0 .. 10
          /\ Get(wire.params, "parallel_tool_calls", "yes") = "yes"
             \/ wire.tools # <<>>

AnthropicAccepts ==
    /\ CacheMarkCount <= 4
    /\ wire.messages[1].role = "user"
    /\ Alternate(wire.messages) \/ AnyMessage(req, "audio")

(* Conversations the encoders put nothing in place of: turns that are only *)
(* a reference to earlier audio or, for two of them, only blocks they skip.*)
NothingToSend ==
    \A i \in DOMAIN req.messages : \A j \in DOMAIN req.messages[i].content :
        /\ target \in {"chat", "gemini"}
        /\ req.messages[i].content[j].type
              \in ServerToolTypes \cup {"container_upload", "thinking"}

(* An attempt is never spent on a body its upstream is known to refuse,    *)
(* whatever protocol the request came in and however its history looked.   *)
WireAccepted ==
    Sending =>
        /\ wire.messages # <<>> \/ NothingToSend
        /\ \A i \in DOMAIN wire.messages :
              Has(wire.messages[i], "block") \/ Has(wire.messages[i], "audio")
              \/ wire.messages[i].content # <<>>
              \/ wire.messages[i].role = "tool"
        /\ DistinctCalls(decoded.messages) => AnsweredInOrder(Trace(wire.messages))
        /\ SettingsAccepted
        /\ target = "anthropic" => AnthropicAccepts

-----------------------------------------------------------------------------
(* What the repair does *)

Repairing == stage \in {"repaired", "sent"} /\ decoded.messages # <<>>

ToolsGoverned ==
    LET names == {req.tools[i].name : i \in DOMAIN req.tools} IN
    /\ Cardinality(names) = Len(req.tools) /\ Unnamed \notin names
    /\ \A n \in names : SanitizeToolName(n) = n

(* The history and a choice of one tool call a declared tool by the name   *)
(* it is declared under, but for declarations without a name, which go.  A *)
(* list of allowed tools keeps the old names (tooldecl.go:102-122), so     *)
(* shaping takes a renamed tool for excluded.                              *)
DeclaredNames(tools) == {tools[i].name : i \in DOMAIN tools} \ {Unnamed}

ChoiceFollows ==
    decoded.choice.mode = "tool"
    /\ decoded.choice.name \in DeclaredNames(decoded.tools)
        => req.choice.name \in DeclaredNames(req.tools)

HistoryFollows ==
    LET called(messages, tag) ==
            {At(messages, s).name : s \in {t \in SitesOf(messages, "tool_use") :
                                             At(messages, t).tag = tag}}
    IN \A s \in SitesOf(decoded.messages, "tool_use") :
          LET b == At(decoded.messages, s) IN
          b.name \in DeclaredNames(decoded.tools)
              => called(req.messages, b.tag) \subseteq DeclaredNames(req.tools)

(* Messages alternate, where no audio pins one, and each says something.   *)
TurnsAlternate ==
    /\ \A i \in 2 .. Len(req.messages) :
          \/ req.messages[i].role # req.messages[i - 1].role
          \/ Has(req.messages[i], "audio") \/ Has(req.messages[i - 1], "audio")
    /\ \A i \in DOMAIN req.messages : ~IsEmpty(req.messages[i])

(* After the repair every protocol's rules hold: roles alternate (where no *)
(* audio pins a message), no message is empty, calls are answered at once  *)
(* in their order, tools have legal names of their own and the history     *)
(* uses them.  Each step of the repair could undo an earlier one.          *)
Repaired ==
    Repairing =>
        /\ TurnsAlternate
        /\ DistinctCalls(decoded.messages) => AnsweredInOrder(Trace(req.messages))
        /\ ToolsGoverned /\ ChoiceFollows /\ HistoryFollows

(* What the client and the model said, in order: who, and which block. *)
SpokenBy(m) ==
    LET said(b) == ~Blank(b) /\ ~Has(b, "demoted")
                   /\ b.type \notin {"tool_use", "tool_result"} /\ Has(b, "tag")
        kept == SelectSeq(m.content, said)
    IN [j \in DOMAIN kept |-> <<m.role, kept[j].tag>>]

Spoken(messages) == FlattenSeq([i \in DOMAIN messages |-> SpokenBy(messages[i])])

TagsOf(messages, type) ==
    {Get(At(messages, s), "tag", 0) : s \in SitesOf(messages, type)}

(* The repair moves results, joins and drops messages, and loses nothing:  *)
(* what was said is there, by the same role, in the same order; a result   *)
(* is there, if only as text; a call is there or reported as unanswered.   *)
NothingSaidIsLost ==
    Repairing =>
        /\ Spoken(req.messages) = Spoken(decoded.messages)
        /\ TagsOf(decoded.messages, "tool_result")
              \subseteq TagsOf(req.messages, "tool_result")
                        \cup TagsOf(req.messages, "text")
        /\ \A s \in SitesOf(decoded.messages, "tool_use") :
              LET b == At(decoded.messages, s) IN
              b.tag \in TagsOf(req.messages, "tool_use")
              \/ <<"dropped_unanswered", b.id>> \in repairs

(* A request nothing is wrong with, in terms of its protocol. *)
Sound(r) ==
    /\ r.messages # <<>>
    /\ \A i \in 2 .. Len(r.messages) : r.messages[i].role # r.messages[i - 1].role
    /\ \A i \in DOMAIN r.messages :
          \E j \in DOMAIN r.messages[i].content : ~Blank(r.messages[i].content[j])
    /\ DistinctCalls(r.messages) /\ AnsweredInOrder(Trace(r.messages))
    /\ Last(r.messages).role = "assistant" =>
          ~EndsInSpace(Last(Last(r.messages).content))
    /\ \A i, j \in DOMAIN r.tools : i # j => r.tools[i].name # r.tools[j].name
    /\ \A i \in DOMAIN r.tools :
          /\ r.tools[i].name # Unnamed
          /\ SanitizeToolName(r.tools[i].name) = r.tools[i].name

(* A sound request is passed on as it is, without a note                   *)
(* (sanitize.go:14-16).                                                    *)
UntouchedWhenSound ==
    stage = "repaired" /\ Sound(decoded) => req = decoded /\ repairs = {}
=============================================================================
