------------------------------ MODULE Sanitize ------------------------------
(***************************************************************************)
(* ir.Sanitize (backend/ir/sanitize.go, tooldecl.go): what is repaired in  *)
(* a decoded request, once, before the first attempt.  Notes say what was  *)
(* done.                                                                   *)
(*                                                                         *)
(* A text is a name for its words; "" has none, some texts are only white  *)
(* space, and a block with the field trail ends in white space.            *)
(***************************************************************************)
EXTENDS Requests

White == {" ", "\n\n"}

Blank(b)       == b.type = "text" /\ b.text \in {""} \cup White
EndsInSpace(b) == b.type = "text" /\ (b.text \in White \/ Has(b, "trail"))

-----------------------------------------------------------------------------
(* Tool declarations *)

(* sanitizeToolName: different illegal names can become the same legal one. *)
SanitizeToolName(name) ==
    IF name \in {"get:weather", "get/weather"} THEN "get_weather" ELSE name

(* The name of a declaration that was given none. *)
Unnamed == ""

(* A declaration with an empty name goes, and so does a second one of the  *)
(* same (repaired) name.                                                   *)
KeepTool(acc, t) ==
    LET name == SanitizeToolName(t.name)
        more == When(t.name # name, <<"renamed", t.name>>)
                \cup When(\E i \in DOMAIN acc.tools : acc.tools[i].name = name,
                          <<"dropped_tool", name>>)
    IN CASE t.name = Unnamed ->
               [acc EXCEPT !.notes = @ \cup {<<"dropped_tool", Unnamed>>}]
         [] t.name # Unnamed
            /\ \E i \in DOMAIN acc.tools : acc.tools[i].name = name ->
               [acc EXCEPT !.notes = @ \cup more]
         [] OTHER -> [tools |-> Append(acc.tools, [t EXCEPT !.name = name]),
                      notes |-> acc.notes \cup more]

Rename(b) == IF b.type = "tool_use" THEN [b EXCEPT !.name = SanitizeToolName(@)]
             ELSE b

(* applyToolRenames: only names of declared tools are repaired, in a       *)
(* choice of one tool and in the history.                                  *)
RenameChoice(choice, declared) ==
    IF choice.mode = "tool" /\ choice.name \in declared
    THEN [choice EXCEPT !.name = SanitizeToolName(@)] ELSE choice

RenameCalls(m, declared) ==
    [m EXCEPT !.content =
        [j \in DOMAIN @ |-> IF @[j].type = "tool_use" /\ @[j].name \in declared
                            THEN Rename(@[j]) ELSE @[j]]]

ApplyToolRenames(req) ==
    LET declared == {req.tools[i].name : i \in DOMAIN req.tools}
    IN [req EXCEPT
          !.choice = RenameChoice(@, declared),
          !.messages = [i \in DOMAIN @ |-> RenameCalls(@[i], declared)]]

GovernToolDecls(req) ==
    LET all == FoldLeft(KeepTool, [tools |-> <<>>, notes |-> {}], req.tools) IN
    IF all.notes = {} THEN [req |-> req, notes |-> {}]
    ELSE [req |-> [ApplyToolRenames(req) EXCEPT !.tools = all.tools],
          notes |-> all.notes]

-----------------------------------------------------------------------------
(* Pairing of tool calls and their results *)

Sites(messages) ==
    UNION {{i} \X DOMAIN messages[i].content : i \in DOMAIN messages}

At(messages, s) == messages[s[1]].content[s[2]]

SitesOf(messages, type) ==
    {s \in Sites(messages) : At(messages, s).type = type}

Before(s, t) == s[1] < t[1] \/ (s[1] = t[1] /\ s[2] < t[2])

IdsOf(messages, type) ==
    {At(messages, s).id : s \in SitesOf(messages, type)}

(* indexTools: a call without an id is not remembered, and of two calls    *)
(* with one id the later is.                                               *)
NoId == ""

CallIds(messages) == IdsOf(messages, "tool_use") \ {NoId}

UseSite(messages, id) ==
    CHOOSE s \in SitesOf(messages, "tool_use") :
        /\ At(messages, s).id = id
        /\ \A t \in SitesOf(messages, "tool_use") :
              At(messages, t).id = id => t = s \/ Before(t, s)

(* demoteOrphans: a result without a call, or followed by another result   *)
(* of the same call, becomes a text.                                       *)
DemoteToText(b) ==
    [type |-> "text", text |-> "result", demoted |-> b.id]
    ++ Keep(b, {"tag", "cache"})

Demoted(messages, s) ==
    LET id == At(messages, s).id IN
    \/ id \notin CallIds(messages)
    \/ \E t \in SitesOf(messages, "tool_result") :
          At(messages, t).id = id /\ Before(s, t)

DemoteOrphans(messages) ==
    LET gone == {s \in SitesOf(messages, "tool_result") : Demoted(messages, s)}
    IN [messages |->
          [i \in DOMAIN messages |->
             [messages[i] EXCEPT !.content =
                 [j \in DOMAIN @ |-> IF <<i, j>> \in gone
                                     THEN DemoteToText(@[j]) ELSE @[j]]]],
        notes |-> {<<"demoted", At(messages, s).id>> : s \in gone}]

(* dropUnanswered: a call without a result, and a message left empty by    *)
(* that.  The results counted are those from before the demotion.          *)
DropUnanswered(messages, answered) ==
    LET open(b) == b.type = "tool_use" /\ b.id \notin answered
        kept(m) == [m EXCEPT !.content = SelectSeq(@, LAMBDA b : ~open(b))]
        stays(m) == kept(m).content # <<>> \/ m.content = <<>>
        all == SelectSeq(messages, stays)
    IN [messages |-> [i \in DOMAIN all |-> kept(all[i])],
        notes |-> {<<"dropped_unanswered", At(messages, s).id>> :
                     s \in {u \in SitesOf(messages, "tool_use") :
                               open(At(messages, u))}}]

(* reorderResults: every result goes right behind the message of its call, *)
(* in the order of the calls, at the head of the user message that follows *)
(* or in one of its own (insertGroups).                                    *)
GroupAfter(messages, i) ==
    LET answered == IdsOf(messages, "tool_result") \cap CallIds(messages)
        mine == SetToSortSeq({id \in answered : UseSite(messages, id)[1] = i},
                    LAMBDA a, b : UseSite(messages, a)[2] < UseSite(messages, b)[2])
        result(id) == At(messages, CHOOSE s \in SitesOf(messages, "tool_result") :
                                      At(messages, s).id = id)
    IN [k \in DOMAIN mine |-> result(mine[k])]

ReorderResults(messages) ==
    LET uses == CallIds(messages)
        rest(m) == [m EXCEPT !.content =
                       SelectSeq(@, LAMBDA b : ~(b.type = "tool_result"
                                                 /\ b.id \in uses))]
        behind(i) == IF i = 0 THEN <<>> ELSE GroupAfter(messages, i)
        place(i) ==
            CASE behind(i - 1) = <<>> -> <<rest(messages[i])>>
              [] behind(i - 1) # <<>> /\ messages[i].role = "user" ->
                    <<[rest(messages[i]) EXCEPT !.content = behind(i - 1) \o @]>>
              [] OTHER -> <<Message("user", behind(i - 1)), rest(messages[i])>>
        n == Len(messages)
        all == FlattenSeq([i \in DOMAIN messages |-> place(i)])
               \o (IF behind(n) # <<>> THEN <<Message("user", behind(n))>>
                                       ELSE <<>>)
    IN [messages |-> all, notes |-> When(all # messages, <<"reordered", "results">>)]

(* Where nothing has an id to pair by, nothing is paired.                  *)
PairTools(req) ==
    LET idle == CallIds(req.messages) = {} /\ SitesOf(req.messages, "tool_result") = {}
        demote  == DemoteOrphans(req.messages)
        answer  == DropUnanswered(demote.messages,
                                  IdsOf(req.messages, "tool_result"))
        reorder == ReorderResults(answer.messages)
        uses    == {s \in SitesOf(req.messages, "tool_use") :
                      At(req.messages, s).id # NoId}
        twice   == {<<"duplicate_call", At(req.messages, s).id>> :
                      s \in {u \in uses : \E v \in uses \ {u} :
                                At(req.messages, u).id = At(req.messages, v).id}}
    IN [req |-> [req EXCEPT !.messages = IF idle THEN @ ELSE reorder.messages],
        notes |-> IF idle THEN {}
                  ELSE UNION {twice, demote.notes, answer.notes, reorder.notes}]

-----------------------------------------------------------------------------
(* Empty messages and neighbours of one role *)

(* trimTrailingWhitespace: of the last block, if it is a text. *)
TrimTrailing(content) ==
    LET n == Len(content) IN
    CASE n = 0 \/ ~EndsInSpace(content[n]) -> content
      [] n > 0 /\ Blank(content[n]) -> Front(content)
      [] OTHER -> [content EXCEPT ![n] = Without(@, {"trail"})]

(* Mutant: only the texts of a message count. *)
IsWordless(m) ==
    ~Has(m, "audio")
    /\ \A j \in DOMAIN m.content : m.content[j].type = "text" => Blank(m.content[j])

IsEmpty(m) == ~Has(m, "audio") /\ \A j \in DOMAIN m.content : Blank(m.content[j])

(* Mutant: whoever said the last thing. *)
EndsWithMessage(messages) == messages # <<>>

(* The conversation ends with a beginning of the answer (a prefill). *)
EndsWithPrefill(messages) ==
    messages # <<>> /\ Last(messages).role = "assistant"

PruneEmpty(req) ==
    LET n == Len(req.messages)
        trim == EndsWithPrefill(req.messages)
                /\ TrimTrailing(req.messages[n].content) # req.messages[n].content
        trimmed == IF trim THEN [req.messages EXCEPT ![n].content = TrimTrailing(@)]
                   ELSE req.messages
        kept == SelectSeq(trimmed, LAMBDA m : ~IsEmpty(m))
    IN [req |-> [req EXCEPT !.messages = kept],
        notes |-> When(trim, <<"trimmed", "prefill">>)
                  \cup When(kept # trimmed, <<"dropped_empty", "message">>)]

(* needsTextSeparator: two texts that would run into each other. *)
Separator == Text("\n\n")

NeedsSeparator(prev, next) ==
    /\ prev # <<>> /\ next # <<>>
    /\ Last(prev).type = "text" /\ Head(next).type = "text"
    /\ Last(prev).text # "" /\ ~Blank(Head(next))
    /\ ~EndsInSpace(Last(prev))

MergeInto(merged, m) ==
    LET n == Len(merged) IN
    IF n > 0 /\ merged[n].role = m.role
       /\ ~Has(merged[n], "audio") /\ ~Has(m, "audio")
    THEN [merged EXCEPT ![n].content =
             @ \o (IF NeedsSeparator(@, m.content) THEN <<Separator>> ELSE <<>>)
             \o m.content]
    ELSE Append(merged, m)

MergeAdjacentRoles(req) ==
    LET merged == FoldLeft(MergeInto, <<>>, req.messages)
    IN [req |-> [req EXCEPT !.messages = merged],
        notes |-> When(Len(merged) # Len(req.messages), <<"merged", "messages">>)]

(* Mutant: neighbours are merged before empty messages are dropped. *)
SanitizeMergeFirst(req) ==
    LET tools == GovernToolDecls(req)
        pairs == PairTools(tools.req)
        merge == MergeAdjacentRoles(pairs.req)
        prune == PruneEmpty(merge.req)
    IN [req |-> prune.req,
        notes |-> UNION {tools.notes, pairs.notes, prune.notes, merge.notes}]

(* The order is part of it: renames before pairing, pruning before merging. *)
SanitizeRequest(req) ==
    LET tools == GovernToolDecls(req)
        pairs == PairTools(tools.req)
        prune == PruneEmpty(pairs.req)
        merge == MergeAdjacentRoles(prune.req)
    IN IF req.messages = <<>> THEN [req |-> req, notes |-> {}]
       ELSE [req |-> merge.req,
             notes |-> UNION {tools.notes, pairs.notes, prune.notes, merge.notes}]
=============================================================================
