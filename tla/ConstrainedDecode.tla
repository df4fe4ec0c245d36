-------------------------- MODULE ConstrainedDecode --------------------------
(***************************************************************************)
(* A reply under a constraint: how src/src/server/rest.rs turns a request's*)
(* grammar, response_format, tools and tool_choice into one grammar or a   *)
(* 400, how LogitFSM (src/src/engine/logit_fsm.rs) masks every token from  *)
(* it, and how the reply is read back as a tool call.                      *)
(*                                                                         *)
(* A DFA state that is neither dead nor without a way to a match is a text *)
(* that begins some text of the language; the text so far stands for it.   *)
(* Logits are left out: any token the mask leaves may be drawn.            *)
(***************************************************************************)
EXTENDS JsonSchema

CONSTANTS
  Requests,     \* [tools, choice, pick, format, schema, grammar]
  Vocabs,       \* vocabularies: sets of tokens' texts
  MaxReply      \* max_tokens

VARIABLES request, vocab, text, drawn, end

grammarVars == <<request, vocab, text, drawn, end>>

NoGrammar == [mode |-> "none"]
BadRequest == [mode |-> "400"]
SchemaGrammar(schema) == [mode |-> "schema", schema |-> schema]

\* tool_name_params: a tool without parameters takes an empty object.
ParamsOf(tool) ==
  IF Has(tool, "params") THEN tool.params ELSE [type |-> "object", properties |-> <<>>]
Named(tools, name) == {i \in DOMAIN tools : tools[i].name = name}

\* resolve_tool_call.
ToolGrammar(r) ==
  IF r.tools = <<>> \/ r.choice = "none" THEN NoGrammar
  ELSE CASE r.choice = "required" /\ Len(r.tools) = 1 -> SchemaGrammar(ParamsOf(r.tools[1]))
         [] r.choice = "required" ->
              [mode |-> "tools",
               tools |-> [i \in DOMAIN r.tools |->
                            [name |-> r.tools[i].name, params |-> ParamsOf(r.tools[i])]]]
         [] r.choice = "function" /\ Named(r.tools, r.pick) # {} ->
              SchemaGrammar(ParamsOf(r.tools[Min(Named(r.tools, r.pick))]))
         [] OTHER -> BadRequest

\* grammar_from_response_format: json_object is an object of no declared properties.
FormatGrammar(r) ==
  CASE r.format = "json_object" -> SchemaGrammar([type |-> "object"])
    [] r.format = "json_schema" -> SchemaGrammar(r.schema)
    [] r.format \in {"", "text"} -> NoGrammar
    [] OTHER -> BadRequest

\* resolve_constraint: the grammar extension or the response format, not both.
Constraint(r) ==
  LET format == FormatGrammar(r)
  IN  IF format = BadRequest \/ r.grammar = "" THEN format
      ELSE IF format # NoGrammar THEN BadRequest ELSE [mode |-> r.grammar]

\* chat_completions: nor a tool call beside either.
GrammarOf(r) ==
  LET tool == ToolGrammar(r)
      rest == Constraint(r)
  IN  IF tool = BadRequest \/ rest = BadRequest THEN BadRequest
      ELSE IF tool = NoGrammar THEN rest
      ELSE IF rest = NoGrammar THEN tool ELSE BadRequest

\* LogitFSM::compile; a schema that does not compile, or an unknown mode, is a 400.
CompiledGrammar(g) ==
  CASE g.mode = "schema" -> Compile(g.schema, 0)
    [] g.mode = "tools" -> Envelope(g.tools)
    [] g.mode = "json:" -> Matches(AnyValue(AnyDepth))
    [] OTHER -> Fail

Language == [r \in Requests |-> CompiledGrammar(GrammarOf(r))]
Beginnings == [r \in Requests |->
  {SubSeq(w, 1, n) : <<w, n>> \in
     UNION {{<<w, n>> : n \in 0..Len(w)} : w \in Language[r].lang}}]

\* is_live and is_accept.
Viable(t) == t \in Beginnings[request]
Accept(t) == t \in Language[request].lang

\* allowed_mask: a token whose text keeps the reply live.  Special tokens have none.
AllowedTokens == {tok \in vocab : Viable(text \o tok)}

\* Mutant of MayEnd: a reply may end anywhere.
MayEndAnywhere == TRUE
\* apply_mask: the end-of-text token, when the text matches, or nothing else goes on.
MayEnd == Accept(text) \/ AllowedTokens = {}

GrammarInit ==
  /\ request \in Requests /\ GrammarOf(request) # NoGrammar
  /\ vocab \in Vocabs
  /\ text = <<>> /\ drawn = 0
  /\ end = (IF Language[request].ok THEN "no" ELSE "400")

\* One turn of the decode loop: mask, draw, advance.
DrawToken ==
  /\ end = "no" /\ drawn < MaxReply
  /\ \E tok \in AllowedTokens : text' = text \o tok
  /\ drawn' = drawn + 1
  /\ UNCHANGED <<request, vocab, end>>
Stop ==
  /\ end = "no" /\ drawn < MaxReply
  /\ MayEnd /\ end' = "stop"
  /\ UNCHANGED <<request, vocab, text, drawn>>
Exhausted ==
  /\ end = "no" /\ drawn = MaxReply
  /\ end' = "length"
  /\ UNCHANGED <<request, vocab, text, drawn>>

GrammarNext == DrawToken \/ Stop \/ Exhausted
GrammarSpec == GrammarInit /\ [][GrammarNext]_grammarVars

-----------------------------------------------------------------------------
\* What the request asked for, read off the reply as the handler does: the arguments
\* of the forced tool, or an envelope that names one of the tools.
Fulfils(r, doc) ==
  IF r.tools # <<>> /\ r.choice # "none" THEN
    IF r.choice = "required" /\ Len(r.tools) > 1
    THEN /\ doc.kind = "object" /\ doc.keys = <<"name", "arguments">>
         /\ \E i \in DOMAIN r.tools :
              /\ doc.vals[1].text = <<Quote, r.tools[i].name, Quote>>
              /\ Accepts(ParamsOf(r.tools[i]), doc.vals[2])
    ELSE \E i \in DOMAIN r.tools :
           /\ r.choice = "function" => r.tools[i].name = r.pick
           /\ Accepts(ParamsOf(r.tools[i]), doc)
  ELSE IF r.format = "json_object" THEN doc.kind = "object"
  ELSE IF r.format = "json_schema" THEN Accepts(r.schema, doc)
  ELSE doc.kind # "none"

\* A vocabulary that can spell every lexeme.
Spells == \A w \in Language[request].lang : \A i \in DOMAIN w : <<w[i]>> \in vocab

\* The schemas a request's reply is held to, and their parts.
SchemaParts(r) ==
  LET g == GrammarOf(r)
  IN  CASE g.mode = "schema" -> Parts(g.schema, 0)
        [] g.mode = "tools" -> UNION {Parts(g.tools[i].params, 0) : i \in DOMAIN g.tools}
        [] OTHER -> {}

\* A constrained reply that ends by itself is a JSON document the request's schema, format
\* or tools accept, whatever tokens were drawn and wherever their texts were cut, and it
\* never gets stuck; and no schema nested deeper than MAX_DEPTH, or with a keyword of
\* Unsupported in any part, is answered.  Schemas the compiler reads over are excepted:
\* see NeverLaxer.
ReplyFulfilsRequest ==
  /\ (Spells /\ Language[request].ok) =>
       /\ (end = "stop" /\ \A p \in SchemaParts(request) : ~ReadOver(p[1])) =>
            Fulfils(request, DocOf(text))
       /\ Accept(text) \/ AllowedTokens # {}
  /\ (\E p \in SchemaParts(request) :
        p[2] > MaxDepth \/ \E k \in Unsupported : Has(p[1], k)) => end = "400"

\* compile's "Reject constructs we can't faithfully compile, rather than silently
\* producing a laxer grammar": of no schema that is not refused does a reply end that
\* the schema does not accept.
NeverLaxer == (Spells /\ end = "stop") => Fulfils(request, DocOf(text))
=============================================================================
