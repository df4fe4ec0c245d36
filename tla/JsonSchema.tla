----------------------------- MODULE JsonSchema -----------------------------
(***************************************************************************)
(* The schema compiler of src/src/engine/json_schema.rs: a JSON schema     *)
(* becomes a regex that a whole reply has to match; and what a document has*)
(* to be for a schema to accept it.                                        *)
(*                                                                         *)
(* A text is a sequence of lexemes, and a regex is its language: the texts *)
(* it matches, with at most MaxRepeat turns of a loop.  The optional space *)
(* around punctuation is left out.  A schema is a record with the keywords *)
(* it has; properties are a sequence of [key, schema] in the order the     *)
(* compiler meets them; the alternatives of a pattern, its `|`, and enum's *)
(* and const's texts are sequences.                                        *)
(***************************************************************************)
EXTENDS Integers, SequencesExt

CONSTANTS
  Content,        \* what a string may hold
  Whole, Fraction,      \* numbers, whole and not
  Ascending,      \* all of them in order
  MaxRepeat,      \* bound on the turns of a loop
  MaxDepth,       \* MAX_DEPTH
  AnyDepth        \* ANY_JSON_DEFAULT_DEPTH

ASSUME NumberAssumption == ToSet(Ascending) = Whole \cup Fraction /\ IsInjective(Ascending)

Quote == "'"
Fail == [ok |-> FALSE, lang |-> {}]
Matches(lang) == [ok |-> TRUE, lang |-> lang]

Then(K, L) == {k \o l : k \in K, l \in L}
Just(lexeme) == {<<lexeme>>}
\* Several regexes in a row, with a separator between them.
Joined(langs, sep) ==
  IF langs = <<>> THEN {<<>>}
  ELSE FoldLeft(LAMBDA acc, lang : Then(Then(acc, sep), lang), Head(langs), Tail(langs))
Copies(lang, n) == [i \in 1..n |-> lang]
\* lang(sep lang)*, n or more times.
AtLeast(lang, sep, n) == UNION {Joined(Copies(lang, m), sep) : m \in n..(n + MaxRepeat)}

Quoted(contents) == {<<Quote, c, Quote>> : c \in contents}
Bracketed(open, body, close) == Then(Then(Just(open), body), Just(close))
Member(key, lang) == Then(Then(key, Just(":")), lang)

\* any_value: a value of bounded depth; AnyObject is its object arm.
RECURSIVE AnyValue(_)
AnyObject(inner) ==
  Bracketed("{", {<<>>} \cup AtLeast(Member(Quoted(Content), inner), Just(","), 1), "}")
AnyValue(depth) ==
  Quoted(Content) \cup {<<x>> : x \in Whole \cup Fraction \cup {"true", "false", "null"}}
    \cup IF depth = 0 THEN {}
         ELSE LET inner == AnyValue(depth - 1)
              IN  AnyObject(inner)
                    \cup Bracketed("[", {<<>>} \cup AtLeast(inner, Just(","), 1), "]")

\* A pattern is put between the quotes as it stands: with alternatives, the first
\* takes the opening quote and the last the closing one.
PatternText(alternatives) ==
  {(IF i = 1 THEN <<Quote>> ELSE <<>>) \o <<alternatives[i]>>
     \o (IF i = Len(alternatives) THEN <<Quote>> ELSE <<>>) : i \in DOMAIN alternatives}

Has(schema, keyword) == keyword \in DOMAIN schema
MinItems(schema) == IF Has(schema, "minItems") THEN schema.minItems ELSE 0
Unsupported == {"$ref", "oneOf", "anyOf", "allOf", "not", "patternProperties", "if"}

\* compile_array, for compiled items.
CompileArray(schema, item) ==
  LET min == MinItems(schema)
      sep == Just(",")
  IN  IF ~item.ok THEN Fail
      ELSE IF ~Has(schema, "maxItems")
      THEN Matches(Bracketed("[", (IF min = 0 THEN {<<>>} ELSE {})
                                    \cup AtLeast(item.lang, sep, IF min = 0 THEN 1 ELSE min), "]"))
      ELSE IF schema.maxItems < min THEN Fail
      ELSE Matches(Bracketed("[", UNION {Joined(Copies(item.lang, n), sep) :
                                           n \in min..schema.maxItems}, "]"))

\* compile_object, for compiled properties: every declared one, in order.
CompileObject(schema, vals, depth) ==
  IF ~Has(schema, "properties")
  THEN Matches(AnyObject(AnyValue(IF AnyDepth > depth + 1 THEN AnyDepth - depth - 1 ELSE 0)))
  ELSE IF \E i \in DOMAIN vals : ~vals[i].ok THEN Fail
  ELSE LET props == schema.properties
       IN  Matches(Bracketed("{",
             Joined([i \in DOMAIN props |-> Member(Quoted({props[i].key}), vals[i].lang)],
                    Just(",")), "}"))

\* compile: the keywords of Unsupported are refused; any other that no line below asks
\* for, like minimum and maximum, or a type beside an enum, is read over.
RECURSIVE Compile(_, _)
Compile(schema, depth) ==
  CASE depth > MaxDepth \/ \E k \in Unsupported : Has(schema, k) -> Fail
    [] OTHER ->
       IF Has(schema, "const") THEN Matches({schema.const})
       ELSE IF Has(schema, "enum")
       THEN IF schema.enum = <<>> THEN Fail ELSE Matches(ToSet(schema.enum))
       ELSE IF ~Has(schema, "type") THEN Fail
       ELSE CASE schema.type = "string" ->
                   Matches(IF Has(schema, "pattern") THEN PatternText(schema.pattern)
                           ELSE Quoted(Content))
              [] schema.type = "integer" -> Matches({<<x>> : x \in Whole})
              [] schema.type = "number"  -> Matches({<<x>> : x \in Whole \cup Fraction})
              [] schema.type = "boolean" -> Matches({<<"true">>, <<"false">>})
              [] schema.type = "null"    -> Matches({<<"null">>})
              [] schema.type = "array" ->
                   IF Has(schema, "items")
                   THEN CompileArray(schema, Compile(schema.items, depth + 1)) ELSE Fail
              [] schema.type = "object" ->
                   CompileObject(schema,
                     IF Has(schema, "properties")
                     THEN [i \in DOMAIN schema.properties |->
                             Compile(schema.properties[i].schema, depth + 1)]
                     ELSE <<>>, depth)
              [] OTHER -> Fail

\* tool_call_envelope_regex: one branch per tool, its name and its arguments.
Envelope(tools) ==
  LET args == [i \in DOMAIN tools |-> Compile(tools[i].params, 0)]
      Branch(i) == Bracketed("{",
                     Joined(<<Member(Quoted({"name"}), Quoted({tools[i].name})),
                              Member(Quoted({"arguments"}), args[i].lang)>>, Just(",")), "}")
  IN  IF tools = <<>> \/ \E i \in DOMAIN tools : ~args[i].ok THEN Fail
      ELSE Matches(UNION {Branch(i) : i \in DOMAIN tools})

-----------------------------------------------------------------------------
\* The reference: a text is read as a document, by recursive descent.  A reading is
\* the document and the place after it, NoReading when there is none.
NoDoc == [kind |-> "none", text |-> <<>>]
NoReading == [doc |-> NoDoc, next |-> 0]
LexemeAt(text, i) == IF i \in DOMAIN text THEN text[i] ELSE "end"
StringAt(text, i) ==
  LexemeAt(text, i) = Quote /\ LexemeAt(text, i + 1) # Quote /\ LexemeAt(text, i + 2) = Quote

RECURSIVE Read(_, _)
RECURSIVE ReadMany(_, _, _, _)
\* The rest of an array or object, behind what was read of it so far.
ReadMany(text, i, close, so) ==
  LET keyed == close = "}"
      first == so.vals = <<>>
      sep   == IF first THEN 0 ELSE 1
      at    == i + sep + (IF keyed THEN 4 ELSE 0)
      val   == Read(text, at)
  IN  IF LexemeAt(text, i) = close THEN [doc |-> so, next |-> i + 1]
      ELSE IF \/ ~first /\ LexemeAt(text, i) # ","
              \/ keyed /\ ~(StringAt(text, i + sep) /\ LexemeAt(text, i + sep + 3) = ":")
              \/ val = NoReading
      THEN NoReading
      ELSE ReadMany(text, val.next, close,
             [so EXCEPT !.keys = IF keyed THEN Append(@, text[i + sep + 1]) ELSE @,
                        !.vals = Append(@, val.doc)])
Read(text, i) ==
  LET t == LexemeAt(text, i)
      Many(kind, close) ==
        LET r == ReadMany(text, i + 1, close, [kind |-> kind, keys |-> <<>>, vals |-> <<>>])
        IN  IF r = NoReading THEN NoReading
            ELSE [doc |-> [kind |-> kind, keys |-> r.doc.keys, vals |-> r.doc.vals,
                           text |-> SubSeq(text, i, r.next - 1)], next |-> r.next]
  IN  CASE t = "[" -> Many("array", "]")
        [] t = "{" -> Many("object", "}")
        [] StringAt(text, i) ->
             [doc |-> [kind |-> "string", text |-> SubSeq(text, i, i + 2)], next |-> i + 3]
        [] t \in Whole \cup Fraction \cup {"true", "false", "null"} ->
             [doc |-> [kind |-> "atom", text |-> <<t>>], next |-> i + 1]
        [] OTHER -> NoReading
DocOf(text) ==
  LET r == Read(text, 1) IN IF r.next = Len(text) + 1 THEN r.doc ELSE NoDoc

\* Numbers between the bounds the schema sets.
InRange(schema, number) ==
  LET Place(x) == CHOOSE i \in DOMAIN Ascending : Ascending[i] = x
  IN  /\ Has(schema, "minimum") => Place(schema.minimum) <= Place(number)
      /\ Has(schema, "maximum") => Place(number) <= Place(schema.maximum)

\* Whether a schema accepts a document: objects have every declared property, in
\* order ("OpenAI strict semantics").
RECURSIVE Accepts(_, _)
Accepts(schema, doc) ==
  /\ doc.kind # "none"
  /\ Has(schema, "const") => doc.text = schema.const
  /\ Has(schema, "enum") => \E i \in DOMAIN schema.enum : doc.text = schema.enum[i]
  /\ Has(schema, "type") =>
       CASE schema.type = "string" ->
              /\ doc.kind = "string"
              /\ Has(schema, "pattern") => doc.text[2] \in ToSet(schema.pattern)
         [] schema.type = "integer" -> doc.text[1] \in Whole /\ InRange(schema, doc.text[1])
         [] schema.type = "number"  -> doc.text[1] \in Whole \cup Fraction /\ InRange(schema, doc.text[1])
         [] schema.type = "boolean" -> doc.text \in {<<"true">>, <<"false">>}
         [] schema.type = "null"    -> doc.text = <<"null">>
         [] schema.type = "array" ->
              /\ doc.kind = "array"
              /\ Len(doc.vals) >= MinItems(schema)
              /\ Has(schema, "maxItems") => Len(doc.vals) <= schema.maxItems
              /\ \A i \in DOMAIN doc.vals : Accepts(schema.items, doc.vals[i])
         [] schema.type = "object" ->
              /\ doc.kind = "object"
              /\ Has(schema, "properties") =>
                   /\ doc.keys = [i \in DOMAIN schema.properties |-> schema.properties[i].key]
                   /\ \A i \in DOMAIN doc.vals :
                        Accepts(schema.properties[i].schema, doc.vals[i])

Literal(schema) == Has(schema, "const") \/ Has(schema, "enum")
IsA(schema, type) == ~Literal(schema) /\ Has(schema, "type") /\ schema.type = type

\* The schemas a schema is made of, each with the depth it stands at.
RECURSIVE Parts(_, _)
Parts(schema, depth) ==
  {<<schema, depth>>} \cup
  CASE IsA(schema, "array") /\ Has(schema, "items") -> Parts(schema.items, depth + 1)
    [] IsA(schema, "object") /\ Has(schema, "properties") ->
         UNION {Parts(schema.properties[i].schema, depth + 1) : i \in DOMAIN schema.properties}
    [] OTHER -> {}

\* A schema of which the compiler reads over a part, or puts it so that it means another:
\* a bound of a number, a keyword beside a literal, a pattern with alternatives.
ReadOver(schema) ==
  \/ Has(schema, "minimum") \/ Has(schema, "maximum")
  \/ Literal(schema) /\ Cardinality(DOMAIN schema) > 1
  \/ Has(schema, "pattern") /\ Len(schema.pattern) > 1
=============================================================================
