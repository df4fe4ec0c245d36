------------------------------ MODULE MCServices ------------------------------
(***************************************************************************)
(* Small instances of the handlers and their locks, and of constrained     *)
(* replies.  They share no state here: a behaviour exercises one of them,  *)
(* the other stays as it began.                                            *)
(***************************************************************************)
EXTENDS RestServer, ConstrainedDecode, TLC

VARIABLE traffic    \* which of them

-----------------------------------------------------------------------------
\* Constrained replies: requests of every form, some of them refused.
Plain == [tools |-> <<>>, choice |-> "", pick |-> "", format |-> "", grammar |-> ""]
IntList == [type |-> "array", items |-> [type |-> "integer"], minItems |-> 1, maxItems |-> 2]
Rows == [type |-> "array",
         items |-> [type |-> "object",
                    properties |-> <<[key |-> "k", schema |-> [type |-> "number"]]>>]]
Pair == [type |-> "object",
         properties |-> <<[key |-> "k", schema |-> IntList],
                          [key |-> "s", schema |-> [enum |-> <<<<"null">>, <<Quote, "s", Quote>>>>]]>>]
Worded == [type |-> "object",
           properties |-> <<[key |-> "s", schema |-> [type |-> "string", pattern |-> <<"k">>]],
                            [key |-> "k", schema |-> [type |-> "boolean"]]>>]
\* As deep as the compiler goes, and one deeper.
RECURSIVE Nested(_)
Nested(n) == IF n = 0 THEN [type |-> "integer"]
             ELSE [type |-> "array", items |-> Nested(n - 1), minItems |-> 1, maxItems |-> 2]
Ranged == [type |-> "object",
           properties |-> <<[key |-> "k", schema |-> [type |-> "number", minimum |-> "1.5"]]>>]
Tools == <<[name |-> "s", params |-> Pair], [name |-> "k"]>>

SomeRequests ==
  {[Plain EXCEPT !.format = "json_object"], [Plain EXCEPT !.grammar = "json:"],
   [Plain EXCEPT !.tools = Tools, !.choice = "required"],
   [Plain EXCEPT !.tools = Tools, !.choice = "function", !.pick = "s"],
   [Plain EXCEPT !.tools = Tools, !.choice = "function", !.pick = "t"],
   [Plain EXCEPT !.tools = <<Tools[1]>>, !.choice = "required", !.format = "json_object"]}
   \cup
  {[tools |-> <<>>, choice |-> "", pick |-> "", format |-> "json_schema", grammar |-> g,
    schema |-> s] :
     s \in {Rows, Pair, Worded, Ranged, Nested(MaxDepth), Nested(MaxDepth + 1), [type |-> "array", items |-> IntList],
            [type |-> "object", properties |-> <<[key |-> "k", schema |-> [type |-> "object"]]>>],
            [type |-> "array", items |-> [oneOf |-> <<>>]]}, g \in {"", "json:"}}

\* The numbers, in order.
InOrder == <<"1", "1.5">>
RangedRequests ==
  {[Plain EXCEPT !.grammar = "json:"],
   [tools |-> <<>>, choice |-> "", pick |-> "", format |-> "json_schema", grammar |-> "",
    schema |-> Ranged]}

Lexemes == {Quote, "s", "k", "1", "1.5", "true", "false", "null", "[", "]", "{", "}", ":", ",",
            "name", "arguments"}
Single == {<<l>> : l \in Lexemes}
Merged == {<<Quote, "s", Quote>>, <<"}", "]">>, <<"]", ",">>, <<Quote, ":", "{">>, <<"{", Quote>>,
           <<",", Quote>>, <<"1", ",", "1">>, <<"]", "}">>}
TwoVocabs == {Single \cup Merged, (Single \ {<<"]">>}) \cup Merged}

-----------------------------------------------------------------------------
Sym == Permutations(Handler) \cup Permutations(Model)

QuietGrammar ==
  /\ request = [Plain EXCEPT !.grammar = "json:"] /\ vocab = {}
  /\ text = <<>> /\ drawn = 0 /\ end = "400"

\* Three requests of the kinds that lock differently, or two of any: streams, text and
\* batched completions lock nothing a chat does not.
Usual == {"chat", "embed", "goal", "select"}
Of(kinds) == \A h \in Handler : req'[h].kind \in kinds \cup {"none"}

ServicesInit ==
  \/ traffic \in {"models", "pairs"} /\ RestInit /\ QuietGrammar
  \/ traffic = "grammar" /\ RestInit    /\ GrammarInit
ServicesNext ==
  \/ traffic = "models"  /\ RestNext    /\ Of(Usual) /\ UNCHANGED <<grammarVars, traffic>>
  \/ traffic = "pairs"   /\ RestNext    /\ arrivals' < MaxArrivals /\ UNCHANGED <<grammarVars, traffic>>
  \/ traffic = "grammar" /\ GrammarNext /\ UNCHANGED <<restVars, traffic>>
ServicesSpec == ServicesInit /\ [][ServicesNext]_<<restVars, grammarVars, traffic>>
=============================================================================
