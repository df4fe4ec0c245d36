---------------------------- MODULE ChatDecodeProofs ----------------------------
(***************************************************************************)
(* Proofs about the decode lanes of module ChatDecode, for every model,    *)
(* vocabulary, number of layers, window, chunk and draft length, every     *)
(* prompt and stop string, and any number of requests.                     *)
(*                                                                         *)
(* The inductive invariant DecodeInv says, per lane, what the caches hold  *)
(* of the request's text at every point where its turn may stop:           *)
(*   SlotOK    between requests, the text of the prefix cache or all but   *)
(*             its last token (Trail); the draft model all of it (Ahead)   *)
(*   CandleOK  the candle loop and its prompt-lookup rounds                *)
(*   SpecOK    both models of a speculative iteration                      *)
(*   FastOK    the resident engines, and NotedOK their noted prompt        *)
(* and, in each, that the reply so far is the one of a cold slot and how   *)
(* much of max_tokens is left.  It asks nothing of a slot whose KV is      *)
(* known not to fit (tainted, overwritten): the code goes on there, with   *)
(* tokens that follow from no text.                                        *)
(***************************************************************************)
EXTENDS ChatDecode, TLAPS, FiniteSetTheorems, SequenceTheorems, WellFoundedInduction

-----------------------------------------------------------------------------
(* Texts *)

\* The texts of the modelled vocabulary.
Texts == Seq(Token)

\* Length and elements of a prefix.
LEMMA PrefixFacts ==
  ASSUME NEW S, NEW t \in Seq(S), NEW n \in 0..Len(t)
  PROVE  /\ SubSeq(t, 1, n) \in Seq(S)
         /\ Len(SubSeq(t, 1, n)) = n
         /\ \A i \in 1..n : SubSeq(t, 1, n)[i] = t[i]
<1>1. \A i \in 1..n : t[i] \in S
  BY ElementOfSeq, LenProperties
<1> QED BY <1>1, SubSeqProperties, LenProperties

\* A prefix of a prefix is a prefix of the whole.
LEMMA PrefixOfPrefix ==
  ASSUME NEW S, NEW t \in Seq(S), NEW n \in 0..Len(t), NEW m \in 0..n
  PROVE  SubSeq(SubSeq(t, 1, n), 1, m) = SubSeq(t, 1, m)
<1> DEFINE u == SubSeq(t, 1, n)
<1>1. Len(t) \in Nat
  BY LenProperties
<1>2. u \in Seq(S) /\ Len(u) = n /\ \A i \in 1..n : u[i] = t[i]
  BY PrefixFacts
<1>3. SubSeq(u, 1, m) \in Seq(S) /\ Len(SubSeq(u, 1, m)) = m
      /\ \A i \in 1..m : SubSeq(u, 1, m)[i] = u[i]
  <2> HIDE DEF u
  <2> QED BY <1>1, <1>2, PrefixFacts
<1>4. SubSeq(t, 1, m) \in Seq(S) /\ Len(SubSeq(t, 1, m)) = m
      /\ \A i \in 1..m : SubSeq(t, 1, m)[i] = t[i]
  <2>1. m \in 0..Len(t)
    BY <1>1
  <2> QED BY <2>1, PrefixFacts
<1>5. \A i \in 1..m : SubSeq(u, 1, m)[i] = SubSeq(t, 1, m)[i]
  BY <1>1, <1>2, <1>3, <1>4
<1> QED BY <1>3, <1>4, <1>5, SeqEqual

\* An extended text: its length, its elements, and the text it extends.
LEMMA ConcatFacts ==
  ASSUME NEW S, NEW a \in Seq(S), NEW d \in Seq(S)
  PROVE  /\ a \o d \in Seq(S) /\ Len(a \o d) = Len(a) + Len(d)
         /\ Len(a) \in Nat /\ Len(d) \in Nat
         /\ \A i \in 1..Len(a) : (a \o d)[i] = a[i]
         /\ \A i \in 1..Len(d) : (a \o d)[Len(a) + i] = d[i]
         /\ SubSeq(a \o d, 1, Len(a)) = a
<1> DEFINE w == a \o d
<1>1. /\ w \in Seq(S) /\ Len(w) = Len(a) + Len(d)
      /\ \A i \in 1..(Len(a) + Len(d)) : w[i] = IF i <= Len(a) THEN a[i] ELSE d[i - Len(a)]
  BY ConcatProperties
<1>2. Len(a) \in Nat /\ Len(d) \in Nat
  BY LenProperties
<1> HIDE DEF w
<1>3. \A i \in 1..Len(a) : w[i] = a[i]
  BY <1>1, <1>2
<1>4. \A i \in 1..Len(d) : w[Len(a) + i] = d[i]
  <2> SUFFICES ASSUME NEW i \in 1..Len(d) PROVE w[Len(a) + i] = d[i]
    OBVIOUS
  <2>1. /\ Len(a) + i \in 1..(Len(a) + Len(d)) /\ ~(Len(a) + i <= Len(a))
        /\ (Len(a) + i) - Len(a) = i
    BY <1>2
  <2> QED BY <1>1, <2>1
<1>5. Len(a) \in 0..Len(w)
  BY <1>1, <1>2
<1>6. /\ SubSeq(w, 1, Len(a)) \in Seq(S) /\ Len(SubSeq(w, 1, Len(a))) = Len(a)
      /\ \A i \in 1..Len(a) : SubSeq(w, 1, Len(a))[i] = w[i]
  BY <1>1, <1>5, PrefixFacts
<1>7. SubSeq(w, 1, Len(a)) = a
  BY <1>3, <1>6, SeqEqual
<1> QED BY <1>1, <1>2, <1>3, <1>4, <1>7 DEF w

\* A prefix of the text that is extended is a prefix of the extended one.
LEMMA PrefixInside ==
  ASSUME NEW S, NEW a \in Seq(S), NEW d \in Seq(S), NEW n \in 0..Len(a)
  PROVE  SubSeq(a \o d, 1, n) = SubSeq(a, 1, n)
<1> DEFINE w == a \o d
<1>1. w \in Seq(S) /\ SubSeq(w, 1, Len(a)) = a /\ Len(a) \in 0..Len(w)
  BY ConcatFacts
<1> HIDE DEF w
<1>2. SubSeq(SubSeq(w, 1, Len(a)), 1, n) = SubSeq(w, 1, n)
  BY <1>1, PrefixOfPrefix
<1> QED BY <1>1, <1>2 DEF w

\* A longer prefix is the text and a prefix of what extends it.
LEMMA PrefixBeyond ==
  ASSUME NEW S, NEW a \in Seq(S), NEW d \in Seq(S), NEW n \in 0..Len(d)
  PROVE  SubSeq(a \o d, 1, Len(a) + n) = a \o SubSeq(d, 1, n)
<1> DEFINE w == a \o d
           e == SubSeq(d, 1, n)
           v == a \o e
           m == Len(a) + n
           u == SubSeq(w, 1, m)
<1>1. /\ w \in Seq(S) /\ Len(w) = Len(a) + Len(d) /\ Len(a) \in Nat /\ Len(d) \in Nat
      /\ \A i \in 1..Len(a) : w[i] = a[i]
      /\ \A i \in 1..Len(d) : w[Len(a) + i] = d[i]
  BY ConcatFacts
<1>2. e \in Seq(S) /\ Len(e) = n /\ \A i \in 1..n : e[i] = d[i]
  BY PrefixFacts
<1>3. /\ v \in Seq(S) /\ Len(v) = Len(a) + n
      /\ \A i \in 1..Len(a) : v[i] = a[i]
      /\ \A i \in 1..n : v[Len(a) + i] = e[i]
  <2> HIDE DEF e
  <2>1. /\ a \o e \in Seq(S) /\ Len(a \o e) = Len(a) + Len(e)
        /\ \A i \in 1..Len(a) : (a \o e)[i] = a[i]
        /\ \A i \in 1..Len(e) : (a \o e)[Len(a) + i] = e[i]
    <3>1. e \in Seq(S)
      BY <1>2
    <3> HIDE <1>2
    <3> QED BY <3>1, ConcatFacts
  <2> QED BY <1>2, <2>1, Zenon
<1>4. m \in 0..Len(w)
  BY <1>1
<1> HIDE DEF w, e, v
<1>5. u \in Seq(S) /\ Len(u) = m /\ \A i \in 1..m : u[i] = w[i]
  BY <1>1, <1>4, PrefixFacts
<1>6. \A i \in 1..m : u[i] = v[i]
  <2> SUFFICES ASSUME NEW i \in 1..m PROVE w[i] = v[i]
    BY <1>5
  <2>1. CASE i \in 1..Len(a)
    BY <1>1, <1>3, <2>1
  <2>2. CASE i \notin 1..Len(a)
    <3>1. PICK k \in 1..n : i = Len(a) + k
      <4>1. i - Len(a) \in 1..n /\ i = Len(a) + (i - Len(a))
        BY <1>1, <2>2
      <4> QED BY <4>1
    <3>2. k \in 1..Len(d)
      BY <1>1, <3>1
    <3> QED BY <1>1, <1>2, <1>3, <3>1, <3>2
  <2> QED BY <2>1, <2>2
<1>7. u = v
  <2> HIDE DEF u
  <2> QED BY <1>3, <1>5, <1>6, SeqEqual
<1> QED BY <1>7 DEF u, v, w, e, m

\* A text is a prefix and the rest.
LEMMA SplitAt ==
  ASSUME NEW S, NEW t \in Seq(S), NEW n \in 0..Len(t)
  PROVE  /\ SubSeq(t, n + 1, Len(t)) \in Seq(S)
         /\ Len(SubSeq(t, n + 1, Len(t))) = Len(t) - n
         /\ SubSeq(t, 1, n) \o SubSeq(t, n + 1, Len(t)) = t
<1>1. Len(t) \in Nat /\ \A i \in 1..Len(t) : t[i] \in S
  BY LenProperties, ElementOfSeq
<1>2. /\ SubSeq(t, n + 1, Len(t)) \in Seq(S)
      /\ Len(SubSeq(t, n + 1, Len(t))) = IF n + 1 <= Len(t) THEN Len(t) - (n + 1) + 1 ELSE 0
  <2>1. n + 1 \in Int /\ Len(t) \in Int /\ \A i \in (n + 1)..Len(t) : t[i] \in S
    BY <1>1
  <2> QED BY <2>1, SubSeqProperties
<1>3. SubSeq(t, 1, n) \o SubSeq(t, n + 1, Len(t)) = SubSeq(t, 1, Len(t))
  <2>1. 1 \in 1..(Len(t) + 1) /\ n \in (1 - 1)..Len(t) /\ Len(t) \in n..Len(t)
    BY <1>1
  <2> QED BY <2>1, ConcatAdjacentSubSeq
<1>4. SubSeq(t, 1, Len(t)) = t
  BY SubSeqFull
<1>5. (IF n + 1 <= Len(t) THEN Len(t) - (n + 1) + 1 ELSE 0) = Len(t) - n
  BY <1>1
<1>6. Len(SubSeq(t, n + 1, Len(t))) = Len(t) - n
  BY <1>2, <1>5
<1>7. SubSeq(t, 1, n) \o SubSeq(t, n + 1, Len(t)) = t
  BY <1>3, <1>4
<1> QED BY <1>2, <1>6, <1>7

\* A text is all but its last element, and that one.
LEMMA FrontAndLast ==
  ASSUME NEW S, NEW t \in Seq(S), Len(t) > 0
  PROVE  /\ Front(t) = SubSeq(t, 1, Len(t) - 1)
         /\ Front(t) \in Seq(S) /\ Len(Front(t)) = Len(t) - 1
         /\ t[Len(t)] \in S /\ Front(t) \o <<t[Len(t)]>> = t
<1> DEFINE n == Len(t) - 1
<1>1. Len(t) \in Nat /\ n \in 0..Len(t) /\ n + 1 = Len(t)
  BY LenProperties
<1>2. t[Len(t)] \in S
  BY <1>1, ElementOfSeq
<1>3. SubSeq(t, n + 1, Len(t)) = <<t[Len(t)]>>
  <2>1. SubSeq(t, Len(t), Len(t)) = <<t[Len(t)]>> \o SubSeq(t, Len(t) + 1, Len(t))
    <3>1. Len(t) \in 1..Len(t) /\ Len(t) \in Len(t)..Len(t)
      BY <1>1
    <3> QED BY <3>1, SubSeqRecursiveFirst
  <2>2. SubSeq(t, Len(t) + 1, Len(t)) = <<>>
    BY <1>1, SubSeqEmpty
  <2>3. <<t[Len(t)]>> \in Seq(S)
    BY <1>2
  <2>4. <<t[Len(t)]>> \o <<>> = <<t[Len(t)]>>
    BY <2>3, ConcatEmptySeq
  <2> QED BY <1>1, <2>1, <2>2, <2>4
<1>4. SubSeq(t, 1, n) \o SubSeq(t, n + 1, Len(t)) = t
  BY <1>1, SplitAt
<1>5. SubSeq(t, 1, n) \in Seq(S) /\ Len(SubSeq(t, 1, n)) = n
  BY <1>1, PrefixFacts
<1> QED BY <1>1, <1>2, <1>3, <1>4, <1>5 DEF Front

\* A text of one token.
LEMMA Single ==
  ASSUME NEW S, NEW x \in S
  PROVE  <<x>> \in Seq(S) /\ Len(<<x>>) = 1 /\ <<x>>[1] = x /\ SubSeq(<<x>>, 1, 1) = <<x>>
<1>1. <<x>> \in Seq(S) /\ Len(<<x>>) = 1 /\ <<x>>[1] = x
  OBVIOUS
<1>2. SubSeq(<<x>>, 1, Len(<<x>>)) = <<x>>
  BY <1>1, SubSeqFull
<1> QED BY <1>1, <1>2

\* push: the text and the token behind it.
LEMMA Pushed ==
  ASSUME NEW S, NEW t \in Seq(S), NEW x \in S
  PROVE  /\ Append(t, x) = t \o <<x>>
         /\ Append(t, x) \in Seq(S) /\ Len(Append(t, x)) = Len(t) + 1 /\ Len(t) \in Nat
         /\ Append(t, x)[Len(t) + 1] = x /\ Front(Append(t, x)) = t
         /\ SubSeq(Append(t, x), 1, Len(t)) = t
<1>1. Append(t, x) = t \o <<x>>
  BY AppendIsConcat
<1>2. <<x>> \in Seq(S) /\ Len(<<x>>) = 1
  BY Single
<1>3. /\ Append(t, x) \in Seq(S) /\ Len(Append(t, x)) = Len(t) + 1 /\ Len(t) \in Nat
      /\ Append(t, x)[Len(t) + 1] = x
  BY AppendProperties, LenProperties
<1>4. SubSeq(Append(t, x), 1, Len(t)) = t
  BY <1>1, <1>2, ConcatFacts
<1>5. Front(Append(t, x)) = SubSeq(Append(t, x), 1, Len(t))
  BY <1>3 DEF Front
<1> QED BY <1>1, <1>3, <1>4, <1>5

\* A nonempty bounded set of numbers has a largest element.
LEMMA LargestExists ==
  ASSUME NEW m \in Nat, NEW T \in SUBSET (0..m), T # {}
  PROVE  \E x \in T : \A y \in T : y <= x
<1> DEFINE Above(x) == {y \in T : y > x}
           F == {Above(x) : x \in T}
<1>1. IsFiniteSet(T)
  <2>1. IsFiniteSet(0..m)
    BY FS_Interval
  <2> QED BY <2>1, FS_Subset
<1>2. F \subseteq FiniteSubsetsOf(T) /\ F # {}
  <2>1. \A x \in T : IsFiniteSet(Above(x))
    BY <1>1, FS_Subset
  <2> QED BY <2>1 DEF FiniteSubsetsOf
<1>3. \E A \in F : \A C \in F : ~ (<<C, A>> \in StrictSubsetOrdering(T))
  <2> HIDE DEF F
  <2> QED BY <1>2, FS_StrictSubsetOrderingWellFounded, WFMin, Zenon
<1>4. PICK x \in T : \A C \in F : ~ (<<C, Above(x)>> \in StrictSubsetOrdering(T))
  BY <1>3
<1>5. ASSUME NEW y \in T, y > x PROVE FALSE
  <2>1. Above(y) \subseteq Above(x) /\ Above(y) # Above(x)
    <3>1. y \in Above(x) /\ y \notin Above(y)
      BY <1>5
    <3>2. ASSUME NEW z \in Above(y) PROVE z \in Above(x)
      <4>1. z \in Nat /\ y \in Nat /\ x \in Nat /\ z \in T /\ z > y
        OBVIOUS
      <4> QED BY <1>5, <4>1
    <3> QED BY <3>1, <3>2
  <2>2. Above(y) \in SUBSET T /\ Above(x) \in SUBSET T
    OBVIOUS
  <2>3. <<Above(y), Above(x)>> \in StrictSubsetOrdering(T)
    <3> HIDE DEF Above
    <3> QED BY <2>1, <2>2 DEF StrictSubsetOrdering
  <2> QED BY <1>4, <2>3
<1> QED BY <1>5

-----------------------------------------------------------------------------
(* One backend: forwards, chunks, truncation *)

\* A row of logits follows from a text, or from none.
Rows == Texts \cup {Junk}

\* The cache of a layer is a sequence of tokens and Junk.
LEMMA BackendFields ==
  ASSUME NEW be \in Backend
  PROVE  /\ be.loaded \in BOOLEAN /\ be.pos \in Nat
         /\ DOMAIN be.kv = 1..Layers
         /\ \A l \in 1..Layers : be.kv[l] \in Seq(Token \cup {Junk})
  BY DEF Backend

\* What truncate_to and a forward change of a backend.
Moved(be, n, k) == [be EXCEPT !.pos = n, !.kv = k]

\* A backend with another position and other caches is one.
LEMMA MovedFacts ==
  ASSUME NEW be \in Backend, NEW n \in Nat, NEW k \in [1..Layers -> Seq(Token \cup {Junk})]
  PROVE  /\ Moved(be, n, k) \in Backend /\ Moved(be, n, k).loaded = be.loaded
         /\ Moved(be, n, k).pos = n /\ Moved(be, n, k).kv = k
<1> DEFINE T == [1..Layers -> Seq(Token \cup {Junk})]
<1>1. k \in T /\ be \in [loaded : BOOLEAN, pos : Nat, kv : T]
  BY DEF Backend
<1> HIDE DEF T
<1>2. /\ Moved(be, n, k) \in [loaded : BOOLEAN, pos : Nat, kv : T]
      /\ Moved(be, n, k).loaded = be.loaded
      /\ Moved(be, n, k).pos = n /\ Moved(be, n, k).kv = k
  BY <1>1 DEF Moved
<1> QED BY <1>2 DEF Backend, T

\* There is a first layer and a last one.
LEMMA LayerOne == 1 \in 1..Layers /\ Layers \in 1..Layers
  BY CandleAssumption

\* A layer may hold a text, and a text has a length.
LEMMA TextsKv ==
  ASSUME NEW w \in Texts
  PROVE  w \in Seq(Token \cup {Junk}) /\ Len(w) \in Nat
  BY SeqMonotonic, LenProperties DEF Texts

\* Tokens are not Junk, nor are texts.
LEMMA NoJunk ==
  ASSUME NEW w \in Texts
  PROVE  w # Junk /\ \A i \in DOMAIN w : w[i] # Junk
<1>1. w # Junk
  BY DecodeAssumption DEF Texts
<1>2. \A i \in DOMAIN w : w[i] \in Token
  BY LenProperties, ElementOfSeq DEF Texts
<1> QED BY <1>1, <1>2, CandleAssumption

\* A backend that holds one text appends, in every layer, what a fresh run would.
LEMMA HoldsClean ==
  ASSUME NEW be, NEW w \in Texts, Holds(be, w), NEW l \in 0..Layers
  PROVE  Clean(be, l) /\ \A n : MaskMismatch(be, n) = {}
<1>1. be.pos = Len(w) /\ \A k \in 1..Layers : be.kv[k] = w
  BY DEF Holds
<1>2. \A k \in 1..l : k \in 1..Layers
  BY CandleAssumption
<1>3. \A i \in DOMAIN w : w[i] # Junk
  BY NoJunk
<1>4. l > 0 => be.kv[1] = w
  BY <1>1, LayerOne
<1>5. Clean(be, l)
  <2> SUFFICES ASSUME NEW k \in 1..l
               PROVE  /\ Len(be.kv[k]) = be.pos /\ be.kv[k] = be.kv[1]
                      /\ \A i \in DOMAIN be.kv[k] : be.kv[k][i] # Junk
    BY DEF Clean
  <2>1. be.kv[k] = w /\ l > 0
    BY <1>1, <1>2
  <2> QED BY <1>1, <1>3, <1>4, <2>1
<1>6. \A n : MaskMismatch(be, n) = {}
  BY <1>1 DEF MaskMismatch
<1> QED BY <1>5, <1>6

\* What a clean backend holds in its first layer is a text.
LEMMA CleanText ==
  ASSUME NEW be \in Backend, Clean(be, Layers)
  PROVE  be.kv[1] \in Texts /\ Len(be.kv[1]) = be.pos
<1>1. /\ be.kv[1] \in Seq(Token \cup {Junk}) /\ Len(be.kv[1]) = be.pos
      /\ \A i \in DOMAIN be.kv[1] : be.kv[1][i] # Junk
  BY BackendFields, LayerOne DEF Clean
<1> DEFINE w == be.kv[1]
<1>2. Len(w) \in Nat /\ w \in [1..Len(w) -> Token \cup {Junk}] /\ DOMAIN w = 1..Len(w)
  BY <1>1, LenProperties
<1>3. w \in [1..Len(w) -> Token]
  <2> HIDE DEF w
  <2>1. \A i \in 1..Len(w) : w[i] \in Token \cup {Junk}
    BY <1>2
  <2>2. \A i \in 1..Len(w) : w[i] \in Token
    BY <1>1, <1>2, <2>1 DEF w
  <2> QED BY <1>2, <2>2
<1>4. w \in Seq(Token)
  <2> HIDE DEF w
  <2> QED BY <1>2, <1>3, SeqDef
<1> QED BY <1>1, <1>4 DEF Texts

\* Every layer grows by the input, in tokens or in Junk.
LEMMA AppendedType ==
  ASSUME NEW be \in Backend, NEW toks \in Texts, NEW last
  PROVE  /\ Appended(be, toks, last) \in [1..Layers -> Seq(Token \cup {Junk})]
<1> DEFINE junk == [i \in 1..Len(toks) |-> Junk]
<1>1. Len(toks) \in Nat /\ toks \in Seq(Token \cup {Junk})
  BY TextsKv
<1>2. junk \in Seq(Token \cup {Junk})
  <2>1. junk \in [1..Len(toks) -> Token \cup {Junk}]
    OBVIOUS
  <2> HIDE DEF junk
  <2> QED BY <1>1, <2>1, SeqDef
<1>3. \A l \in 1..Layers : be.kv[l] \in Seq(Token \cup {Junk})
  BY BackendFields
<1> HIDE DEF junk
<1>4. \A l \in 1..Layers : /\ be.kv[l] \o toks \in Seq(Token \cup {Junk})
                           /\ be.kv[l] \o junk \in Seq(Token \cup {Junk})
  BY <1>1, <1>2, <1>3, ConcatProperties
<1>5. \A l \in 1..Layers :
        (IF l > last THEN be.kv[l] ELSE be.kv[l] \o (IF Clean(be, l) THEN toks ELSE junk))
          \in Seq(Token \cup {Junk})
  BY <1>3, <1>4
<1> QED BY <1>5 DEF Appended, junk

\* What a backend that holds w holds behind a whole pass over toks.
LEMMA PassedHolds ==
  ASSUME NEW be \in Backend, NEW w \in Texts, Holds(be, w), NEW toks \in Texts
  PROVE  LET f == Passed(be, toks, Layers)
         IN  /\ Holds(f.be, w \o toks)
             /\ \A i \in 1..Len(toks) : f.rows[i] = w \o SubSeq(toks, 1, i)
<1> DEFINE f == Passed(be, toks, Layers)
<1>1. be.pos = Len(w) /\ \A l \in 1..Layers : be.kv[l] = w
  BY DEF Holds
<1>2. \A l \in 1..Layers : Clean(be, l)
  BY HoldsClean, CandleAssumption
<1>3. \A l \in 1..Layers : Appended(be, toks, Layers)[l] = w \o toks
  <2> SUFFICES ASSUME NEW l \in 1..Layers PROVE Appended(be, toks, Layers)[l] = w \o toks
    OBVIOUS
  <2>1. ~(l > Layers)
    BY CandleAssumption
  <2> QED BY <1>1, <1>2, <2>1 DEF Appended
<1>4. f.be.pos = Len(w) + Len(toks) /\ f.be.kv = Appended(be, toks, Layers)
  BY <1>1 DEF Passed, Backend
<1>5. Len(w \o toks) = Len(w) + Len(toks)
  BY ConcatFacts DEF Texts
<1>6. Holds(f.be, w \o toks)
  <2> HIDE DEF f
  <2> QED BY <1>3, <1>4, <1>5 DEF Holds
<1>7. \A i \in 1..Len(toks) : f.rows[i] = w \o SubSeq(toks, 1, i)
  <2>1. f.rows = [i \in 1..Len(toks) |-> IF Clean(be, Layers) /\ Layers = Layers
                                          THEN be.kv[1] \o SubSeq(toks, 1, i) ELSE Junk]
    BY DEF Passed
  <2>2. be.kv[1] = w /\ Clean(be, Layers)
    BY <1>1, <1>2, LayerOne
  <2> QED BY <2>1, <2>2
<1> QED BY <1>6, <1>7

\* The types of a pass, and how far it moves the position.
LEMMA PassedType ==
  ASSUME NEW be \in Backend, NEW toks \in Texts, NEW exit \in 1..Layers
  PROVE  LET f == Passed(be, toks, exit)
         IN  /\ f.be \in Backend /\ f.ok = TRUE /\ f.be.loaded = be.loaded
             /\ f.be.pos = be.pos + Len(toks)
             /\ f.rows \in [1..Len(toks) -> Rows]
<1> DEFINE f == Passed(be, toks, exit)
<1>1. Appended(be, toks, exit) \in [1..Layers -> Seq(Token \cup {Junk})]
  BY AppendedType
<1>2. Len(toks) \in Nat
  BY TextsKv
<1>3. /\ f.be \in Backend /\ f.ok = TRUE /\ f.be.loaded = be.loaded
      /\ f.be.pos = be.pos + Len(toks)
  <2> DEFINE grown == Appended(be, toks, exit)
             n == be.pos + Len(toks)
  <2>1. f.be = Moved(be, n, grown) /\ f.ok = TRUE
    BY DEF Passed, Moved
  <2>2. n \in Nat
    BY <1>2, BackendFields
  <2> HIDE DEF f, grown, n
  <2>3. grown \in [1..Layers -> Seq(Token \cup {Junk})]
    BY <1>1 DEF grown
  <2>4. f.be \in Backend /\ f.be.loaded = be.loaded /\ f.be.pos = n
    BY <2>1, <2>2, <2>3, MovedFacts
  <2> QED BY <2>1, <2>4 DEF n
<1>4. f.rows \in [1..Len(toks) -> Rows]
  <2> SUFFICES ASSUME NEW i \in 1..Len(toks), Clean(be, exit) /\ exit = Layers
               PROVE  be.kv[1] \o SubSeq(toks, 1, i) \in Rows
    BY DEF Passed, Rows
  <2>1. be.kv[1] \in Texts
    BY CleanText
  <2>2. SubSeq(toks, 1, i) \in Texts
    BY <1>2, PrefixFacts DEF Texts
  <2> QED BY <2>1, <2>2, ConcatFacts DEF Texts, Rows
<1> QED BY <1>3, <1>4

\* A backend whose caches grew.
Grown(be, k) == [be EXCEPT !.kv = k]

\* A backend with other caches is one.
LEMMA GrownFacts ==
  ASSUME NEW be \in Backend, NEW k \in [1..Layers -> Seq(Token \cup {Junk})]
  PROVE  Grown(be, k) \in Backend /\ Grown(be, k).loaded = be.loaded
<1> DEFINE T == [1..Layers -> Seq(Token \cup {Junk})]
<1>1. k \in T /\ be \in [loaded : BOOLEAN, pos : Nat, kv : T]
  BY DEF Backend
<1> HIDE DEF T
<1>2. Grown(be, k) \in [loaded : BOOLEAN, pos : Nat, kv : T] /\ Grown(be, k).loaded = be.loaded
  BY <1>1 DEF Grown
<1> QED BY <1>2 DEF Backend, T

\* A forward appends its input to every layer up to exit, fails without a trace, or,
\* where the mask does not fit, behind the layers it has appended to.
LEMMA ForwardFacts ==
  ASSUME NEW be \in Backend, NEW toks \in Texts, NEW exit \in 1..Layers
  PROVE  LET f == Forward(be, toks, exit)
         IN  /\ f.be \in Backend /\ f.be.loaded = be.loaded /\ f.ok \in BOOLEAN
             /\ ~be.loaded => ~f.ok /\ f.be = be
             /\ f.ok => /\ f = Passed(be, toks, exit)
                        /\ Len(toks) > 0 /\ be.pos + Len(toks) <= MaxSeq
             /\ \A w \in Texts : Holds(be, w) /\ ~f.ok => f.be = be
<1> DEFINE f == Forward(be, toks, exit)
           bad == MaskMismatch(be, Len(toks))
           half == Appended(be, toks, Min(bad))
<1>1. CASE ~be.loaded \/ toks = <<>> \/ ~RotaryRows(be, Len(toks))
  <2>1. f = Failed(be)
    BY <1>1 DEF Forward
  <2>2. f.be = be /\ f.ok = FALSE
    BY <2>1 DEF Failed
  <2> QED BY <2>2
<1>2. CASE ~(~be.loaded \/ toks = <<>> \/ ~RotaryRows(be, Len(toks))) /\ bad # {}
  <2>1. f = Failed(Grown(be, half))
    BY <1>2 DEF Forward, Grown
  <2>2. f.be = Grown(be, half) /\ f.ok = FALSE
    BY <2>1 DEF Failed
  <2>3. half \in [1..Layers -> Seq(Token \cup {Junk})]
    BY AppendedType
  <2>4. \A w \in Texts : ~Holds(be, w)
    <3> SUFFICES ASSUME NEW w \in Texts, Holds(be, w) PROVE bad = {}
      BY <1>2
    <3>1. 0 \in 0..Layers
      BY CandleAssumption
    <3> QED BY <3>1, HoldsClean
  <2> HIDE DEF f, half
  <2> QED BY <1>2, <2>2, <2>3, <2>4, GrownFacts DEF f
<1>3. CASE ~(~be.loaded \/ toks = <<>> \/ ~RotaryRows(be, Len(toks))) /\ bad = {}
  <2>1. f = Passed(be, toks, exit)
    BY <1>3 DEF Forward
  <2>2. Len(toks) > 0 /\ be.pos + Len(toks) <= MaxSeq
    <3>1. Len(toks) > 0
      BY <1>3, EmptySeq DEF Texts
    <3> QED BY <1>3, <3>1 DEF RotaryRows
  <2> HIDE DEF f
  <2>3. f.be \in Backend /\ f.ok = TRUE /\ f.be.loaded = be.loaded
    <3>1. /\ Passed(be, toks, exit).be \in Backend /\ Passed(be, toks, exit).ok = TRUE
          /\ Passed(be, toks, exit).be.loaded = be.loaded
      BY PassedType
    <3> QED BY <2>1, <3>1
  <2> QED BY <1>3, <2>1, <2>2, <2>3 DEF f
<1> QED BY <1>1, <1>2, <1>3

\* Whole pieces that find room.
LEMMA WholePieces ==
  ASSUME NEW size \in Nat \ {0}, NEW room \in Nat
  PROVE  size * (room \div size) \in 0..room
  BY Z3

\* Input in pieces: all of it, or a beginning of it.
LEMMA InPiecesFacts ==
  ASSUME NEW be \in Backend, NEW toks \in Texts, NEW size \in Nat \ {0}
  PROVE  LET r == InPieces(be, toks, size)
         IN  /\ r.be \in Backend /\ r.be.loaded = be.loaded /\ r.ok \in BOOLEAN
             /\ ~be.loaded => ~r.ok /\ r.be = be
             /\ r.ok => /\ Len(toks) > 0 /\ r.be.pos = be.pos + Len(toks)
                        /\ r.rows \in [1..Len(toks) -> Rows]
             /\ \A w \in Texts : Holds(be, w) =>
                  IF r.ok
                  THEN /\ Holds(r.be, w \o toks)
                       /\ \A i \in 1..Len(toks) : r.rows[i] = w \o SubSeq(toks, 1, i)
                  ELSE \E n \in 0..Len(toks) : Holds(r.be, w \o SubSeq(toks, 1, n))
<1> DEFINE r == InPieces(be, toks, size)
           m == IF size < Len(toks) THEN size ELSE Len(toks)
           head == SubSeq(toks, 1, m)
           first == Forward(be, head, Layers)
           room == MaxSeq - be.pos
           fits == IF Len(toks) <= room THEN Len(toks) ELSE size * (room \div size)
           part == SubSeq(toks, 1, fits)
<1>1. Len(toks) \in Nat /\ m \in 0..Len(toks)
  BY TextsKv
<1>2. head \in Texts /\ Len(head) = m
  BY <1>1, PrefixFacts DEF Texts
<1>3. /\ first.be \in Backend /\ first.be.loaded = be.loaded /\ first.ok \in BOOLEAN
      /\ ~be.loaded => ~first.ok /\ first.be = be
      /\ first.ok => Len(head) > 0 /\ be.pos + Len(head) <= MaxSeq
      /\ \A w \in Texts : Holds(be, w) /\ ~first.ok => first.be = be
  <2> HIDE DEF head
  <2> QED BY <1>2, LayerOne, ForwardFacts
<1>4. CASE ~first.ok
  <2>1. r = first
    BY <1>4 DEF InPieces
  <2>2. ASSUME NEW w \in Texts, Holds(be, w)
        PROVE  \E n \in 0..Len(toks) : Holds(r.be, w \o SubSeq(toks, 1, n))
    <3>1. r.be = be
      BY <1>3, <1>4, <2>1, <2>2
    <3>2. SubSeq(toks, 1, 0) = <<>>
      BY SubSeqEmpty
    <3>3. w \o <<>> = w
      BY ConcatEmptySeq DEF Texts
    <3> HIDE DEF r
    <3>4. Holds(r.be, w \o SubSeq(toks, 1, 0))
      BY <2>2, <3>1, <3>2, <3>3, Zenon
    <3> QED BY <1>1, <3>4
  <2> HIDE DEF r, first
  <2> QED BY <1>3, <1>4, <2>1, <2>2 DEF r
<1>5. CASE first.ok
  <2>1. r = [Passed(be, part, Layers) EXCEPT !.ok = (fits = Len(toks))]
    BY <1>5 DEF InPieces
  <2>2. fits \in 0..Len(toks)
    <3>1. be.pos \in Nat /\ MaxSeq \in Nat /\ room \in Nat
      <4>1. be.pos \in Nat /\ MaxSeq \in Nat
        BY BackendFields, CandleAssumption
      <4> HIDE DEF head, first, m
      <4> QED BY <1>1, <1>2, <1>3, <1>5, <4>1
    <3>2. size * (room \div size) \in 0..room
      <4> HIDE DEF room
      <4> QED BY <3>1, WholePieces
    <3> HIDE DEF room
    <3> QED BY <1>1, <3>1, <3>2
  <2>3. part \in Texts /\ Len(part) = fits
    <3> HIDE DEF fits
    <3> QED BY <2>2, PrefixFacts DEF Texts
  <2>4. r.be = Passed(be, part, Layers).be /\ r.ok = (fits = Len(toks))
        /\ r.rows = Passed(be, part, Layers).rows
    <3> HIDE DEF r, part, fits
    <3> QED BY <2>1 DEF Passed
  <2>5. /\ r.be \in Backend /\ r.be.loaded = be.loaded
        /\ r.be.pos = be.pos + fits /\ r.rows \in [1..fits -> Rows]
    <3> HIDE DEF r, part, fits
    <3>1. /\ Passed(be, part, Layers).be \in Backend
          /\ Passed(be, part, Layers).be.loaded = be.loaded
          /\ Passed(be, part, Layers).be.pos = be.pos + Len(part)
          /\ Passed(be, part, Layers).rows \in [1..Len(part) -> Rows]
      BY <2>3, LayerOne, PassedType, ZenonT(30)
    <3> QED BY <2>3, <2>4, <3>1, Zenon
  <2>6. Len(toks) > 0 /\ be.loaded
    <3> HIDE DEF first, head
    <3> QED BY <1>1, <1>2, <1>3, <1>5, BackendFields
  <2>7. ASSUME NEW w \in Texts, Holds(be, w)
        PROVE  IF r.ok
               THEN /\ Holds(r.be, w \o toks)
                    /\ \A i \in 1..Len(toks) : r.rows[i] = w \o SubSeq(toks, 1, i)
               ELSE \E n \in 0..Len(toks) : Holds(r.be, w \o SubSeq(toks, 1, n))
    <3>1. /\ Holds(r.be, w \o part)
          /\ \A i \in 1..fits : r.rows[i] = w \o SubSeq(part, 1, i)
      <4> HIDE DEF r, part, fits
      <4>1. /\ Holds(Passed(be, part, Layers).be, w \o part)
            /\ \A i \in 1..Len(part) : Passed(be, part, Layers).rows[i] = w \o SubSeq(part, 1, i)
        BY <2>3, <2>7, PassedHolds
      <4> QED BY <2>3, <2>4, <4>1, Zenon
    <3>2. CASE fits = Len(toks)
      <4>1. part = toks
        BY <3>2, SubSeqFull DEF Texts
      <4> HIDE DEF r, part, fits
      <4> QED BY <2>4, <3>1, <3>2, <4>1
    <3>3. CASE fits # Len(toks)
      <4> HIDE DEF r, fits
      <4> QED BY <2>2, <2>4, <3>1, <3>3
    <3> QED BY <3>2, <3>3
  <2> HIDE DEF r, fits, part
  <2>8. r.ok \in BOOLEAN /\ (r.ok => r.be.pos = be.pos + Len(toks) /\ r.rows \in [1..Len(toks) -> Rows])
    BY <2>4, <2>5
  <2> QED BY <2>5, <2>6, <2>7, <2>8 DEF r
<1> QED BY <1>3, <1>4, <1>5

\* The logits of a pass are sampled at its last position.
LEMMA LastRow ==
  ASSUME NEW n \in Nat \ {0}, NEW rows \in [1..n -> Rows]
  PROVE  Len(rows) = n /\ LastOf(rows) = rows[n] /\ LastOf(rows) \in Rows
<1>1. rows \in Seq(Rows)
  BY SeqDef
<1>2. Len(rows) \in Nat /\ DOMAIN rows = 1..Len(rows) /\ DOMAIN rows = 1..n
  BY <1>1, LenProperties
<1>3. Len(rows) = n
  BY <1>2
<1> QED BY <1>3 DEF LastOf

\* forward_logits from a backend that holds w: the logits of the whole text, or a part
\* of the input behind w.
LEMMA ForwardLogitsHolds ==
  ASSUME NEW be \in Backend, NEW toks \in Texts, NEW w \in Texts, Holds(be, w)
  PROVE  LET f == ForwardLogits(be, toks)
         IN  /\ f.ok \in BOOLEAN
             /\ f.ok => Holds(f.be, w \o toks) /\ LastOf(f.rows) = w \o toks
             /\ ~f.ok => \E n \in 0..Len(toks) : Holds(f.be, w \o SubSeq(toks, 1, n))
<1> DEFINE r == InPieces(be, toks, PrefillChunk)
<1>1. PrefillChunk \in Nat \ {0} /\ Len(toks) \in Nat
  BY CandleAssumption, TextsKv
<1>2. /\ r.ok \in BOOLEAN
      /\ r.ok => /\ Len(toks) > 0 /\ r.rows \in [1..Len(toks) -> Rows]
                 /\ Holds(r.be, w \o toks)
                 /\ \A i \in 1..Len(toks) : r.rows[i] = w \o SubSeq(toks, 1, i)
      /\ ~r.ok => \E n \in 0..Len(toks) : Holds(r.be, w \o SubSeq(toks, 1, n))
  BY <1>1, InPiecesFacts
<1>3. ForwardLogits(be, toks) = r
  BY DEF ForwardLogits
<1> HIDE DEF r
<1>4. ASSUME r.ok PROVE LastOf(r.rows) = w \o toks
  <2>1. Len(toks) \in Nat \ {0} /\ Len(toks) \in 1..Len(toks)
    BY <1>1, <1>2, <1>4
  <2>2. LastOf(r.rows) = r.rows[Len(toks)]
    BY <1>2, <1>4, <2>1, LastRow
  <2>3. SubSeq(toks, 1, Len(toks)) = toks
    BY SubSeqFull DEF Texts
  <2>4. r.rows[Len(toks)] = w \o SubSeq(toks, 1, Len(toks))
    BY <1>2, <1>4, <2>1
  <2> QED BY <2>2, <2>3, <2>4
<1> QED BY <1>2, <1>3, <1>4

\* forward_logits on any backend.
LEMMA ForwardLogitsType ==
  ASSUME NEW be \in Backend, NEW toks \in Texts
  PROVE  LET f == ForwardLogits(be, toks)
         IN  /\ f.be \in Backend /\ f.be.loaded = be.loaded /\ f.ok \in BOOLEAN
             /\ ~be.loaded => ~f.ok /\ f.be = be
             /\ f.ok => f.be.pos = be.pos + Len(toks) /\ LastOf(f.rows) \in Rows
<1> DEFINE r == InPieces(be, toks, PrefillChunk)
<1>1. PrefillChunk \in Nat \ {0} /\ Len(toks) \in Nat
  BY CandleAssumption, TextsKv
<1>2. /\ r.be \in Backend /\ r.be.loaded = be.loaded /\ r.ok \in BOOLEAN
      /\ ~be.loaded => ~r.ok /\ r.be = be
      /\ r.ok => /\ Len(toks) > 0 /\ r.be.pos = be.pos + Len(toks)
                 /\ r.rows \in [1..Len(toks) -> Rows]
  BY <1>1, InPiecesFacts
<1>3. ForwardLogits(be, toks) = r
  BY DEF ForwardLogits
<1> HIDE DEF r
<1>4. r.ok => LastOf(r.rows) \in Rows
  <2>1. Len(toks) > 0 => Len(toks) \in Nat \ {0}
    BY <1>1
  <2> QED BY <1>2, <2>1, LastRow
<1> QED BY <1>2, <1>3, <1>4

\* truncate_to moves the position in any case, and shortens what is longer.
LEMMA TruncateFacts ==
  ASSUME NEW be \in Backend, NEW n \in Nat
  PROVE  /\ TruncateTo(be, n) \in Backend /\ TruncateTo(be, n).loaded = be.loaded
         /\ TruncateTo(be, n).pos = n
         /\ \A l \in 1..Layers :
              TruncateTo(be, n).kv[l] =
                SubSeq(be.kv[l], 1, IF n < Len(be.kv[l]) THEN n ELSE Len(be.kv[l]))
<1> DEFINE cut == [l \in 1..Layers |->
                     SubSeq(be.kv[l], 1, IF n < Len(be.kv[l]) THEN n ELSE Len(be.kv[l]))]
<1>1. TruncateTo(be, n) = Moved(be, n, cut)
  BY DEF TruncateTo, Moved, Backend
<1>2. cut \in [1..Layers -> Seq(Token \cup {Junk})]
  <2> SUFFICES ASSUME NEW l \in 1..Layers
               PROVE  SubSeq(be.kv[l], 1, IF n < Len(be.kv[l]) THEN n ELSE Len(be.kv[l]))
                        \in Seq(Token \cup {Junk})
    OBVIOUS
  <2>1. be.kv[l] \in Seq(Token \cup {Junk}) /\ Len(be.kv[l]) \in Nat
    BY BackendFields, LenProperties
  <2>2. (IF n < Len(be.kv[l]) THEN n ELSE Len(be.kv[l])) \in 0..Len(be.kv[l])
    BY <2>1
  <2> QED BY <2>1, <2>2, PrefixFacts
<1> HIDE DEF cut
<1>3. /\ Moved(be, n, cut) \in Backend /\ Moved(be, n, cut).loaded = be.loaded
      /\ Moved(be, n, cut).pos = n /\ Moved(be, n, cut).kv = cut
  BY <1>2, MovedFacts
<1> QED BY <1>1, <1>3 DEF cut

\* A rollback of a backend that holds a text leaves a prefix of it.
LEMMA TruncateHolds ==
  ASSUME NEW be \in Backend, NEW w \in Texts, Holds(be, w), NEW n \in 0..Len(w)
  PROVE  Holds(TruncateTo(be, n), SubSeq(w, 1, n))
<1>1. be.pos = Len(w) /\ \A l \in 1..Layers : be.kv[l] = w
  BY DEF Holds
<1>2. Len(w) \in Nat /\ n \in Nat /\ (IF n < Len(w) THEN n ELSE Len(w)) = n
  BY TextsKv
<1>3. TruncateTo(be, n).pos = n
      /\ \A l \in 1..Layers : TruncateTo(be, n).kv[l] =
           SubSeq(be.kv[l], 1, IF n < Len(be.kv[l]) THEN n ELSE Len(be.kv[l]))
  BY <1>2, TruncateFacts
<1>4. \A l \in 1..Layers : TruncateTo(be, n).kv[l] = SubSeq(w, 1, n)
  BY <1>1, <1>2, <1>3
<1>5. Len(SubSeq(w, 1, n)) = n
  BY PrefixFacts DEF Texts
<1> QED BY <1>3, <1>4, <1>5 DEF Holds

\* reset_position and clear_kv_cache leave the empty text.
LEMMA ResetFacts ==
  ASSUME NEW be \in Backend
  PROVE  /\ Reset(be) \in Backend /\ Reset(be).loaded = be.loaded
         /\ Reset(be).kv = NoKv /\ Reset(be).pos = 0 /\ Holds(Reset(be), <<>>)
<1>1. NoKv \in [1..Layers -> Seq(Token \cup {Junk})]
  BY EmptySeq DEF NoKv
<1>2. Reset(be) = Moved(be, 0, NoKv)
  BY DEF Reset, Moved
<1>3. /\ Moved(be, 0, NoKv) \in Backend /\ Moved(be, 0, NoKv).loaded = be.loaded
      /\ Moved(be, 0, NoKv).pos = 0 /\ Moved(be, 0, NoKv).kv = NoKv
  BY <1>1, MovedFacts
<1>4. Holds(Reset(be), <<>>)
  BY <1>2, <1>3, EmptySeq DEF Holds, NoKv
<1> QED BY <1>2, <1>3, <1>4

\* The backend holds one text, and w is a prefix of it.
Ahead(be, w) ==
  /\ be.kv[1] \in Texts /\ Holds(be, be.kv[1])
  /\ Len(w) <= Len(be.kv[1]) /\ w = SubSeq(be.kv[1], 1, Len(w))

\* It holds w, more, or all of w but the last token.
Trail(be, w) == Ahead(be, w) \/ (w # <<>> /\ Holds(be, Front(w)))

\* A backend is ahead of every prefix of what it holds.
LEMMA AheadOfPrefix ==
  ASSUME NEW be, NEW w \in Texts, Holds(be, w), NEW n \in 0..Len(w)
  PROVE  Ahead(be, SubSeq(w, 1, n))
<1>1. be.kv[1] = w
  BY LayerOne DEF Holds
<1>2. Len(SubSeq(w, 1, n)) = n /\ Len(w) \in Nat
  BY PrefixFacts, TextsKv DEF Texts
<1> QED BY <1>1, <1>2 DEF Ahead

\* It is ahead of all that it holds.
LEMMA AheadOfText ==
  ASSUME NEW be, NEW w \in Texts, Holds(be, w)
  PROVE  Ahead(be, w)
<1>1. Len(w) \in 0..Len(w) /\ SubSeq(w, 1, Len(w)) = w
  BY TextsKv, SubSeqFull DEF Texts
<1>2. Ahead(be, SubSeq(w, 1, Len(w)))
  BY <1>1, AheadOfPrefix
<1> QED BY <1>1, <1>2

\* And of every text it extends.
LEMMA AheadOfPart ==
  ASSUME NEW be, NEW w \in Texts, NEW v \in Texts, Holds(be, w \o v)
  PROVE  Ahead(be, w)
<1> DEFINE u == w \o v
<1>1. u \in Texts /\ Len(w) \in 0..Len(u) /\ SubSeq(u, 1, Len(w)) = w
  BY ConcatFacts DEF Texts
<1> HIDE DEF u
<1>2. Ahead(be, SubSeq(u, 1, Len(w)))
  BY <1>1, AheadOfPrefix DEF u
<1> QED BY <1>1, <1>2

\* lcp_len.
LEMMA SharedPrefixFacts ==
  ASSUME NEW s \in Texts, NEW t \in Texts
  PROVE  /\ SharedPrefix(s, t) \in 0..Len(s) /\ SharedPrefix(s, t) <= Len(t)
         /\ SubSeq(s, 1, SharedPrefix(s, t)) = SubSeq(t, 1, SharedPrefix(s, t))
<1> DEFINE T == {n \in 0..Len(s) : n <= Len(t) /\ SubSeq(s, 1, n) = SubSeq(t, 1, n)}
<1>1. Len(s) \in Nat /\ Len(t) \in Nat
  BY TextsKv
<1>2. 0 \in T
  <2>1. SubSeq(s, 1, 0) = <<>> /\ SubSeq(t, 1, 0) = <<>>
    BY SubSeqEmpty
  <2> QED BY <1>1, <2>1
<1>3. T \in SUBSET (0..Len(s))
  OBVIOUS
<1>4. Max(T) \in T
  <2> HIDE DEF T
  <2>1. \E x \in T : \A y \in T : y <= x
    BY <1>1, <1>2, <1>3, LargestExists
  <2>2. \E x \in T : \A y \in T : x >= y
    BY <1>3, <2>1
  <2> QED BY <2>2 DEF Max
<1>5. SharedPrefix(s, t) = Max(T)
  BY DEF SharedPrefix
<1> QED BY <1>4, <1>5

\* What prepare_prompt_cache and prefill_cached reuse: less than the whole prompt.
LEMMA ReuseFacts ==
  ASSUME NEW prompt \in Texts, NEW c \in Texts, Len(prompt) > 0
  PROVE  LET n == PrepareReuse(prompt, c)
         IN  /\ ReuseOf(prompt, c) = n
             /\ n \in 0..(Len(prompt) - 1) /\ n <= Len(c)
             /\ SubSeq(prompt, 1, n) = SubSeq(c, 1, n)
<1> DEFINE lcp == SharedPrefix(prompt, c)
           n == PrepareReuse(prompt, c)
<1>1. /\ lcp \in 0..Len(prompt) /\ lcp <= Len(c)
      /\ SubSeq(prompt, 1, lcp) = SubSeq(c, 1, lcp)
  BY SharedPrefixFacts
<1>2. n = (IF lcp < Len(prompt) - 1 THEN lcp ELSE Len(prompt) - 1) /\ ReuseOf(prompt, c) = n
  BY DEF PrepareReuse, ReuseOf
<1>3. Len(prompt) \in Nat /\ Len(c) \in Nat
  BY TextsKv
<1> HIDE DEF lcp, n
<1>4. n \in 0..(Len(prompt) - 1) /\ n <= Len(c) /\ n \in 0..lcp
  BY <1>1, <1>2, <1>3
<1>5. SubSeq(prompt, 1, n) = SubSeq(c, 1, n)
  <2>1. SubSeq(SubSeq(prompt, 1, lcp), 1, n) = SubSeq(prompt, 1, n)
    BY <1>1, <1>4, PrefixOfPrefix DEF Texts
  <2>2. lcp \in 0..Len(c)
    BY <1>1, <1>3
  <2>3. SubSeq(SubSeq(c, 1, lcp), 1, n) = SubSeq(c, 1, n)
    BY <1>4, <2>2, PrefixOfPrefix DEF Texts
  <2> QED BY <1>1, <2>1, <2>3
<1> QED BY <1>2, <1>4, <1>5 DEF n

\* prepare_prompt_cache: a backend that holds the noted prompt, or more of it, or all
\* of it but a token where the caches are long enough, holds the reused prefix.
LEMMA PrepareFacts ==
  ASSUME NEW be \in Backend, NEW prompt \in Texts, NEW c \in Texts, Len(prompt) > 0
  PROVE  LET p == Prepare(be, prompt, c)
         IN  /\ p.be \in Backend /\ p.be.loaded = be.loaded /\ p.be.pos = p.start
             /\ p.start \in 0..(Len(prompt) - 1)
             /\ p.cached = SubSeq(prompt, 1, p.start)
             /\ be.kv = NoKv => p.be.kv = NoKv
             /\ p.start = 0 \/ Ahead(be, c) => Holds(p.be, SubSeq(prompt, 1, p.start))
             /\ Trail(be, c) /\ (\A l \in 1..Layers : ~(Len(p.be.kv[l]) < p.start))
                  => Holds(p.be, SubSeq(prompt, 1, p.start))
<1> DEFINE p == Prepare(be, prompt, c)
           n == PrepareReuse(prompt, c)
<1>1. /\ n \in 0..(Len(prompt) - 1) /\ n <= Len(c) /\ n \in Nat
      /\ SubSeq(prompt, 1, n) = SubSeq(c, 1, n)
  BY ReuseFacts, TextsKv
<1>2. CASE n = 0
  <2>1. p = [be |-> Reset(be), cached |-> <<>>, start |-> 0]
    BY <1>2 DEF Prepare
  <2>2. SubSeq(prompt, 1, 0) = <<>>
    BY SubSeqEmpty
  <2>3. p.be = Reset(be) /\ p.cached = <<>> /\ p.start = 0
    BY <2>1
  <2> HIDE DEF p, n
  <2> QED BY <1>1, <1>2, <2>2, <2>3, ResetFacts DEF p
<1>3. CASE n # 0
  <2>1. p = [be |-> TruncateTo(be, n), cached |-> SubSeq(c, 1, n), start |-> n]
    BY <1>3 DEF Prepare
  <2>2. p.be = TruncateTo(be, n) /\ p.cached = SubSeq(c, 1, n) /\ p.start = n
    <3> HIDE DEF p, n
    <3> QED BY <2>1
  <2> HIDE DEF p, n
  <2>3. /\ p.be \in Backend /\ p.be.loaded = be.loaded /\ p.be.pos = n
        /\ \A l \in 1..Layers : p.be.kv[l] =
             SubSeq(be.kv[l], 1, IF n < Len(be.kv[l]) THEN n ELSE Len(be.kv[l]))
    <3>1. /\ TruncateTo(be, n) \in Backend /\ TruncateTo(be, n).loaded = be.loaded
          /\ TruncateTo(be, n).pos = n
          /\ \A l \in 1..Layers : TruncateTo(be, n).kv[l] =
               SubSeq(be.kv[l], 1, IF n < Len(be.kv[l]) THEN n ELSE Len(be.kv[l]))
      BY <1>1, TruncateFacts
    <3> QED BY <2>2, <3>1, Zenon
  <2>4. ASSUME be.kv = NoKv PROVE p.be.kv = NoKv
    <3>1. \A l \in 1..Layers : p.be.kv[l] = <<>>
      <4> SUFFICES ASSUME NEW l \in 1..Layers PROVE p.be.kv[l] = <<>>
        OBVIOUS
      <4>1. be.kv[l] = <<>> /\ Len(be.kv[l]) = 0
        BY <2>4, EmptySeq DEF NoKv
      <4>2. (IF n < Len(be.kv[l]) THEN n ELSE Len(be.kv[l])) = 0
        BY <1>1, <1>3, <4>1
      <4>3. SubSeq(be.kv[l], 1, 0) = <<>>
        BY SubSeqEmpty
      <4> QED BY <2>3, <4>2, <4>3
    <3>2. DOMAIN p.be.kv = 1..Layers /\ p.be.kv = [l \in DOMAIN p.be.kv |-> p.be.kv[l]]
      BY <2>3 DEF Backend
    <3> QED BY <3>1, <3>2 DEF NoKv
  <2>5. ASSUME NEW h \in Texts, Holds(be, h), n <= Len(h), SubSeq(h, 1, n) = SubSeq(c, 1, n)
        PROVE  Holds(p.be, SubSeq(prompt, 1, n))
    <3>1. n \in 0..Len(h)
      BY <1>1, <2>5, TextsKv
    <3>2. Holds(TruncateTo(be, n), SubSeq(h, 1, n))
      BY <2>5, <3>1, TruncateHolds
    <3> QED BY <1>1, <2>2, <2>5, <3>2
  <2>6. ASSUME Ahead(be, c) PROVE Holds(p.be, SubSeq(prompt, 1, n))
    <3> DEFINE h == be.kv[1]
    <3>1. h \in Texts /\ Holds(be, h) /\ Len(c) <= Len(h) /\ c = SubSeq(h, 1, Len(c))
      BY <2>6 DEF Ahead
    <3>2. Len(c) \in Nat /\ Len(h) \in Nat
      BY <3>1, TextsKv
    <3> HIDE DEF h
    <3>3. SubSeq(SubSeq(h, 1, Len(c)), 1, n) = SubSeq(h, 1, n)
      <4>1. Len(c) \in 0..Len(h) /\ n \in 0..Len(c)
        BY <1>1, <3>1, <3>2
      <4> QED BY <3>1, <4>1, PrefixOfPrefix DEF Texts
    <3>4. n <= Len(h) /\ SubSeq(h, 1, n) = SubSeq(c, 1, n)
      BY <1>1, <3>1, <3>2, <3>3
    <3> QED BY <2>5, <3>1, <3>4
  <2>7. ASSUME c # <<>>, Holds(be, Front(c)), \A l \in 1..Layers : ~(Len(p.be.kv[l]) < n)
        PROVE  Holds(p.be, SubSeq(prompt, 1, n))
    <3>1. Len(c) > 0 /\ Len(c) \in Nat
      BY <2>7, EmptySeq DEF Texts
    <3>2. Front(c) = SubSeq(c, 1, Len(c) - 1) /\ Front(c) \in Texts /\ Len(Front(c)) = Len(c) - 1
      BY <3>1, FrontAndLast DEF Texts
    <3> DEFINE h == Front(c)
    <3>3. be.kv[1] = h
      BY <2>7, LayerOne DEF Holds
    <3>4. n <= Len(h)
      <4> SUFFICES ASSUME ~(n <= Len(h)) PROVE FALSE
        OBVIOUS
      <4>1. h \in Texts /\ Len(h) \in Nat
        BY <3>2, TextsKv
      <4>2. ~(n < Len(h)) /\ Len(h) < n
        BY <1>1, <4>1
      <4>3. p.be.kv[1] = SubSeq(h, 1, Len(h))
        BY <2>3, <3>3, <4>2, LayerOne
      <4>4. p.be.kv[1] = h
        BY <4>1, <4>3, SubSeqFull DEF Texts
      <4>5. ~(Len(p.be.kv[1]) < n)
        BY <2>7, LayerOne
      <4> QED BY <4>2, <4>4, <4>5
    <3>5. SubSeq(h, 1, n) = SubSeq(c, 1, n)
      <4>1. Len(c) - 1 \in 0..Len(c) /\ n \in 0..(Len(c) - 1)
        BY <1>1, <3>1, <3>2, <3>4
      <4> QED BY <3>2, <4>1, PrefixOfPrefix DEF Texts
    <3> HIDE DEF h
    <3>6. h \in Texts /\ Holds(be, h)
      BY <2>7, <3>2 DEF h
    <3> QED BY <2>5, <3>4, <3>5, <3>6
  <2> QED BY <1>1, <1>3, <2>2, <2>3, <2>4, <2>6, <2>7 DEF p, Trail
<1> QED BY <1>2, <1>3

-----------------------------------------------------------------------------
(* The resident cache *)

\* The first n positions of the resident cache hold w.
ResHolds(rkv, w, n) == \A p \in 0..(n - 1) : rkv[p] = SubSeq(w, 1, p + 1)

\* What a row attends behind positions that hold a text is that text.
LEMMA AttendsHeld ==
  ASSUME NEW rkv, NEW w \in Texts, NEW n \in 0..Len(w), ResHolds(rkv, w, n)
  PROVE  Attends(rkv, n) = SubSeq(w, 1, n)
<1>1. Len(w) \in Nat
  BY TextsKv
<1>2. CASE n = 0
  <2>1. SubSeq(w, 1, 0) = <<>>
    BY SubSeqEmpty
  <2> QED BY <1>2, <2>1 DEF Attends
<1>3. CASE n # 0
  <2> DEFINE u == SubSeq(w, 1, n)
  <2>1. u \in Texts
    BY PrefixFacts DEF Texts
  <2>2. rkv[n - 1] = u
    <3>1. n - 1 \in 0..(n - 1) /\ (n - 1) + 1 = n
      BY <1>1, <1>3
    <3> QED BY <3>1 DEF ResHolds
  <2>3. \A p \in 0..(n - 2) : rkv[p] = SubSeq(u, 1, p + 1)
    <3> SUFFICES ASSUME NEW p \in 0..(n - 2) PROVE rkv[p] = SubSeq(u, 1, p + 1)
      OBVIOUS
    <3>1. p \in 0..(n - 1) /\ p + 1 \in 0..n
      BY <1>1
    <3>2. rkv[p] = SubSeq(w, 1, p + 1)
      BY <3>1 DEF ResHolds
    <3>3. SubSeq(SubSeq(w, 1, n), 1, p + 1) = SubSeq(w, 1, p + 1)
      BY <3>1, PrefixOfPrefix DEF Texts
    <3> QED BY <3>2, <3>3
  <2>4. u # Junk
    BY <2>1, NoJunk
  <2> HIDE DEF u
  <2>5. Attends(rkv, n) = u
    BY <1>3, <2>2, <2>3, <2>4 DEF Attends
  <2> QED BY <2>5 DEF u
<1> QED BY <1>2, <1>3

\* A cache is written in place.
LEMMA FedDomain ==
  ASSUME NEW rkv, NEW toks, NEW start
  PROVE  /\ DOMAIN FeedAll(rkv, toks, start) = DOMAIN rkv
         /\ DOMAIN FeedPadded(rkv, toks, start) = DOMAIN rkv
  BY DEF FeedAll, FeedPadded

\* Tokens fed behind a text extend it, in one batch or one by one.
LEMMA FedHolds ==
  ASSUME NEW rkv, DOMAIN rkv = 0..(LaneSeq - 1), NEW w \in Texts, NEW toks \in Texts,
         ResHolds(rkv, w, Len(w)), Len(w) + Len(toks) <= LaneSeq
  PROVE  /\ ResHolds(FeedAll(rkv, toks, Len(w)), w \o toks, Len(w) + Len(toks))
         /\ ResHolds(FeedPadded(rkv, toks, Len(w)), w \o toks, Len(w) + Len(toks))
<1> DEFINE start == Len(w)
           m == Len(toks)
           fed == FeedAll(rkv, toks, start)
           pad == FeedPadded(rkv, toks, start)
<1>1. start \in Nat /\ m \in Nat /\ LaneSeq \in Nat
  BY TextsKv, ResidentAssumption
<1>2. Attends(rkv, start) = w
  <2>1. start \in 0..Len(w)
    BY <1>1
  <2>2. SubSeq(w, 1, Len(w)) = w
    BY SubSeqFull DEF Texts
  <2>3. Attends(rkv, start) = SubSeq(w, 1, start)
    BY <2>1, AttendsHeld
  <2> QED BY <2>2, <2>3
<1>3. w # Junk
  BY NoJunk
<1>4. ASSUME NEW p \in 0..((start + m) - 1)
      PROVE  fed[p] = SubSeq(w \o toks, 1, p + 1) /\ pad[p] = fed[p]
  <2>1. p \in DOMAIN rkv /\ ~(p >= start + m)
    BY <1>1
  <2>2. fed[p] = IF p < start \/ p >= start + m THEN rkv[p]
                 ELSE IF Attends(rkv, start) = Junk THEN Junk
                 ELSE Attends(rkv, start) \o SubSeq(toks, 1, p - start + 1)
    BY <2>1 DEF FeedAll
  <2>3. pad[p] = fed[p]
    BY <2>1 DEF FeedPadded
  <2>4. CASE p < start
    <3>1. p \in 0..(start - 1) /\ p + 1 \in 0..Len(w)
      BY <1>1, <2>4
    <3>2. rkv[p] = SubSeq(w, 1, p + 1)
      BY <3>1 DEF ResHolds
    <3>3. SubSeq(w \o toks, 1, p + 1) = SubSeq(w, 1, p + 1)
      BY <3>1, PrefixInside DEF Texts
    <3> QED BY <2>2, <2>3, <2>4, <3>2, <3>3
  <2>5. CASE ~(p < start)
    <3> DEFINE k == p - start + 1
    <3>1. k \in 0..Len(toks) /\ Len(w) + k = p + 1
      BY <1>1, <2>5
    <3>2. SubSeq(w \o toks, 1, Len(w) + k) = w \o SubSeq(toks, 1, k)
      <4> HIDE DEF k
      <4> QED BY <3>1, PrefixBeyond DEF Texts
    <3>3. fed[p] = w \o SubSeq(toks, 1, k)
      BY <1>2, <1>3, <2>1, <2>2, <2>5
    <3> HIDE DEF k, fed, pad
    <3> QED BY <2>3, <3>1, <3>2, <3>3
  <2> QED BY <2>4, <2>5
<1> HIDE DEF fed, pad, start, m
<1>5. ResHolds(fed, w \o toks, start + m) /\ ResHolds(pad, w \o toks, start + m)
  BY <1>4 DEF ResHolds
<1> QED BY <1>5 DEF fed, pad, start, m

\* Positions that hold a text hold every prefix of it.
LEMMA ResPrefix ==
  ASSUME NEW rkv, NEW w \in Texts, NEW m \in 0..Len(w), NEW n \in 0..m, ResHolds(rkv, w, m)
  PROVE  ResHolds(rkv, SubSeq(w, 1, n), n)
<1> SUFFICES ASSUME NEW p \in 0..(n - 1)
             PROVE  rkv[p] = SubSeq(SubSeq(w, 1, n), 1, p + 1)
  BY DEF ResHolds
<1>1. Len(w) \in Nat
  BY TextsKv
<1>2. p \in 0..(m - 1) /\ p + 1 \in 0..n /\ n \in 0..Len(w)
  BY <1>1
<1>3. rkv[p] = SubSeq(w, 1, p + 1)
  BY <1>2 DEF ResHolds
<1>4. SubSeq(SubSeq(w, 1, n), 1, p + 1) = SubSeq(w, 1, p + 1)
  BY <1>2, PrefixOfPrefix DEF Texts
<1> QED BY <1>3, <1>4

\* prefill_cached holds the prompt when the tokens noted as resident are, or none of
\* them is reused.
LEMMA PrefillCachedFacts ==
  ASSUME NEW rkv, DOMAIN rkv = 0..(LaneSeq - 1), NEW c \in Texts, NEW prompt \in Texts,
         Len(prompt) > 0
  PROVE  /\ DOMAIN PrefillCached(rkv, c, prompt, ShortSuffix) = 0..(LaneSeq - 1)
         /\ /\ ReuseOf(prompt, c) = 0 \/ ResHolds(rkv, c, Len(c))
            /\ Len(prompt) <= LaneSeq
            => ResHolds(PrefillCached(rkv, c, prompt, ShortSuffix), prompt, Len(prompt))
<1> DEFINE n == ReuseOf(prompt, c)
           suffix == SubSeq(prompt, n + 1, Len(prompt))
           kept == SubSeq(prompt, 1, n)
           r == PrefillCached(rkv, c, prompt, ShortSuffix)
<1>1. r = IF Len(suffix) > ShortSuffix THEN FeedPadded(rkv, suffix, n) ELSE FeedAll(rkv, suffix, n)
  BY DEF PrefillCached
<1>2. /\ n \in 0..(Len(prompt) - 1) /\ n <= Len(c) /\ kept = SubSeq(c, 1, n)
      /\ Len(prompt) \in Nat /\ Len(c) \in Nat /\ n \in 0..Len(prompt)
  BY ReuseFacts, TextsKv
<1>3. /\ kept \in Texts /\ Len(kept) = n /\ suffix \in Texts
      /\ Len(suffix) = Len(prompt) - n /\ kept \o suffix = prompt
  <2> HIDE DEF n
  <2> QED BY <1>2, PrefixFacts, SplitAt DEF Texts
<1>4. DOMAIN r = 0..(LaneSeq - 1)
  <2> HIDE DEF r, suffix, n
  <2> QED BY <1>1, FedDomain
<1>5. ASSUME n = 0 \/ ResHolds(rkv, c, Len(c)), Len(prompt) <= LaneSeq
      PROVE  ResHolds(r, prompt, Len(prompt))
  <2>1. ResHolds(rkv, kept, Len(kept))
    <3>1. CASE n = 0
      <4> HIDE DEF n, kept
      <4>1. Len(kept) - 1 = -1
        BY <1>3, <3>1
      <4> QED BY <4>1 DEF ResHolds
    <3>2. CASE ResHolds(rkv, c, Len(c))
      <4> HIDE DEF n, kept
      <4>1. Len(c) \in 0..Len(c) /\ n \in 0..Len(c)
        BY <1>2
      <4>2. ResHolds(rkv, SubSeq(c, 1, n), n)
        BY <3>2, <4>1, ResPrefix
      <4> QED BY <1>2, <1>3, <4>2
    <3> QED BY <1>5, <3>1, <3>2
  <2> HIDE DEF n, kept, suffix, r
  <2>2. Len(kept) + Len(suffix) = Len(prompt) /\ Len(kept) + Len(suffix) <= LaneSeq
    BY <1>2, <1>3, <1>5
  <2>3. /\ ResHolds(FeedAll(rkv, suffix, Len(kept)), kept \o suffix, Len(kept) + Len(suffix))
        /\ ResHolds(FeedPadded(rkv, suffix, Len(kept)), kept \o suffix, Len(kept) + Len(suffix))
    BY <1>3, <2>1, <2>2, FedHolds
  <2> QED BY <1>1, <1>3, <2>2, <2>3, Zenon
<1> QED BY <1>4, <1>5

-----------------------------------------------------------------------------
(* Drafts, verification and commits *)

\* A draft is a piece of the text it was looked up in.
LEMMA LookupType ==
  ASSUME NEW text \in Seq(Token), NEW n \in Nat, NEW k \in Int
  PROVE  LookupDraft(text, text, n, k) \in Seq(Token)
<1> DEFINE key == SubSeq(text, Len(text) - n + 1, Len(text))
           starts == {i \in 0..(Len(text) - n - 1) : SubSeq(text, i + 1, i + n) = key}
           start == CHOOSE i \in starts : \A j \in starts : j <= i
           from == start + n
           rest == Len(text) - from
           upto == from + (IF k < rest THEN k ELSE rest)
<1>0. Len(text) \in Nat
  OBVIOUS
<1>3. LookupDraft(text, text, n, k) =
        IF Len(text) < n \/ Len(text) < n + 1 \/ k = 0 THEN <<>>
        ELSE IF starts = {} THEN <<>> ELSE SubSeq(text, from + 1, upto)
  BY DEF LookupDraft
<1>1. CASE Len(text) < n \/ Len(text) < n + 1 \/ k = 0 \/ starts = {}
  <2> HIDE DEF starts, from, upto
  <2>1. LookupDraft(text, text, n, k) = <<>>
    BY <1>1, <1>3
  <2> QED BY <2>1
<1>2. CASE ~(Len(text) < n \/ Len(text) < n + 1 \/ k = 0 \/ starts = {})
  <2>1. start \in 0..(Len(text) - n - 1)
    <3> DEFINE m == Len(text) - n - 1
    <3>0. PICK l \in Nat : l = Len(text)
      BY <1>0
    <3>1. m \in Nat
      <4>1. ~(l < n + 1)
        BY <1>2, <3>0
      <4>2. m = l - n - 1
        BY <3>0
      <4> QED BY <4>1, <4>2
    <3>3. starts \in SUBSET (0..m) /\ starts # {}
      BY <1>2
    <3> HIDE DEF m, starts
    <3>2. \E x \in starts : \A y \in starts : y <= x
      BY <3>1, <3>3, LargestExists
    <3> QED BY <3>1, <3>2, <3>3 DEF m
  <2>2. LookupDraft(text, text, n, k) = SubSeq(text, from + 1, upto)
    <3> HIDE DEF starts, from, upto
    <3> QED BY <1>2, <1>3
  <2> HIDE DEF start, starts
  <2>3. from \in Nat /\ rest \in Nat /\ upto \in Int /\ upto <= Len(text)
    <3>1. \A l, s \in Nat : \A j \in Int :
            s + n <= l => /\ s + n \in Nat /\ l - (s + n) \in Nat
                          /\ (s + n) + (IF j < l - (s + n) THEN j ELSE l - (s + n)) \in Int
                          /\ (s + n) + (IF j < l - (s + n) THEN j ELSE l - (s + n)) <= l
      OBVIOUS
    <3>2. start \in Nat /\ start + n <= Len(text)
      BY <1>0, <2>1
    <3> QED BY <1>0, <3>1, <3>2
  <2> HIDE DEF from, upto
  <2>4. \A i \in (from + 1)..upto : text[i] \in Token
    BY <1>0, <2>3
  <2>5. SubSeq(text, from + 1, upto) \in Seq(Token)
    <3>1. from + 1 \in Int
      BY <2>3
    <3> QED BY <2>3, <2>4, <3>1, SubSeqProperties
  <2> QED BY <2>2, <2>5
<1> QED BY <1>1, <1>2

\* accepted_len: the rows agree with the draft as far as it is accepted.
LEMMA AcceptedFacts ==
  ASSUME NEW d \in Seq(Token), NEW o \in [1..(Len(d) + 1) -> Token]
  PROVE  /\ Accepted(d, o) \in 0..Len(d)
         /\ \A i \in 1..Accepted(d, o) : o[i] = d[i]
<1> DEFINE m == Len(d)
           Agrees(n) == \A i \in 1..n : o[i] = d[i]
           T == {n \in 0..m : Agrees(n)}
<1>1. m \in Nat
  OBVIOUS
<1>2. \E n \in 0..m : Agrees(n) /\ (n < m => o[n + 1] # d[n + 1])
  <2>1. 0 \in T
    BY <1>1
  <2>2. PICK x \in T : \A y \in T : y <= x
    <3>1. T \in SUBSET (0..m) /\ T # {}
      BY <2>1
    <3> HIDE DEF T
    <3> QED BY <1>1, <3>1, LargestExists
  <2>3. ASSUME x < m, o[x + 1] = d[x + 1] PROVE FALSE
    <3> HIDE DEF m
    <3>1. x + 1 \in 0..m /\ \A i \in 1..(x + 1) : i \in 1..x \/ i = x + 1
      BY <1>1, <2>3
    <3>2. Agrees(x + 1)
      BY <2>3, <3>1
    <3>3. x + 1 \in T
      BY <3>1, <3>2
    <3> QED BY <1>1, <2>2, <3>3
  <2> QED BY <2>2, <2>3
<1>3. Accepted(d, o) = CHOOSE n \in 0..m : Agrees(n) /\ (n < m => o[n + 1] # d[n + 1])
  BY DEF Accepted
<1> HIDE DEF m, Agrees
<1>4. Accepted(d, o) \in 0..m /\ Agrees(Accepted(d, o))
  BY <1>2, <1>3
<1> QED BY <1>4 DEF m, Agrees

\* A greedy draw from the row of a text is the model's argmax after it.
LEMMA DrawFacts ==
  ASSUME NEW row, NEW t \in Draw(row)
  PROVE  t \in Token /\ (row # Junk => t = Greedy(row))
  BY DEF Draw

\* The length of the part of a reply that was generated.
Reply(j) == Len(j.text) - Len(j.prompt)

\* Every token behind the prompt is the model's argmax after the text before it.
Cold(prompt, text) ==
  \A i \in (Len(prompt) + 1)..Len(text) : text[i] = Greedy(SubSeq(text, 1, i - 1))
\* The reply is the one of a cold slot.
AsIfCold(j) == Cold(j.prompt, j.text)

\* Tokens that are the model's own keep a reply as it would be from a cold start.
LEMMA ColdExtends ==
  ASSUME NEW prompt \in Texts, NEW text \in Texts, NEW toks \in Texts, Cold(prompt, text),
         \A i \in 1..Len(toks) : toks[i] = Greedy(text \o SubSeq(toks, 1, i - 1))
  PROVE  Cold(prompt, text \o toks)
<1> DEFINE w == text \o toks
<1>1. /\ Len(w) = Len(text) + Len(toks) /\ Len(text) \in Nat /\ Len(toks) \in Nat
      /\ \A i \in 1..Len(text) : w[i] = text[i]
      /\ \A i \in 1..Len(toks) : w[Len(text) + i] = toks[i]
  BY ConcatFacts DEF Texts
<1>2. Len(prompt) \in Nat
  BY TextsKv
<1> SUFFICES ASSUME NEW i \in (Len(prompt) + 1)..Len(w)
             PROVE  w[i] = Greedy(SubSeq(w, 1, i - 1))
  BY DEF Cold
<1>3. CASE i <= Len(text)
  <2> HIDE DEF w
  <2>1. i \in 1..Len(text) /\ i \in (Len(prompt) + 1)..Len(text) /\ i - 1 \in 0..Len(text)
    BY <1>1, <1>2, <1>3
  <2>2. SubSeq(w, 1, i - 1) = SubSeq(text, 1, i - 1)
    BY <2>1, PrefixInside DEF w, Texts
  <2>3. text[i] = Greedy(SubSeq(text, 1, i - 1))
    BY <2>1 DEF Cold
  <2> QED BY <1>1, <2>1, <2>2, <2>3
<1>4. CASE ~(i <= Len(text))
  <2> DEFINE k == i - Len(text)
  <2> HIDE DEF w
  <2>1. k \in 1..Len(toks) /\ i = Len(text) + k /\ k - 1 \in 0..Len(toks)
        /\ i - 1 = Len(text) + (k - 1)
    BY <1>1, <1>2, <1>4
  <2> HIDE DEF k
  <2>2. SubSeq(w, 1, Len(text) + (k - 1)) = text \o SubSeq(toks, 1, k - 1)
    BY <2>1, PrefixBeyond DEF w, Texts
  <2>3. toks[k] = Greedy(text \o SubSeq(toks, 1, k - 1))
    BY <2>1
  <2> QED BY <1>1, <2>1, <2>2, <2>3
<1> QED BY <1>3, <1>4

\* A prefix of the model's own tokens is the model's own.
LEMMA OwnPrefixes ==
  ASSUME NEW text \in Texts, NEW toks \in Texts, NEW n \in 0..Len(toks),
         \A i \in 1..Len(toks) : toks[i] = Greedy(text \o SubSeq(toks, 1, i - 1))
  PROVE  \A i \in 1..n :
           SubSeq(toks, 1, n)[i] = Greedy(text \o SubSeq(SubSeq(toks, 1, n), 1, i - 1))
<1> SUFFICES ASSUME NEW i \in 1..n
             PROVE  SubSeq(toks, 1, n)[i] = Greedy(text \o SubSeq(SubSeq(toks, 1, n), 1, i - 1))
  OBVIOUS
<1>1. Len(toks) \in Nat
  BY TextsKv
<1>2. i \in 1..Len(toks) /\ i - 1 \in 0..n
  BY <1>1
<1>3. SubSeq(toks, 1, n)[i] = toks[i]
  BY PrefixFacts DEF Texts
<1>4. SubSeq(SubSeq(toks, 1, n), 1, i - 1) = SubSeq(toks, 1, i - 1)
  BY <1>2, PrefixOfPrefix DEF Texts
<1> QED BY <1>2, <1>3, <1>4

-----------------------------------------------------------------------------
(* The request being served *)

\* The types of a request.
JobSet ==
  [phase : {"idle", "top", "pld", "spec", "fast", "end"},
   lane : {"candle", "spec", "fast"}, stream : BOOLEAN, prompt : Texts,
   max : Nat, text : Texts, start : Nat, left : Nat, stop : Seq(Token),
   row : Rows, draftRow : Rows, next : Token, sent : Texts,
   gone : BOOLEAN, filled : BOOLEAN, again : BOOLEAN, pld : BOOLEAN]

\* k is request j with toks behind its text, some of them sent.
Continues(k, j, toks) ==
  /\ k \in JobSet /\ k.text = j.text \o toks
  /\ k.phase = j.phase /\ k.lane = j.lane /\ k.stream = j.stream /\ k.prompt = j.prompt
  /\ k.max = j.max /\ k.start = j.start /\ k.left = j.left /\ k.gone = j.gone
  /\ k.filled = j.filled /\ k.again = j.again /\ k.pld = j.pld
  /\ k.row = j.row /\ k.next = j.next

\* A reply is measured in tokens behind its prompt.
LEMMA ReplyLength ==
  ASSUME NEW j \in JobSet, Len(j.prompt) <= Len(j.text)
  PROVE  Len(Generated(j)) = Reply(j) /\ Reply(j) \in Nat
<1>1. j.text \in Texts /\ j.prompt \in Texts
  BY DEF JobSet
<1>2. Len(j.text) \in Nat /\ Len(j.prompt) \in 0..Len(j.text)
  BY <1>1, TextsKv
<1>3. Len(SubSeq(j.text, Len(j.prompt) + 1, Len(j.text))) = Len(j.text) - Len(j.prompt)
  BY <1>1, <1>2, SplitAt DEF Texts
<1>4. Len(Generated(j)) = Reply(j)
  BY <1>3, Zenon DEF Generated, Reply
<1>5. Reply(j) \in Nat
  BY <1>2 DEF Reply
<1> QED BY <1>4, <1>5

\* Committed tokens reach the text.
LEMMA ExtendedContinues ==
  ASSUME NEW j \in JobSet, NEW toks \in Texts
  PROVE  Continues(Extended(j, toks), j, toks)
<1>1. j.text \o toks \in Texts
  BY ConcatFacts DEF JobSet, Texts
<1> DEFINE w == j.text \o toks
<1> HIDE DEF w
<1>2. w \in Texts
  BY <1>1 DEF w
<1>3. Extended(j, toks) = [j EXCEPT !.text = w]
  BY DEF Extended, w
<1>4. Continues(Extended(j, toks), j, toks)
  BY <1>2, <1>3 DEF JobSet, Continues, w
<1> QED BY <1>4

\* What is sent to the client does not change the text.
LEMMA SentContinues ==
  ASSUME NEW j \in JobSet, NEW k, NEW toks, Continues(k, j, toks), NEW s \in Texts
  PROVE  Continues([k EXCEPT !.sent = s], j, toks)
  BY DEF JobSet, Continues

\* A largest element.
LEMMA MaxIn ==
  ASSUME NEW m \in Nat, NEW T \in SUBSET (0..m), T # {}
  PROVE  Max(T) \in T /\ \A x \in T : x <= Max(T)
<1>1. \E x \in T : \A y \in T : y <= x
  BY LargestExists
<1>2. \E x \in T : \A y \in T : x >= y
  BY <1>1
<1>3. Max(T) \in T /\ \A y \in T : Max(T) >= y
  BY <1>2 DEF Max
<1> QED BY <1>3

\* How much of toks a reply takes when nothing cuts it: up to a stop token or a full
\* reply.
LEMMA TakenFacts ==
  ASSUME NEW j \in JobSet, Len(j.prompt) <= Len(j.text), NEW toks \in Texts
  PROVE  LET n == Taken(j, toks, LAMBDA i : FALSE)
         IN  /\ n \in 0..Len(toks)
             /\ n > 0 => Reply(j) + n <= j.max
             /\ (~AtEos(j, toks, n) /\ Reply(j) + n < j.max) => n = Len(toks)
<1> DEFINE T == {n \in 0..Len(toks) :
                   \A i \in 1..n : toks[i] # Eos /\ Len(Generated(j)) + i <= j.max}
           n == Taken(j, toks, LAMBDA i : FALSE)
<1>1. n = Max(T)
  BY DEF Taken
<1>2. Len(toks) \in Nat /\ j.max \in Nat /\ Len(Generated(j)) = Reply(j) /\ Reply(j) \in Nat
  BY ReplyLength, TextsKv DEF JobSet
<1>3. T \in SUBSET (0..Len(toks)) /\ 0 \in T
  BY <1>2
<1>4. n \in T /\ \A x \in T : x <= n
  <2> HIDE DEF T, n
  <2> QED BY <1>1, <1>2, <1>3, MaxIn
<1>5. n \in 0..Len(toks) /\ \A i \in 1..n : toks[i] # Eos /\ Reply(j) + i <= j.max
  <2> HIDE DEF n
  <2> QED BY <1>2, <1>4
<1>6. n > 0 => Reply(j) + n <= j.max
  <2> HIDE DEF n
  <2> QED BY <1>2, <1>5
<1>7. ASSUME n # Len(toks), Reply(j) + n < j.max PROVE AtEos(j, toks, n)
  <2> HIDE DEF n
  <2>1. n + 1 \in 0..Len(toks) /\ n < Len(toks) /\ ~(n + 1 <= n)
    BY <1>2, <1>5, <1>7
  <2>2. n + 1 \notin T
    BY <1>4, <2>1
  <2>3. toks[n + 1] = Eos
    <3> SUFFICES ASSUME toks[n + 1] # Eos PROVE n + 1 \in T
      BY <2>2
    <3>1. \A i \in 1..(n + 1) : i \in 1..n \/ i = n + 1
      BY <1>5
    <3>2. Reply(j) + (n + 1) <= j.max
      BY <1>2, <1>5, <1>7
    <3> QED BY <1>2, <1>5, <2>1, <3>1, <3>2
  <2> QED BY <1>2, <1>7, <2>1, <2>3 DEF AtEos
<1> QED BY <1>5, <1>6, <1>7

\* A batch commits the accepted tokens up to a stop token or a full reply, and goes on
\* to the model's own token only behind all of them.
LEMMA CommitDraftedFacts ==
  ASSUME NEW j \in JobSet, Len(j.prompt) <= Len(j.text), NEW toks \in Texts
  PROVE  \E n \in 0..Len(toks) :
           /\ Continues(CommitDrafted(j, toks).job, j, SubSeq(toks, 1, n))
           /\ n > 0 => Reply(j) + n <= j.max
           /\ (~CommitDrafted(j, toks).early /\ Reply(j) + n < j.max) => n = Len(toks)
<1> DEFINE n == Taken(j, toks, LAMBDA i : FALSE)
           p == Extended(j, SubSeq(toks, 1, n))
<1>1. /\ n \in 0..Len(toks)
      /\ n > 0 => Reply(j) + n <= j.max
      /\ (~AtEos(j, toks, n) /\ Reply(j) + n < j.max) => n = Len(toks)
  BY TakenFacts
<1>2. CommitDrafted(j, toks) = [job |-> p, early |-> AtEos(j, toks, n) \/ StopHit(p)]
  BY DEF CommitDrafted
<1> HIDE DEF n
<1>3. SubSeq(toks, 1, n) \in Texts
  BY <1>1, PrefixFacts DEF Texts
<1>4. Continues(p, j, SubSeq(toks, 1, n))
  BY <1>3, ExtendedContinues
<1> DEFINE e == AtEos(j, toks, n) \/ StopHit(p)
<1>5. CommitDrafted(j, toks).job = p /\ (~CommitDrafted(j, toks).early => ~AtEos(j, toks, n))
  <2>1. CommitDrafted(j, toks) = [job |-> p, early |-> e]
    BY <1>2
  <2> HIDE DEF p, e
  <2>2. CommitDrafted(j, toks).job = p /\ CommitDrafted(j, toks).early = e
    BY <2>1
  <2> QED BY <2>2 DEF e
<1> HIDE DEF p
<1> QED BY <1>1, <1>4, <1>5

\* A stream commits and sends them one by one, and may stop at each.
LEMMA StreamDraftedFacts ==
  ASSUME NEW j \in JobSet, Len(j.prompt) <= Len(j.text), NEW toks \in Texts
  PROVE  \E n \in 0..Len(toks) :
           /\ Continues(StreamDrafted(j, toks).job, j, SubSeq(toks, 1, n))
           /\ n > 0 => Reply(j) + n <= j.max
           /\ (~StreamDrafted(j, toks).early /\ Reply(j) + n < j.max) => n = Len(toks)
<1> DEFINE Stops(i) == j.gone \/ StopHit(Extended(j, SubSeq(toks, 1, i)))
           T == {k \in 0..Len(toks) :
                   \A i \in 1..k : /\ toks[i] # Eos
                                   /\ Len(Generated(j)) + i <= j.max
                                   /\ i > 1 => ~Stops(i - 1)}
           n == Max(T)
           cut == n > 0 /\ Stops(n)
           p == Extended(j, SubSeq(toks, 1, n))
           s == j.sent \o SubSeq(toks, 1, IF cut THEN n - 1 ELSE n)
<1>1. StreamDrafted(j, toks) =
        [job |-> [p EXCEPT !.sent = @ \o SubSeq(toks, 1, IF cut THEN n - 1 ELSE n)],
         early |-> cut \/ AtEos(j, toks, n)]
  BY DEF StreamDrafted, Taken
<1>2. Len(toks) \in Nat /\ j.max \in Nat /\ Len(Generated(j)) = Reply(j) /\ Reply(j) \in Nat
  BY ReplyLength, TextsKv DEF JobSet
<1>3. T \in SUBSET (0..Len(toks)) /\ 0 \in T
  BY <1>2
<1>4. n \in T /\ \A x \in T : x <= n
  <2> HIDE DEF T
  <2> QED BY <1>2, <1>3, MaxIn
<1>5. /\ n \in 0..Len(toks)
      /\ \A i \in 1..n : /\ toks[i] # Eos /\ Reply(j) + i <= j.max
                         /\ i > 1 => ~Stops(i - 1)
  <2> HIDE DEF n, Stops
  <2> QED BY <1>2, <1>4
<1>6. n > 0 => Reply(j) + n <= j.max
  <2> HIDE DEF n
  <2> QED BY <1>2, <1>5
<1>7. ASSUME n # Len(toks), Reply(j) + n < j.max, ~cut PROVE AtEos(j, toks, n)
  <2> HIDE DEF n, Stops
  <2>1. n + 1 \in 0..Len(toks) /\ n < Len(toks) /\ ~(n + 1 <= n)
    BY <1>2, <1>5, <1>7
  <2>2. n + 1 \notin T
    BY <1>4, <2>1
  <2>3. toks[n + 1] = Eos
    <3> SUFFICES ASSUME toks[n + 1] # Eos PROVE n + 1 \in T
      BY <2>2
    <3>1. \A i \in 1..(n + 1) : i \in 1..n \/ i = n + 1
      BY <1>5
    <3>2. Reply(j) + (n + 1) <= j.max
      BY <1>2, <1>5, <1>7
    <3>3. n + 1 > 1 => ~Stops((n + 1) - 1)
      <4>1. (n + 1) - 1 = n
        BY <1>5
      <4> QED BY <1>5, <1>7, <4>1
    <3> QED BY <1>2, <1>5, <2>1, <3>1, <3>2, <3>3
  <2> QED BY <1>2, <1>7, <2>1, <2>3 DEF AtEos
<1> HIDE DEF T, n, Stops, cut
<1>8. Continues(p, j, SubSeq(toks, 1, n))
  <2>1. SubSeq(toks, 1, n) \in Texts
    BY <1>5, PrefixFacts DEF Texts
  <2> QED BY <2>1, ExtendedContinues
<1>9. s \in Texts /\ p.sent = j.sent
  <2>1. (IF cut THEN n - 1 ELSE n) \in 0..Len(toks)
    <3>1. CASE cut
      BY <1>2, <1>5, <3>1 DEF cut
    <3>2. CASE ~cut
      BY <1>5, <3>2
    <3> QED BY <3>1, <3>2
  <2> DEFINE m == IF cut THEN n - 1 ELSE n
  <2> HIDE DEF m
  <2>2. SubSeq(toks, 1, m) \in Texts
    BY <2>1, PrefixFacts DEF Texts, m
  <2>3. j.sent \in Texts
    BY DEF JobSet
  <2>4. p.sent = j.sent
    BY DEF JobSet, Extended
  <2>5. j.sent \o SubSeq(toks, 1, m) \in Texts
    BY <2>2, <2>3, ConcatFacts DEF Texts
  <2> QED BY <2>4, <2>5 DEF m
<1>10. StreamDrafted(j, toks).job = [p EXCEPT !.sent = s]
       /\ (~StreamDrafted(j, toks).early => ~cut /\ ~AtEos(j, toks, n))
  <2>1. [p EXCEPT !.sent = @ \o SubSeq(toks, 1, IF cut THEN n - 1 ELSE n)] = [p EXCEPT !.sent = s]
    <3> DEFINE z == SubSeq(toks, 1, IF cut THEN n - 1 ELSE n)
    <3> HIDE DEF z, p
    <3>1. p.sent \o z = j.sent \o z
      BY <1>9
    <3> QED BY <3>1 DEF z
  <2> DEFINE e == cut \/ AtEos(j, toks, n)
  <2>2. StreamDrafted(j, toks) = [job |-> [p EXCEPT !.sent = s], early |-> e]
    BY <1>1, <2>1
  <2> HIDE DEF p, s, e
  <2>3. StreamDrafted(j, toks).job = [p EXCEPT !.sent = s] /\ StreamDrafted(j, toks).early = e
    BY <2>2
  <2> QED BY <2>3 DEF e
<1>11. Continues(StreamDrafted(j, toks).job, j, SubSeq(toks, 1, n))
  <2> HIDE DEF p, s
  <2> QED BY <1>8, <1>9, <1>10, SentContinues
<1> QED BY <1>5, <1>6, <1>7, <1>10, <1>11

\* The commit of a speculative iteration stops at the same places.
LEMMA CommitSpecFacts ==
  ASSUME NEW j \in JobSet, Len(j.prompt) <= Len(j.text), NEW toks \in Texts
  PROVE  \E n \in 0..Len(toks) :
           /\ Continues(CommitSpec(j, toks).job, j, SubSeq(toks, 1, n))
           /\ n > 0 => Reply(j) + n <= j.max
           /\ (~CommitSpec(j, toks).eos /\ Reply(j) + n < j.max) => n = Len(toks)
<1> DEFINE n == Taken(j, toks, LAMBDA i : FALSE)
           p == Extended(j, SubSeq(toks, 1, n))
           e == AtEos(j, toks, n)
<1>1. /\ n \in 0..Len(toks)
      /\ n > 0 => Reply(j) + n <= j.max
      /\ (~AtEos(j, toks, n) /\ Reply(j) + n < j.max) => n = Len(toks)
  BY TakenFacts
<1>2. CommitSpec(j, toks) = [job |-> p, eos |-> e]
  BY DEF CommitSpec
<1> HIDE DEF n
<1>3. SubSeq(toks, 1, n) \in Texts
  BY <1>1, PrefixFacts DEF Texts
<1>4. Continues(p, j, SubSeq(toks, 1, n))
  BY <1>3, ExtendedContinues
<1>5. CommitSpec(j, toks).job = p /\ CommitSpec(j, toks).eos = e
  <2> HIDE DEF p, e
  <2> QED BY <1>2
<1> HIDE DEF p
<1> QED BY <1>1, <1>4, <1>5

\* k is request j with toks behind its text, in whatever phase.
Resumes(k, j, toks) ==
  /\ k \in JobSet /\ k.text = j.text \o toks
  /\ k.lane = j.lane /\ k.stream = j.stream /\ k.prompt = j.prompt
  /\ k.max = j.max /\ k.left = j.left /\ k.again = j.again /\ k.pld = j.pld

\* push: one token behind the text, sent or not.
LEMMA PushContinues ==
  ASSUME NEW j \in JobSet, NEW t \in Token
  PROVE  Continues(Push(j, t), j, <<t>>) /\ Continues(Sent(Push(j, t), t), j, <<t>>)
<1>1. /\ Append(j.text, t) = j.text \o <<t>> /\ Append(j.text, t) \in Texts
      /\ Append(j.sent, t) \in Texts
  BY Pushed DEF JobSet, Texts
<1> DEFINE w == j.text \o <<t>>
           s == Append(j.sent, t)
           p == Push(j, t)
<1> HIDE DEF w, s
<1>2. w \in Texts /\ s \in Texts
  BY <1>1 DEF w, s
<1>3. p = [j EXCEPT !.text = w]
  BY <1>1 DEF Push, w
<1> HIDE DEF p
<1>4. Continues(p, j, <<t>>) /\ p.sent = j.sent /\ p.stream = j.stream
  BY <1>2, <1>3 DEF JobSet, Continues, w
<1>5. Sent(p, t) = p \/ Sent(p, t) = [p EXCEPT !.sent = s]
  BY <1>4 DEF Sent, s
<1>6. Continues([p EXCEPT !.sent = s], j, <<t>>)
  <2> HIDE DEF p
  <2> QED BY <1>2, <1>4, Single, SentContinues DEF Texts
<1>7. Continues(Sent(p, t), j, <<t>>)
  BY <1>4, <1>5, <1>6
<1> QED BY <1>4, <1>7 DEF p

\* Nor does one more token sent.
LEMMA SentAgain ==
  ASSUME NEW j \in JobSet, NEW t \in Token, NEW toks, NEW i \in JobSet, Continues(j, i, toks)
  PROVE  Continues(Sent(j, t), i, toks)
<1> DEFINE s == Append(j.sent, t)
<1>1. s \in Texts
  BY Pushed DEF JobSet, Texts
<1>2. Sent(j, t) = j \/ Sent(j, t) = [j EXCEPT !.sent = s]
  BY DEF Sent
<1> HIDE DEF s
<1>3. Continues([j EXCEPT !.sent = s], i, toks)
  BY <1>1, SentContinues
<1> QED BY <1>2, <1>3

\* The phases a committed token may lead to.
LEMMA OnwardFacts ==
  ASSUME NEW j \in JobSet, NEW i \in JobSet, NEW toks, Continues(j, i, toks),
         Len(j.prompt) <= Len(j.text),
         NEW k \in Onward(j) \cup {[j EXCEPT !.phase = "end"]}
  PROVE  /\ Resumes(k, i, toks) /\ k.filled = i.filled
         /\ k.phase \in {"top", "pld", "end"}
         /\ k.phase = "pld" => Reply(k) < k.max
<1>1. \/ k = [j EXCEPT !.phase = "top"] \/ k = [j EXCEPT !.phase = "end"]
      \/ k = [j EXCEPT !.phase = "pld"] /\ Len(Generated(j)) < j.max
  BY DEF Onward
<1>2. Len(Generated(j)) = Reply(j)
  BY ReplyLength
<1>3. CASE k = [j EXCEPT !.phase = "top"]
  <2>1. Resumes(k, i, toks) /\ k.filled = i.filled /\ k.phase = "top"
    BY <1>3 DEF JobSet, Continues, Resumes
  <2> QED BY <2>1
<1>5. CASE k = [j EXCEPT !.phase = "end"]
  <2>1. Resumes(k, i, toks) /\ k.filled = i.filled /\ k.phase = "end"
    BY <1>5 DEF JobSet, Continues, Resumes
  <2> QED BY <2>1
<1>4. CASE k = [j EXCEPT !.phase = "pld"] /\ Len(Generated(j)) < j.max
  <2>1. Resumes(k, i, toks) /\ k.filled = i.filled /\ k.phase = "pld"
    BY <1>4 DEF JobSet, Continues, Resumes
  <2>2. k.text = j.text /\ k.prompt = j.prompt /\ k.max = j.max
    BY <1>4 DEF JobSet
  <2> QED BY <1>2, <1>4, <2>1, <2>2 DEF Reply
<1> QED BY <1>1, <1>3, <1>4, <1>5

\* A turn that sampled: the forward failed, the reply ended, or a token was committed.
LEMMA SampledFacts ==
  ASSUME NEW j \in JobSet, NEW f, Sampled(j, f), Len(j.prompt) <= Len(j.text)
  PROVE  \E toks \in Texts :
           /\ Resumes(job', j, toks)
           /\ job'.phase \in {"top", "pld", "end"}
           /\ job'.phase = "pld" => Reply(job') < job'.max
           /\ f.ok => job'.filled = TRUE
           /\ ~f.ok => job'.filled = j.filled
           /\ toks = <<>> => job'.phase = "end"
           /\ toks # <<>> => f.ok /\ \E t \in Draw(LastOf(f.rows)) : toks = <<t>>
<1>1. <<>> \in Texts /\ j.text \o <<>> = j.text
  BY ConcatEmptySeq, EmptySeq DEF JobSet, Texts
<1> DEFINE ended == [j EXCEPT !.phase = "end"]
           k == [j EXCEPT !.filled = TRUE]
           filled == [j EXCEPT !.filled = TRUE, !.phase = "end"]
<1>2. CASE ~f.ok
  <2>1. job' = ended
    BY <1>2 DEF Sampled
  <2>2. Resumes(ended, j, <<>>) /\ ended.phase = "end" /\ ended.filled = j.filled
    BY <1>1 DEF JobSet, Resumes
  <2> HIDE DEF ended
  <2> QED BY <1>1, <1>2, <2>1, <2>2
<1>3. CASE f.ok /\ job' = filled
  <2>1. Resumes(filled, j, <<>>) /\ filled.phase = "end" /\ filled.filled = TRUE
    BY <1>1 DEF JobSet, Resumes
  <2> HIDE DEF filled
  <2> QED BY <1>1, <1>3, <2>1
<1>4. ASSUME f.ok, NEW t \in Draw(LastOf(f.rows)),
             job' \in IF j.stream THEN AfterStreamed(Push(k, t), t) ELSE AfterBlocking(Push(k, t))
      PROVE  /\ Resumes(job', j, <<t>>) /\ job'.filled = TRUE
             /\ job'.phase \in {"top", "pld", "end"}
             /\ job'.phase = "pld" => Reply(job') < job'.max
  <2>1. t \in Token
    BY DrawFacts
  <2> DEFINE p == Push(k, t)
             q == Sent(p, t)
  <2>2. /\ k \in JobSet /\ k.text = j.text /\ k.filled = TRUE /\ k.prompt = j.prompt
        /\ k.lane = j.lane /\ k.stream = j.stream /\ k.max = j.max /\ k.left = j.left
        /\ k.again = j.again /\ k.pld = j.pld
    BY DEF JobSet
  <2> HIDE DEF k
  <2>3. Continues(p, k, <<t>>) /\ Continues(q, k, <<t>>)
    BY <2>1, <2>2, PushContinues
  <2>4. p \in JobSet /\ q \in JobSet
    BY <2>3 DEF Continues
  <2>5. job' \in Onward(p) \cup {[p EXCEPT !.phase = "end"]} \/ job' \in Onward(q)
    BY <1>4 DEF AfterBlocking, AfterStreamed
  <2>6. Len(p.prompt) <= Len(p.text) /\ Len(q.prompt) <= Len(q.text)
    <3>1. Len(j.text \o <<t>>) = Len(j.text) + Len(<<t>>) /\ Len(<<t>>) = 1
      <4>1. <<t>> \in Texts /\ Len(<<t>>) = 1 /\ j.text \in Texts
        BY <2>1, Single DEF Texts, JobSet
      <4> QED BY <4>1, ConcatFacts DEF Texts
    <3>2. Len(j.text) \in Nat /\ Len(j.prompt) \in Nat
      BY TextsKv DEF JobSet
    <3>3. Len(j.prompt) <= Len(j.text \o <<t>>)
      BY <3>1, <3>2
    <3>4. p.text = j.text \o <<t>> /\ q.text = j.text \o <<t>> /\ p.prompt = j.prompt
          /\ q.prompt = j.prompt
      BY <2>2, <2>3 DEF Continues
    <3> QED BY <3>3, <3>4
  <2> HIDE DEF p, q
  <2>7. /\ Resumes(job', k, <<t>>) /\ job'.filled = k.filled
        /\ job'.phase \in {"top", "pld", "end"}
        /\ job'.phase = "pld" => Reply(job') < job'.max
    BY <2>2, <2>3, <2>4, <2>5, <2>6, OnwardFacts
  <2>8. Resumes(job', j, <<t>>)
    BY <2>2, <2>7 DEF Resumes
  <2> QED BY <2>2, <2>7, <2>8
<1>5. ASSUME f.ok, NEW t \in Draw(LastOf(f.rows)), t # Eos,
             job' \in IF j.stream THEN AfterStreamed(Push(k, t), t) ELSE AfterBlocking(Push(k, t))
      PROVE  \E toks \in Texts :
               /\ Resumes(job', j, toks)
               /\ job'.phase \in {"top", "pld", "end"}
               /\ job'.phase = "pld" => Reply(job') < job'.max
               /\ f.ok => job'.filled = TRUE
               /\ ~f.ok => job'.filled = j.filled
               /\ toks = <<>> => job'.phase = "end"
               /\ toks # <<>> => f.ok /\ \E x \in Draw(LastOf(f.rows)) : toks = <<x>>
  <2>1. <<t>> \in Texts /\ <<t>> # <<>>
    <3>1. t \in Token
      BY DrawFacts
    <3> QED BY <3>1 DEF Texts
  <2> HIDE DEF k
  <2> QED BY <1>4, <1>5, <2>1
<1>6. CASE f.ok /\ job' # filled
  <2>1. PICK t \in Draw(LastOf(f.rows)) :
          job' \in IF t = Eos THEN {[k EXCEPT !.phase = "end"]}
                   ELSE IF j.stream THEN AfterStreamed(Push(k, t), t)
                   ELSE AfterBlocking(Push(k, t))
    BY <1>6 DEF Sampled
  <2>2. [k EXCEPT !.phase = "end"] = filled
    BY DEF JobSet
  <2>3. t # Eos
    BY <1>6, <2>1, <2>2
  <2> HIDE DEF k, filled
  <2> QED BY <1>5, <1>6, <2>1, <2>3
<1> QED BY <1>2, <1>3, <1>6

-----------------------------------------------------------------------------
(* The inductive invariant *)

\* A request in service keeps its prompt in front of its text and the phases of its
\* lane.
JobOK(j) ==
  /\ j \in JobSet
  /\ j.phase = "idle" => j = NoJob
  /\ j.phase # "idle" =>
       /\ Len(j.prompt) > 0 /\ Len(j.prompt) < MaxSeq
       /\ Len(j.prompt) <= Len(j.text) /\ j.prompt = SubSeq(j.text, 1, Len(j.prompt))
       /\ \/ j.lane = "candle" /\ j.phase \in {"top", "pld", "end"}
          \/ j.lane = "spec" /\ j.phase \in {"spec", "end"} /\ ~j.stream
          \/ j.lane = "fast" /\ j.phase \in {"fast", "end"} /\ build # "cpu"

\* Types; an unloaded backend's caches are empty.
DecodeTypeOK ==
  /\ build \in {"cpu", "gpu", "vulkan"}
  /\ main \in Backend /\ draft \in Backend
  /\ ~main.loaded => main.kv = NoKv
  /\ cache \in Texts /\ draftCache \in Texts /\ noted \in Texts
  /\ tainted \in BOOLEAN /\ overwritten \in BOOLEAN /\ poisoned \in BOOLEAN
  /\ DOMAIN kv = 0..(LaneSeq - 1)
  /\ served \in Nat
  /\ JobOK(job)

\* Between requests the slot's KV trails its prefix cache by a token at most; the
\* draft model's never does.
SlotOK ==
  /\ ((Idle \/ job.lane = "fast") /\ main.loaded /\ ~tainted) => Trail(main, cache)
  /\ job.lane # "spec" => Ahead(draft, draftCache)

\* Where a candle loop stands: a request that forwarded its prompt goes on only with a
\* token of its own.
CandleShape(j) ==
  /\ (j.phase = "top" /\ ~j.filled) => Reply(j) = 0
  /\ (j.phase \in {"top", "pld"} /\ j.filled) => Reply(j) > 0
  /\ j.phase = "pld" => j.filled /\ ~j.again /\ Reply(j) < j.max
  /\ j.again => j.filled

\* What the KV holds there: the reused prefix before the prompt is forwarded, then all
\* but the last token, or more after a drafted turn that committed none of its own.
CandleHolds(be, j) ==
  /\ (j.phase = "top" /\ ~j.filled) =>
       j.start < Len(j.text) /\ Holds(be, SubSeq(j.text, 1, j.start))
  /\ (j.phase = "top" /\ j.filled /\ j.again) => Ahead(be, j.text)
  /\ (j.phase = "top" /\ j.filled /\ ~j.again) => Holds(be, Front(j.text))
  /\ j.phase = "pld" => Holds(be, Front(j.text))
  /\ (j.phase = "end" /\ j.filled) => Trail(be, j.text)
  /\ AsIfCold(j)

\* How many tokens the turns that are left may still bring.
CandleBudget(j) ==
  /\ j.stream => Reply(j) <= j.max
  /\ ~j.stream =>
       /\ j.left <= j.max
       /\ Reply(j) > 0 => j.left < j.max
       /\ ~j.pld => Reply(j) + j.left <= j.max
       /\ j.pld => Reply(j) > 0 /\ Reply(j) + j.left < 2 * j.max

\* A request of the candle loops.
CandleOK ==
  (~Idle /\ job.lane = "candle") =>
    /\ CandleShape(job) /\ CandleBudget(job)
    /\ ~tainted => CandleHolds(main, job)

\* At the top of a speculative iteration both models hold the text; when the reply is
\* over they hold it and perhaps what was cut off it.
SpecOK ==
  job.lane = "spec" =>
    /\ Reply(job) <= job.max
    /\ ~tainted => AsIfCold(job)
    /\ (job.phase = "spec" /\ Reply(job) < job.max) =>
         /\ main.pos = draft.pos /\ Holds(draft, job.text)
         /\ ~tainted => Holds(main, job.text) /\ job.row = job.text
    /\ ~(job.phase = "spec" /\ Reply(job) < job.max) =>
         Ahead(draft, job.text) /\ (~tainted => Ahead(main, job.text))

\* The resident cache holds the whole text at the top of a turn, and at the end of a
\* reply all of it but a last token that no forward followed.
FastOK ==
  job.lane = "fast" =>
    /\ Reply(job) <= job.max \/ Reply(job) = 1
    /\ job.phase = "fast" => Reply(job) < job.max \/ Reply(job) = 0
    /\ (build = "vulkan" /\ job.stream) => overwritten
    /\ (build = "vulkan" /\ ~job.stream) =>
         noted = job.prompt /\ Len(job.prompt) + job.max < LaneSeq
    /\ ~overwritten =>
         /\ Len(job.text) <= LaneSeq + 1 => AsIfCold(job)
         /\ (job.phase = "fast" /\ Len(job.text) <= LaneSeq) =>
              ResHolds(kv, job.text, Len(job.text)) /\ job.next = Greedy(job.text)
         /\ (job.phase = "end" /\ build = "vulkan") =>
              ResHolds(kv, job.text, IF Reply(job) = 0 THEN Len(job.text) ELSE Len(job.text) - 1)

\* The tokens noted as resident are, unless a streamed request wrote over them.
NotedOK ==
  /\ build # "vulkan" => noted = <<>>
  /\ (job.lane # "fast" /\ ~overwritten) =>
       Len(noted) <= LaneSeq /\ ResHolds(kv, noted, Len(noted))

\* The inductive invariant: types, the slot's caches, and what each lane guarantees.
DecodeInv == DecodeTypeOK /\ SlotOK /\ CandleOK /\ SpecOK /\ FastOK /\ NotedOK

-----------------------------------------------------------------------------
(* The candle loop *)

\* Types of the request in service.
LEMMA JobFacts ==
  ASSUME DecodeInv
  PROVE  /\ job \in JobSet /\ job.text \in Texts /\ job.prompt \in Texts
         /\ Len(job.text) \in Nat /\ Len(job.prompt) \in Nat
         /\ ~Idle => /\ Len(job.prompt) > 0 /\ Len(job.prompt) <= Len(job.text)
                     /\ Len(job.text) > 0
                     /\ Len(Generated(job)) = Reply(job) /\ Reply(job) \in Nat
         /\ job.max \in Nat /\ job.left \in Nat /\ job.start \in Nat
<1>1. job \in JobSet /\ (~Idle => Len(job.prompt) > 0 /\ Len(job.prompt) <= Len(job.text))
  BY DEF DecodeInv, DecodeTypeOK, JobOK, Idle
<1>2. /\ job.text \in Texts /\ job.prompt \in Texts
      /\ job.max \in Nat /\ job.left \in Nat /\ job.start \in Nat
  BY <1>1 DEF JobSet
<1>3. Len(job.text) \in Nat /\ Len(job.prompt) \in Nat
  BY <1>2, TextsKv
<1>4. ~Idle => Len(job.text) > 0
  BY <1>1, <1>3
<1>5. ~Idle => Len(Generated(job)) = Reply(job) /\ Reply(job) \in Nat
  BY <1>1, ReplyLength
<1> QED BY <1>1, <1>2, <1>3, <1>4, <1>5

\* A request whose text grew is still one.
LEMMA ResumedOK ==
  ASSUME DecodeInv, ~Idle, NEW j \in JobSet, j.text = job.text, j.lane = job.lane,
         j.prompt = job.prompt, j.stream = job.stream, j.max = job.max,
         NEW toks \in Texts, NEW k, Resumes(k, j, toks), build' = build, job' = k,
         \/ job.lane = "candle" /\ k.phase \in {"top", "pld", "end"}
         \/ job.lane = "spec" /\ k.phase \in {"spec", "end"}
         \/ job.lane = "fast" /\ k.phase \in {"fast", "end"}
  PROVE  /\ JobOK(job)' /\ job'.lane = job.lane /\ ~Idle' /\ job'.prompt = job.prompt
         /\ job'.stream = job.stream /\ job'.max = job.max
         /\ job'.text = job.text \o toks /\ job'.text \in Texts
         /\ Len(job'.text) = Len(job.text) + Len(toks) /\ Len(toks) \in Nat
         /\ Reply(job') = Reply(job) + Len(toks)
<1>1. /\ job' \in JobSet /\ job'.text = job.text \o toks /\ job'.lane = job.lane
      /\ job'.stream = job.stream /\ job'.prompt = job.prompt /\ job'.max = job.max
  BY DEF Resumes
<1>2. /\ job.text \o toks \in Texts /\ Len(job.text \o toks) = Len(job.text) + Len(toks)
      /\ Len(job.text) \in Nat /\ Len(toks) \in Nat /\ job.text \in Texts
  BY JobFacts, ConcatFacts DEF Texts
<1>3. /\ Len(job.prompt) > 0 /\ Len(job.prompt) < MaxSeq /\ Len(job.prompt) <= Len(job.text)
      /\ job.prompt = SubSeq(job.text, 1, Len(job.prompt))
      /\ \/ job.lane = "candle" /\ job.phase \in {"top", "pld", "end"}
         \/ job.lane = "spec" /\ job.phase \in {"spec", "end"} /\ ~job.stream
         \/ job.lane = "fast" /\ job.phase \in {"fast", "end"} /\ build # "cpu"
      /\ Len(job.prompt) \in Nat
  BY JobFacts DEF DecodeInv, DecodeTypeOK, JobOK, Idle
<1>4. job.prompt = SubSeq(job.text \o toks, 1, Len(job.prompt))
  <2>1. Len(job.prompt) \in 0..Len(job.text)
    BY <1>2, <1>3
  <2> QED BY <1>2, <1>3, <2>1, PrefixInside DEF Texts
<1>5. Len(job.prompt) <= Len(job.text \o toks)
  BY <1>2, <1>3
<1>6. job'.phase # "idle"
  OBVIOUS
<1>7. JobOK(job)'
  <2>1. \/ job'.lane = "candle" /\ job'.phase \in {"top", "pld", "end"}
        \/ job'.lane = "spec" /\ job'.phase \in {"spec", "end"} /\ ~job'.stream
        \/ job'.lane = "fast" /\ job'.phase \in {"fast", "end"} /\ build' # "cpu"
    BY <1>1, <1>3
  <2> QED BY <1>1, <1>3, <1>4, <1>5, <1>6, <2>1 DEF JobOK
<1>8. Len(job'.text) - Len(job'.prompt) = Len(job.text) - Len(job.prompt) + Len(toks)
  BY <1>1, <1>2, <1>3
<1> QED BY <1>1, <1>2, <1>6, <1>7, <1>8 DEF Idle, Reply

\* A turn of the loop touches the slot's backend and the request only.
LEMMA CandleTurn ==
  ASSUME DecodeInv, ~Idle, job.lane = "candle",
         UNCHANGED <<build, cache, draftVars, residentVars, served>>,
         main' \in Backend, main'.loaded = main.loaded, ~main.loaded => main' = main,
         tainted' \in BOOLEAN,
         JobOK(job)', job'.lane = "candle", ~Idle',
         CandleShape(job'), CandleBudget(job'), ~tainted' => CandleHolds(main', job')
  PROVE  DecodeInv'
<1>1. DecodeTypeOK'
  <2>1. ~main'.loaded => main'.kv = NoKv
    BY DEF DecodeInv, DecodeTypeOK
  <2> QED BY <2>1 DEF DecodeInv, DecodeTypeOK, draftVars, residentVars
<1>2. SlotOK' /\ NotedOK'
  BY DEF DecodeInv, SlotOK, NotedOK, draftVars, residentVars, Idle
<1>3. CandleOK' /\ SpecOK' /\ FastOK'
  BY DEF CandleOK, SpecOK, FastOK, Idle
<1> QED BY <1>1, <1>2, <1>3 DEF DecodeInv

\* What a turn forwards, from a backend that holds what is before it.
LEMMA TurnInputFacts ==
  ASSUME DecodeInv, ~Idle, job.lane = "candle", job.phase = "top"
  PROVE  /\ TurnInput \in Texts /\ (AtPrompt <=> Reply(job) = 0)
         /\ AtPrompt <=> ~job.filled
         /\ (~tainted /\ ~job.again) =>
              \E w \in Texts : /\ Holds(main, w) /\ w \o TurnInput = job.text
                               /\ job.filled => w = Front(job.text)
<1>1. /\ job.text \in Texts /\ Len(job.text) \in Nat /\ Len(job.text) > 0 /\ job.start \in Nat
      /\ Len(Generated(job)) = Reply(job) /\ Reply(job) \in Nat /\ job \in JobSet
  BY JobFacts
<1>2. AtPrompt <=> Reply(job) = 0
  <2>1. Generated(job) \in Texts
    <3>1. Len(job.prompt) \in 0..Len(job.text)
      BY JobFacts
    <3> QED BY <1>1, <3>1, SplitAt DEF Texts, Generated
  <2>2. Generated(job) = <<>> <=> Len(Generated(job)) = 0
    BY <2>1, EmptySeq DEF Texts
  <2> QED BY <1>1, <2>2 DEF AtPrompt
<1>3. AtPrompt <=> ~job.filled
  <2>1. job.filled \in BOOLEAN
    BY <1>1 DEF JobSet
  <2> QED BY <1>1, <1>2, <2>1 DEF DecodeInv, CandleOK, CandleShape
<1>4. Front(job.text) \in Texts /\ <<LastOf(job.text)>> \in Texts
      /\ Front(job.text) \o <<LastOf(job.text)>> = job.text
  <2>1. /\ Front(job.text) \in Texts /\ job.text[Len(job.text)] \in Token
        /\ Front(job.text) \o <<job.text[Len(job.text)]>> = job.text
    BY <1>1, FrontAndLast DEF Texts
  <2> QED BY <2>1, Single DEF Texts, LastOf
<1>5. CASE AtPrompt
  <2>1. TurnInput = SubSeq(job.text, job.start + 1, Len(job.text))
    BY <1>5 DEF TurnInput
  <2>2. TurnInput \in Texts
    <3>1. \A i \in (job.start + 1)..Len(job.text) : job.text[i] \in Token
      <4> SUFFICES ASSUME NEW i \in (job.start + 1)..Len(job.text) PROVE job.text[i] \in Token
        OBVIOUS
      <4>1. i \in 1..Len(job.text)
        BY <1>1
      <4> QED BY <1>1, <4>1, ElementOfSeq DEF Texts
    <3>2. job.start + 1 \in Int /\ Len(job.text) \in Int
      BY <1>1
    <3> QED BY <2>1, <3>1, <3>2, SubSeqProperties DEF Texts
  <2>3. ASSUME ~tainted
        PROVE  \E w \in Texts : Holds(main, w) /\ w \o TurnInput = job.text
    <3>1. job.start < Len(job.text) /\ Holds(main, SubSeq(job.text, 1, job.start))
      BY <1>3, <1>5, <2>3 DEF DecodeInv, CandleOK, CandleHolds
    <3>2. job.start \in 0..Len(job.text)
      BY <1>1, <3>1
    <3>3. /\ SubSeq(job.text, 1, job.start) \in Texts
          /\ SubSeq(job.text, 1, job.start) \o TurnInput = job.text
      BY <1>1, <2>1, <3>2, PrefixFacts, SplitAt DEF Texts
    <3> QED BY <3>1, <3>3
  <2> QED BY <1>2, <1>3, <1>5, <2>2, <2>3
<1>6. CASE ~AtPrompt
  <2>1. TurnInput = <<LastOf(job.text)>>
    BY <1>6 DEF TurnInput
  <2>2. ASSUME ~tainted, ~job.again PROVE Holds(main, Front(job.text))
    BY <1>3, <1>6, <2>2 DEF DecodeInv, CandleOK, CandleHolds
  <2> QED BY <1>2, <1>3, <1>4, <1>6, <2>1, <2>2
<1> QED BY <1>5, <1>6

\* A turn that drew t, ended or failed, from a backend that held what was before it.
LEMMA TurnHolds ==
  ASSUME DecodeInv, ~Idle, job.lane = "candle", job.phase = "top",
         ~tainted, ~job.again, NEW toks \in Texts, NEW f,
         f = ForwardLogits(main, TurnInput),
         job'.text = job.text \o toks, job'.prompt = job.prompt, job'.again = FALSE,
         job'.phase \in {"top", "pld", "end"},
         f.ok => job'.filled = TRUE, ~f.ok => job'.filled = job.filled,
         toks = <<>> => job'.phase = "end",
         toks # <<>> => f.ok /\ \E t \in Draw(LastOf(f.rows)) : toks = <<t>>
  PROVE  CandleHolds(f.be, job')
<1>1. job.text \in Texts /\ Len(job.text) \in Nat /\ Len(job.text) > 0 /\ job.prompt \in Texts
  BY JobFacts
<1>2. TurnInput \in Texts
  BY TurnInputFacts
<1>3. PICK w \in Texts : /\ Holds(main, w) /\ w \o TurnInput = job.text
                         /\ job.filled => w = Front(job.text)
  BY TurnInputFacts
<1>4. main \in Backend
  BY DEF DecodeInv, DecodeTypeOK
<1>5. /\ f.ok \in BOOLEAN
      /\ f.ok => Holds(f.be, job.text) /\ LastOf(f.rows) = job.text
      /\ ~f.ok => \E n \in 0..Len(TurnInput) : Holds(f.be, w \o SubSeq(TurnInput, 1, n))
  <2> DEFINE r == ForwardLogits(main, TurnInput)
  <2>1. /\ r.ok \in BOOLEAN
        /\ r.ok => Holds(r.be, w \o TurnInput) /\ LastOf(r.rows) = w \o TurnInput
        /\ ~r.ok => \E n \in 0..Len(TurnInput) : Holds(r.be, w \o SubSeq(TurnInput, 1, n))
    BY <1>2, <1>3, <1>4, ForwardLogitsHolds
  <2> HIDE DEF r
  <2>2. w \o TurnInput = job.text
    BY <1>3
  <2>3. f = r
    BY DEF r
  <2> QED BY <2>1, <2>2, <2>3
<1>6. AsIfCold(job)
  BY DEF DecodeInv, CandleOK, CandleHolds, Idle
<1>7. CASE f.ok
  <2>1. Holds(f.be, job.text)
    BY <1>5, <1>7
  <2>2. LastOf(f.rows) = job.text
    BY <1>5, <1>7
  <2>3. CASE toks = <<>>
    <3>1. job'.text = job.text
      BY <1>1, <2>3, ConcatEmptySeq DEF Texts
    <3>2. Trail(f.be, job.text)
      BY <1>1, <2>1, AheadOfText DEF Trail
    <3> QED BY <1>6, <2>3, <3>1, <3>2 DEF CandleHolds, AsIfCold
  <2>4. CASE toks # <<>>
    <3>1. PICK t \in Draw(LastOf(f.rows)) : toks = <<t>>
      BY <2>4
    <3>2. t \in Token /\ t = Greedy(job.text)
      BY <1>1, <2>2, <3>1, DrawFacts, NoJunk
    <3>3. /\ job'.text = Append(job.text, t) /\ Front(job'.text) = job.text
          /\ job'.text # <<>>
      <4>1. Append(job.text, t) = job.text \o <<t>> /\ Front(Append(job.text, t)) = job.text
            /\ Append(job.text, t) # <<>>
        <5>1. Append(job.text, t) = job.text \o <<t>> /\ Front(Append(job.text, t)) = job.text
          <6>1. job.text \in Seq(Token) /\ t \in Token
            BY <1>1, <3>2 DEF Texts
          <6> QED BY <6>1, Pushed
        <5>2. Append(job.text, t) # <<>>
          <6>1. job.text \in Seq(Token) /\ t \in Token
            BY <1>1, <3>2 DEF Texts
          <6> QED BY <6>1, AppendProperties
        <5> QED BY <5>1, <5>2
      <4> QED BY <3>1, <4>1
    <3>4. Cold(job.prompt, job.text \o toks)
      <4>1. Len(toks) = 1 /\ toks[1] = t
        BY <3>1, <3>2, Single
      <4>2. SubSeq(toks, 1, 0) = <<>>
        BY SubSeqEmpty
      <4>3. job.text \o <<>> = job.text
        BY <1>1, ConcatEmptySeq DEF Texts
      <4>4. \A i \in 1..Len(toks) : toks[i] = Greedy(job.text \o SubSeq(toks, 1, i - 1))
        <5> SUFFICES ASSUME NEW i \in 1..Len(toks)
                     PROVE  toks[i] = Greedy(job.text \o SubSeq(toks, 1, i - 1))
          OBVIOUS
        <5>1. i = 1 /\ i - 1 = 0
          BY <4>1
        <5> QED BY <3>2, <4>1, <4>2, <4>3, <5>1
      <4> QED BY <1>1, <1>6, <4>4, ColdExtends DEF AsIfCold
    <3>5. Holds(f.be, Front(job'.text)) /\ Trail(f.be, job'.text)
      BY <2>1, <3>3 DEF Trail
    <3> QED BY <1>7, <3>4, <3>5 DEF CandleHolds, AsIfCold
  <2> QED BY <2>3, <2>4
<1>8. CASE ~f.ok
  <2>1. toks = <<>> /\ job'.phase = "end" /\ job'.filled = job.filled
    BY <1>8
  <2>2. job'.text = job.text
    BY <1>1, <2>1, ConcatEmptySeq DEF Texts
  <2>3. ASSUME job.filled PROVE Trail(f.be, job.text)
    <3>1. ~AtPrompt
      BY <2>3, TurnInputFacts
    <3>2. TurnInput = <<LastOf(job.text)>>
      BY <3>1 DEF TurnInput
    <3>3. w = Front(job.text) /\ Holds(main, Front(job.text))
      BY <1>3, <2>3
    <3>4. LastOf(job.text) \in Token
      BY <1>1, ElementOfSeq DEF LastOf, Texts
    <3>5. Len(TurnInput) = 1 /\ SubSeq(TurnInput, 1, 1) = TurnInput
      BY <3>2, <3>4, Single
    <3>6. PICK n \in 0..Len(TurnInput) : Holds(f.be, w \o SubSeq(TurnInput, 1, n))
      BY <1>5, <1>8
    <3>7. CASE n = 0
      <4>1. SubSeq(TurnInput, 1, 0) = <<>>
        BY SubSeqEmpty
      <4>2. w \o <<>> = w
        BY ConcatEmptySeq DEF Texts
      <4>3. Holds(f.be, Front(job.text))
        BY <3>3, <3>6, <3>7, <4>1, <4>2
      <4>4. job.text # <<>>
        BY <1>1, EmptySeq
      <4> QED BY <4>3, <4>4 DEF Trail
    <3>8. CASE n = 1
      <4>1. Holds(f.be, job.text)
        BY <1>3, <3>5, <3>6, <3>8
      <4> QED BY <1>1, <4>1, AheadOfText DEF Trail
    <3> QED BY <3>5, <3>7, <3>8
  <2> QED BY <1>6, <2>1, <2>2, <2>3 DEF CandleHolds, AsIfCold
<1> QED BY <1>5, <1>7, <1>8

\* forward on any backend keeps its types and its model.
LEMMA ForwardType ==
  ASSUME NEW be \in Backend, NEW toks \in Texts, NEW exit \in 1..Layers
  PROVE  LET f == Forward(be, toks, exit)
         IN  /\ f.be \in Backend /\ f.be.loaded = be.loaded /\ f.ok \in BOOLEAN
             /\ ~be.loaded => ~f.ok /\ f.be = be
  BY ForwardFacts

\* generate_blocking: one turn.
LEMMA CandleStepInv ==
  ASSUME DecodeInv, CandleStep
  PROVE  DecodeInv'
<1> DEFINE j == [job EXCEPT !.left = @ - 1, !.again = FALSE]
           F(exit) == IF exit = Layers THEN ForwardLogits(main, TurnInput)
                      ELSE ForwardEarlyExit(main, LastOf(TurnInput), exit)
<1>0. /\ job.phase = "top" /\ ~job.stream /\ job.left > 0 /\ ~Idle
      /\ UNCHANGED <<build, cache, draftVars, residentVars, served>>
  BY DEF CandleStep, Idle
<1>1. job.lane = "candle"
  BY <1>0 DEF DecodeInv, DecodeTypeOK, JobOK
<1>2. PICK exit \in (IF AtPrompt THEN {Layers} ELSE 1..Layers) :
        /\ main' = F(exit).be
        /\ tainted' = (tainted \/ job.again \/ exit < Layers)
        /\ Sampled(j, F(exit))
  BY DEF CandleStep
<1>3. exit \in 1..Layers /\ Layers \in Nat
  BY LayerOne, CandleAssumption
<1>4. TurnInput \in Texts /\ main \in Backend /\ (AtPrompt <=> Reply(job) = 0)
      /\ (AtPrompt <=> ~job.filled)
  BY <1>0, <1>1, TurnInputFacts DEF DecodeInv, DecodeTypeOK
<1>5. /\ F(exit).be \in Backend /\ F(exit).be.loaded = main.loaded /\ F(exit).ok \in BOOLEAN
      /\ ~main.loaded => ~F(exit).ok /\ F(exit).be = main
  <2>1. CASE exit = Layers
    BY <1>4, <2>1, ForwardLogitsType
  <2>2. CASE exit # Layers
    <3>1. ~AtPrompt
      BY <2>2
    <3>2. TurnInput = <<LastOf(job.text)>>
      BY <3>1 DEF TurnInput
    <3>3. LastOf(job.text) \in Token
      <4>1. job.text \in Texts /\ Len(job.text) \in 1..Len(job.text)
        BY <1>0, JobFacts
      <4> QED BY <4>1, ElementOfSeq DEF Texts, LastOf
    <3>4. LastOf(TurnInput) = LastOf(job.text)
      BY <3>2, <3>3, Single DEF LastOf
    <3>5. <<LastOf(TurnInput)>> \in Texts
      BY <3>3, <3>4, Single DEF Texts
    <3> QED BY <1>3, <1>4, <2>2, <3>5, ForwardType DEF ForwardEarlyExit
  <2> QED BY <2>1, <2>2
<1>6. /\ j \in JobSet /\ j.text = job.text /\ j.lane = job.lane /\ j.prompt = job.prompt
      /\ j.stream = job.stream /\ j.max = job.max /\ j.left = job.left - 1 /\ j.again = FALSE
      /\ j.filled = job.filled /\ j.pld = job.pld
  <2>1. job \in JobSet /\ job.left \in Nat /\ job.left - 1 \in Nat
    BY <1>0, JobFacts
  <2> QED BY <2>1 DEF JobSet
<1> DEFINE f == F(exit)
<1>7. PICK toks \in Texts :
           /\ Resumes(job', j, toks)
           /\ job'.phase \in {"top", "pld", "end"}
           /\ job'.phase = "pld" => Reply(job') < job'.max
           /\ f.ok => job'.filled = TRUE
           /\ ~f.ok => job'.filled = job.filled
           /\ toks = <<>> => job'.phase = "end"
           /\ toks # <<>> => f.ok /\ \E t \in Draw(LastOf(f.rows)) : toks = <<t>>
  <2>1. Len(j.prompt) <= Len(j.text)
    BY <1>0, <1>6, JobFacts
  <2> HIDE DEF j, F
  <2> QED BY <1>2, <1>6, <2>1, SampledFacts
<1> HIDE DEF j, F, f
<1>8. /\ JobOK(job)' /\ job'.lane = job.lane /\ ~Idle' /\ job'.prompt = job.prompt
      /\ job'.stream = job.stream /\ job'.max = job.max /\ job'.text = job.text \o toks
      /\ Len(toks) \in Nat /\ Reply(job') = Reply(job) + Len(toks)
  BY <1>0, <1>1, <1>6, <1>7, ResumedOK
<1>9. job'.left = job.left - 1 /\ job'.again = FALSE /\ job'.pld = job.pld
  BY <1>6, <1>7 DEF Resumes
<1>10. Len(toks) \in {0, 1} /\ (Len(toks) = 0 <=> toks = <<>>)
  <2>1. toks # <<>> => Len(toks) = 1
    BY <1>7, DrawFacts, Single
  <2> QED BY <2>1, EmptySeq
<1>11. Reply(job) \in Nat /\ job.left \in Nat /\ job.max \in Nat
  BY <1>0, JobFacts
<1>12. CandleShape(job')
  BY <1>7, <1>8, <1>9, <1>10, <1>11 DEF CandleShape
<1>13. CandleBudget(job')
  <2>1. CandleBudget(job)
    BY <1>0, <1>1 DEF DecodeInv, CandleOK
  <2>2. job.pld \in BOOLEAN
    BY JobFacts DEF JobSet
  <2> DEFINE r == Reply(job)  n == Len(toks)  l == job.left  m == job.max
  <2>3. /\ l <= m /\ (r > 0 => l < m) /\ (~job.pld => r + l <= m)
        /\ (job.pld => r > 0 /\ r + l < 2 * m)
        /\ l > 0
    BY <1>0, <2>1 DEF CandleBudget
  <2>4. /\ Reply(job') = r + n /\ job'.left = l - 1 /\ job'.max = m /\ ~job'.stream
    BY <1>0, <1>8, <1>9
  <2>5. r \in Nat /\ l \in Nat /\ m \in Nat /\ n \in {0, 1}
    BY <1>10, <1>11
  <2> HIDE DEF r, n, l, m
  <2>6. /\ l - 1 <= m /\ (r + n > 0 => l - 1 < m) /\ (~job.pld => (r + n) + (l - 1) <= m)
        /\ (job.pld => r + n > 0 /\ (r + n) + (l - 1) < 2 * m)
    BY <2>3, <2>5
  <2> QED BY <1>9, <2>4, <2>6 DEF CandleBudget
<1>14. ASSUME ~tainted' PROVE CandleHolds(main', job')
  <2>1. ~tainted /\ ~job.again /\ ~(exit < Layers)
    BY <1>2, <1>14
  <2>2. exit = Layers
    BY <1>3, <2>1
  <2>3. f = ForwardLogits(main, TurnInput) /\ main' = f.be
    BY <1>2, <2>2 DEF F, f
  <2>4. CandleHolds(f.be, job')
    BY <1>0, <1>1, <1>7, <1>8, <1>9, <2>1, <2>3, TurnHolds
  <2> QED BY <2>3, <2>4
<1>15. /\ main' \in Backend /\ main'.loaded = main.loaded /\ (~main.loaded => main' = main)
       /\ tainted' \in BOOLEAN
  <2>1. main' = f.be /\ tainted' \in BOOLEAN
    BY <1>2 DEF f
  <2> QED BY <1>5, <2>1 DEF f
<1> QED BY <1>0, <1>1, <1>8, <1>12, <1>13, <1>14, <1>15, CandleTurn

\* chat_stream: one turn.
LEMMA StreamStepInv ==
  ASSUME DecodeInv, StreamStep
  PROVE  DecodeInv'
<1> DEFINE j == [job EXCEPT !.again = FALSE]
           f == ForwardLogits(main, TurnInput)
<1>0. /\ job.phase = "top" /\ job.stream /\ ~Idle /\ Len(Generated(job)) < job.max
      /\ UNCHANGED <<build, cache, draftVars, residentVars, served>>
  BY DEF StreamStep, Idle
<1>1. job.lane = "candle"
  BY <1>0 DEF DecodeInv, DecodeTypeOK, JobOK
<1>2. /\ main' = f.be
      /\ tainted' = (tainted \/ job.again)
      /\ Sampled(j, f)
  BY DEF StreamStep
<1>4. TurnInput \in Texts /\ main \in Backend /\ (AtPrompt <=> Reply(job) = 0)
      /\ (AtPrompt <=> ~job.filled)
  BY <1>0, <1>1, TurnInputFacts DEF DecodeInv, DecodeTypeOK
<1>5. /\ f.be \in Backend /\ f.be.loaded = main.loaded /\ f.ok \in BOOLEAN
      /\ ~main.loaded => ~f.ok /\ f.be = main
  BY <1>4, ForwardLogitsType
<1>6. /\ j \in JobSet /\ j.text = job.text /\ j.lane = job.lane /\ j.prompt = job.prompt
      /\ j.stream = job.stream /\ j.max = job.max /\ j.left = job.left /\ j.again = FALSE
      /\ j.filled = job.filled /\ j.pld = job.pld
  <2>1. job \in JobSet
    BY <1>0, JobFacts
  <2> QED BY <2>1 DEF JobSet
<1>7. PICK toks \in Texts :
           /\ Resumes(job', j, toks)
           /\ job'.phase \in {"top", "pld", "end"}
           /\ job'.phase = "pld" => Reply(job') < job'.max
           /\ f.ok => job'.filled = TRUE
           /\ ~f.ok => job'.filled = job.filled
           /\ toks = <<>> => job'.phase = "end"
           /\ toks # <<>> => f.ok /\ \E t \in Draw(LastOf(f.rows)) : toks = <<t>>
  <2>1. Len(j.prompt) <= Len(j.text)
    BY <1>0, <1>6, JobFacts
  <2> HIDE DEF j, f
  <2> QED BY <1>2, <1>6, <2>1, SampledFacts
<1> HIDE DEF j, f
<1>8. /\ JobOK(job)' /\ job'.lane = job.lane /\ ~Idle' /\ job'.prompt = job.prompt
      /\ job'.stream = job.stream /\ job'.max = job.max /\ job'.text = job.text \o toks
      /\ Len(toks) \in Nat /\ Reply(job') = Reply(job) + Len(toks)
  BY <1>0, <1>1, <1>6, <1>7, ResumedOK
<1>9. job'.again = FALSE
  BY <1>6, <1>7 DEF Resumes
<1>10. Len(toks) \in {0, 1} /\ (Len(toks) = 0 <=> toks = <<>>)
  <2>1. toks # <<>> => Len(toks) = 1
    BY <1>7, DrawFacts, Single
  <2> QED BY <2>1, EmptySeq
<1>11. Reply(job) \in Nat /\ job.max \in Nat /\ Reply(job) < job.max
  BY <1>0, JobFacts
<1>12. CandleShape(job')
  BY <1>7, <1>8, <1>9, <1>10, <1>11 DEF CandleShape
<1>13. CandleBudget(job')
  <2> DEFINE r == Reply(job)  n == Len(toks)  m == job.max
  <2>1. r \in Nat /\ m \in Nat /\ r < m /\ n \in {0, 1} /\ Reply(job') = r + n /\ job'.max = m
    BY <1>8, <1>10, <1>11
  <2> HIDE DEF r, n, m
  <2>2. Reply(job') <= job'.max
    BY <2>1
  <2> QED BY <1>0, <1>8, <2>2 DEF CandleBudget
<1>14. ASSUME ~tainted' PROVE CandleHolds(main', job')
  <2>1. ~tainted /\ ~job.again
    BY <1>2, <1>14
  <2>2. f = ForwardLogits(main, TurnInput)
    BY DEF f
  <2>3. CandleHolds(f.be, job')
    BY <1>0, <1>1, <1>7, <1>8, <1>9, <2>1, <2>2, TurnHolds
  <2> QED BY <1>2, <2>3
<1>15. /\ main' \in Backend /\ main'.loaded = main.loaded /\ (~main.loaded => main' = main)
       /\ tainted' \in BOOLEAN
  BY <1>2, <1>5
<1> QED BY <1>0, <1>1, <1>8, <1>12, <1>13, <1>14, <1>15, CandleTurn

\* A reply that stops without committing.
LEMMA StoppedOK ==
  ASSUME DecodeInv, ~Idle, NEW k, k.text = job.text, k \in JobSet, k.lane = job.lane,
         k.stream = job.stream, k.prompt = job.prompt, k.max = job.max,
         job' = k, build' = build,
         k.phase = "end" \/ (job.lane = "candle" /\ k.phase = "top") \/ k.phase = job.phase
  PROVE  JobOK(job)' /\ ~Idle' /\ Reply(job') = Reply(job) /\ AsIfCold(job') = AsIfCold(job)
<1>1. /\ job.phase # "idle"
      /\ Len(job.prompt) > 0 /\ Len(job.prompt) < MaxSeq /\ Len(job.prompt) <= Len(job.text)
      /\ job.prompt = SubSeq(job.text, 1, Len(job.prompt))
      /\ \/ job.lane = "candle" /\ job.phase \in {"top", "pld", "end"}
         \/ job.lane = "spec" /\ job.phase \in {"spec", "end"} /\ ~job.stream
         \/ job.lane = "fast" /\ job.phase \in {"fast", "end"} /\ build # "cpu"
  BY DEF DecodeInv, DecodeTypeOK, JobOK, Idle
<1>2. k.phase # "idle"
  BY <1>1
<1>3. JobOK(job)'
  <2>1. \/ k.lane = "candle" /\ k.phase \in {"top", "pld", "end"}
        \/ k.lane = "spec" /\ k.phase \in {"spec", "end"} /\ ~k.stream
        \/ k.lane = "fast" /\ k.phase \in {"fast", "end"} /\ build' # "cpu"
    BY <1>1
  <2> QED BY <1>1, <1>2, <2>1 DEF JobOK
<1> QED BY <1>2, <1>3 DEF Idle, Reply, AsIfCold

\* The loop is left with tokens to spare.
LEMMA EndLoopInv ==
  ASSUME DecodeInv, EndLoop
  PROVE  DecodeInv'
<1>0. /\ job.phase = "top" /\ ~Idle /\ job' = [job EXCEPT !.phase = "end"]
      /\ UNCHANGED <<build, main, cache, tainted, draftVars, residentVars, served>>
  BY DEF EndLoop, Idle, candleVars
<1>1. job.lane = "candle"
  BY <1>0 DEF DecodeInv, DecodeTypeOK, JobOK
<1>2. /\ job' \in JobSet /\ job'.text = job.text /\ job'.lane = job.lane
      /\ job'.stream = job.stream /\ job'.prompt = job.prompt /\ job'.max = job.max
      /\ job'.phase = "end" /\ job'.filled = job.filled /\ job'.again = job.again
      /\ job'.left = job.left /\ job'.pld = job.pld
  <2>1. job \in JobSet
    BY JobFacts
  <2> QED BY <1>0, <2>1 DEF JobSet
<1>3. JobOK(job)' /\ ~Idle' /\ Reply(job') = Reply(job) /\ AsIfCold(job') = AsIfCold(job)
  BY <1>0, <1>2, StoppedOK
<1>4. CandleShape(job) /\ CandleBudget(job) /\ (~tainted => CandleHolds(main, job))
  BY <1>0, <1>1 DEF DecodeInv, CandleOK
<1>5. CandleShape(job')
  BY <1>2, <1>4 DEF CandleShape
<1>6. CandleBudget(job')
  BY <1>2, <1>3, <1>4 DEF CandleBudget
<1>7. ASSUME ~tainted' PROVE CandleHolds(main', job')
  <2>1. CandleHolds(main, job) /\ main' = main
    BY <1>0, <1>4, <1>7
  <2>2. job.text # <<>>
    BY <1>0, JobFacts, EmptySeq
  <2>3. job.filled \in BOOLEAN /\ job.again \in BOOLEAN
    BY JobFacts DEF JobSet
  <2>4. job.filled => Trail(main, job.text)
    BY <1>0, <2>1, <2>2, <2>3 DEF CandleHolds, Trail
  <2>5. AsIfCold(job)
    BY <2>1 DEF CandleHolds
  <2> QED BY <1>2, <1>3, <2>1, <2>4, <2>5 DEF CandleHolds
<1>8. main' \in Backend /\ main'.loaded = main.loaded /\ (~main.loaded => main' = main) /\ tainted' \in BOOLEAN
  BY <1>0 DEF DecodeInv, DecodeTypeOK
<1> QED BY <1>0, <1>1, <1>2, <1>3, <1>5, <1>6, <1>7, <1>8, CandleTurn

\* Nothing is asked of an idle slot's request.
LEMMA IdleJob ==
  ASSUME job' = NoJob
  PROVE  JobOK(job)' /\ Idle' /\ job'.lane = "candle" /\ CandleOK' /\ SpecOK' /\ FastOK'
<1>1. NoJob \in JobSet
  BY EmptySeq, DecodeAssumption DEF NoJob, JobSet, Rows, Texts
<1>2. job'.lane = "candle" /\ job'.phase = "idle"
  BY DEF NoJob
<1>3. JobOK(job)'
  BY <1>1, <1>2 DEF JobOK
<1>4. CandleOK' /\ SpecOK' /\ FastOK' /\ Idle'
  BY <1>2 DEF CandleOK, SpecOK, FastOK, Idle
<1> QED BY <1>2, <1>3, <1>4

\* A request ends: the prefix cache becomes its text.
LEMMA FinishCandleInv ==
  ASSUME DecodeInv, FinishCandle
  PROVE  DecodeInv'
<1>0. /\ job.phase = "end" /\ job.lane = "candle" /\ ~Idle
      /\ cache' = job.text /\ tainted' = (tainted \/ ~job.filled) /\ job' = NoJob
      /\ UNCHANGED <<build, main, draftVars, residentVars, served>>
  BY DEF FinishCandle, Synced, Idle
<1>1. DecodeTypeOK'
  <2>1. job.text \in Texts
    BY JobFacts
  <2>2. JobOK(job)'
    BY <1>0, IdleJob
  <2> QED BY <1>0, <2>1, <2>2 DEF DecodeInv, DecodeTypeOK, draftVars, residentVars
<1>2. job'.lane = "candle" /\ CandleOK' /\ SpecOK' /\ FastOK'
  BY <1>0, IdleJob
<1>3. SlotOK'
  <2>1. ASSUME ~tainted' PROVE Trail(main', cache')
    <3>1. ~tainted /\ job.filled
      BY <1>0, <2>1
    <3>2. Trail(main, job.text)
      BY <1>0, <3>1 DEF DecodeInv, CandleOK, CandleHolds
    <3> QED BY <1>0, <3>2
  <2> QED BY <1>0, <1>2, <2>1 DEF SlotOK, DecodeInv, draftVars
<1>5. NotedOK'
  BY <1>0, <1>2 DEF DecodeInv, NotedOK, residentVars
<1> QED BY <1>1, <1>2, <1>3, <1>5 DEF DecodeInv

-----------------------------------------------------------------------------
(* Prompt-lookup rounds *)

\* Concatenation is associative.
LEMMA Regrouped ==
  ASSUME NEW s \in Texts, NEW t \in Texts, NEW u \in Texts
  PROVE  (s \o t) \o u = s \o (t \o u)
<1>1. s \in Seq(Token) /\ t \in Seq(Token) /\ u \in Seq(Token)
  BY DEF Texts
<1> QED BY <1>1, ConcatAssociative

\* Drafted tokens that agree with the model, and the model's own token behind them.
LEMMA AcceptedOwn ==
  ASSUME NEW text \in Texts, NEW drafted \in Texts, NEW a \in 0..Len(drafted), NEW b \in Token,
         \A i \in 1..a : drafted[i] = Greedy(text \o SubSeq(drafted, 1, i - 1)),
         b = Greedy(text \o SubSeq(drafted, 1, a))
  PROVE  LET full == SubSeq(drafted, 1, a) \o <<b>>
         IN  /\ full \in Texts /\ Len(full) = a + 1 /\ SubSeq(full, 1, a) = SubSeq(drafted, 1, a)
             /\ \A i \in 1..Len(full) : full[i] = Greedy(text \o SubSeq(full, 1, i - 1))
<1> DEFINE agreed == SubSeq(drafted, 1, a)
           full == agreed \o <<b>>
<1>1. Len(drafted) \in Nat
  BY TextsKv
<1>2. /\ agreed \in Texts /\ Len(agreed) = a /\ \A i \in 1..a : agreed[i] = drafted[i]
  BY PrefixFacts DEF Texts
<1>3. <<b>> \in Texts /\ Len(<<b>>) = 1 /\ <<b>>[1] = b
  BY Single DEF Texts
<1> HIDE DEF agreed
<1>4. /\ full \in Texts /\ Len(full) = a + 1
      /\ \A i \in 1..a : full[i] = agreed[i]
      /\ full[a + 1] = b /\ SubSeq(full, 1, a) = agreed
  <2>1. /\ full \in Texts /\ Len(full) = Len(agreed) + Len(<<b>>)
        /\ \A i \in 1..Len(agreed) : full[i] = agreed[i]
        /\ \A i \in 1..Len(<<b>>) : full[Len(agreed) + i] = <<b>>[i]
        /\ SubSeq(full, 1, Len(agreed)) = agreed
    BY <1>2, <1>3, ConcatFacts DEF Texts
  <2> HIDE DEF full
  <2>2. full[a + 1] = b
    <3>1. 1 \in 1..Len(<<b>>) /\ Len(agreed) + 1 = a + 1
      BY <1>2, <1>3
    <3> QED BY <1>3, <2>1, <3>1
  <2> QED BY <1>2, <1>3, <2>1, <2>2
<1>5. \A n \in 0..a : SubSeq(full, 1, n) = SubSeq(drafted, 1, n)
  <2> SUFFICES ASSUME NEW n \in 0..a PROVE SubSeq(full, 1, n) = SubSeq(drafted, 1, n)
    OBVIOUS
  <2>1. SubSeq(full, 1, n) = SubSeq(agreed, 1, n)
    BY <1>2, <1>3, PrefixInside DEF Texts
  <2>2. SubSeq(agreed, 1, n) = SubSeq(drafted, 1, n)
    BY PrefixOfPrefix DEF Texts, agreed
  <2> QED BY <2>1, <2>2
<1> HIDE DEF full
<1>6. \A i \in 1..Len(full) : full[i] = Greedy(text \o SubSeq(full, 1, i - 1))
  <2> SUFFICES ASSUME NEW i \in 1..Len(full)
               PROVE  full[i] = Greedy(text \o SubSeq(full, 1, i - 1))
    OBVIOUS
  <2>1. i - 1 \in 0..a /\ (i \in 1..a \/ i = a + 1)
    BY <1>1, <1>4
  <2>2. SubSeq(full, 1, i - 1) = SubSeq(drafted, 1, i - 1)
    BY <1>5, <2>1
  <2>3. CASE i \in 1..a
    BY <1>2, <1>4, <2>2, <2>3
  <2>4. CASE i = a + 1
    <3>1. i - 1 = a
      BY <2>4
    <3> QED BY <1>4, <2>2, <2>4, <3>1
  <2> QED BY <2>1, <2>3, <2>4
<1> QED BY <1>4, <1>6 DEF full, agreed

\* The rows of a verifying forward follow from the text and the drafted tokens before
\* them, and the KV behind it holds both.
LEMMA VerifyingForward ==
  ASSUME NEW be \in Backend, NEW text \in Texts, Len(text) > 0, NEW drafted \in Texts,
         Holds(be, Front(text)),
         ForwardAllLogits(be, <<LastOf(text)>> \o drafted).ok
  PROVE  LET f == ForwardAllLogits(be, <<LastOf(text)>> \o drafted)
         IN  /\ Holds(f.be, text \o drafted)
             /\ \A i \in 1..(Len(drafted) + 1) : f.rows[i] = text \o SubSeq(drafted, 1, i - 1)
<1> DEFINE f == ForwardAllLogits(be, <<LastOf(text)>> \o drafted)
<1>0. f.ok
  OBVIOUS
<1> HIDE DEF f
<1> DEFINE w == Front(text)
           last == <<LastOf(text)>>
           input == last \o drafted
<1>1. /\ w \in Texts /\ LastOf(text) \in Token /\ w \o last = text
  BY FrontAndLast DEF Texts, LastOf
<1>2. last \in Texts /\ Len(last) = 1
  BY <1>1, Single DEF Texts
<1> HIDE DEF w, last
<1>3. input \in Texts /\ Len(input) = 1 + Len(drafted) /\ Len(drafted) \in Nat
  BY <1>2, ConcatFacts DEF Texts
<1>4. f = Passed(be, input, Layers)
  <2> HIDE DEF input
  <2>1. f = Forward(be, input, Layers)
    BY DEF ForwardAllLogits, input, last, f
  <2>2. f.ok
    BY <1>0
  <2> QED BY <1>3, <2>1, <2>2, LayerOne, ForwardFacts
<1>5. /\ Holds(f.be, w \o input)
      /\ \A i \in 1..Len(input) : f.rows[i] = w \o SubSeq(input, 1, i)
  <2> HIDE DEF input
  <2>1. Holds(be, w)
    BY DEF w
  <2>2. /\ Holds(Passed(be, input, Layers).be, w \o input)
        /\ \A i \in 1..Len(input) : Passed(be, input, Layers).rows[i] = w \o SubSeq(input, 1, i)
    BY <1>1, <1>3, <2>1, PassedHolds
  <2> HIDE DEF w, f
  <2> QED BY <1>4, <2>2, ZenonT(30)
<1>6. w \o input = text \o drafted
  <2>1. (w \o last) \o drafted = w \o (last \o drafted)
    <3>1. w \in Texts /\ last \in Texts /\ drafted \in Texts
      BY <1>1, <1>2
    <3> QED BY <3>1, Regrouped, ZenonT(30)
  <2> QED BY <1>1, <2>1
<1>7. ASSUME NEW i \in 1..(Len(drafted) + 1)
      PROVE  f.rows[i] = text \o SubSeq(drafted, 1, i - 1)
  <2> DEFINE k == i - 1
             d == SubSeq(drafted, 1, k)
  <2>1. k \in 0..Len(drafted) /\ Len(last) + k = i /\ i \in 1..Len(input)
    BY <1>2, <1>3
  <2>2. d \in Texts
    BY <2>1, PrefixFacts DEF Texts
  <2>3. SubSeq(input, 1, Len(last) + k) = last \o d
    <3> HIDE DEF k
    <3> QED BY <1>2, <2>1, PrefixBeyond DEF Texts
  <2> HIDE DEF k, input
  <2>4. f.rows[i] = w \o (last \o d)
    BY <1>5, <2>1, <2>3
  <2> HIDE DEF d
  <2>5. w \o (last \o d) = text \o d
    <3>1. (w \o last) \o d = w \o (last \o d)
      <4>1. w \in Texts /\ last \in Texts /\ d \in Texts
        BY <1>1, <1>2, <2>2
      <4> HIDE <1>1, <2>2
      <4> QED BY <4>1, Regrouped, SMTT(30)
    <3> QED BY <1>1, <3>1
  <2> QED BY <2>4, <2>5 DEF d, k
<1> QED BY <1>5, <1>6, <1>7 DEF f

\* Types of what verification finds; the accepted tokens and the next one are the model's.
LEMMA VerifyFacts ==
  ASSUME NEW drafted \in Texts, NEW rows, NEW v \in VerifyDrafts(drafted, rows)
  PROVE  /\ v.accepted \in 0..Len(drafted) /\ v.bonus \in Token
         /\ \A text \in Texts :
              (\A i \in 1..(Len(drafted) + 1) : rows[i] = text \o SubSeq(drafted, 1, i - 1)) =>
                /\ \A i \in 1..v.accepted : drafted[i] = Greedy(text \o SubSeq(drafted, 1, i - 1))
                /\ v.bonus = Greedy(text \o SubSeq(drafted, 1, v.accepted))
<1>1. PICK outs \in [1..(Len(drafted) + 1) -> Token] :
        /\ \A i \in DOMAIN outs : outs[i] \in Draw(rows[i])
        /\ v = [accepted |-> Accepted(drafted, outs), bonus |-> outs[Accepted(drafted, outs) + 1]]
  BY DEF VerifyDrafts
<1> DEFINE a == Accepted(drafted, outs)
<1>2. a \in 0..Len(drafted) /\ \A i \in 1..a : outs[i] = drafted[i]
  BY AcceptedFacts DEF Texts
<1> HIDE DEF a
<1>3. v.accepted = a /\ v.bonus = outs[a + 1]
  BY <1>1 DEF a
<1>4. Len(drafted) \in Nat /\ a + 1 \in 1..(Len(drafted) + 1)
  BY <1>2, TextsKv
<1>5. v.bonus \in Token
  BY <1>1, <1>3, <1>4
<1>6. ASSUME NEW text \in Texts,
             \A i \in 1..(Len(drafted) + 1) : rows[i] = text \o SubSeq(drafted, 1, i - 1)
      PROVE  \A i \in 1..(a + 1) : outs[i] = Greedy(text \o SubSeq(drafted, 1, i - 1))
  <2> SUFFICES ASSUME NEW i \in 1..(a + 1)
               PROVE  outs[i] = Greedy(text \o SubSeq(drafted, 1, i - 1))
    OBVIOUS
  <2>1. i \in 1..(Len(drafted) + 1) /\ i - 1 \in 0..Len(drafted)
    BY <1>2, <1>4
  <2>2. outs[i] \in Draw(rows[i]) /\ rows[i] = text \o SubSeq(drafted, 1, i - 1)
    BY <1>1, <1>6, <2>1
  <2>3. rows[i] # Junk
    <3>1. SubSeq(drafted, 1, i - 1) \in Texts
      BY <2>1, PrefixFacts DEF Texts
    <3>2. text \o SubSeq(drafted, 1, i - 1) \in Texts
      BY <3>1, ConcatFacts DEF Texts
    <3> QED BY <2>2, <3>2, NoJunk
  <2> QED BY <2>2, <2>3, DrawFacts
<1>7. ASSUME NEW text \in Texts,
             \A i \in 1..(Len(drafted) + 1) : rows[i] = text \o SubSeq(drafted, 1, i - 1)
      PROVE  /\ \A i \in 1..a : drafted[i] = Greedy(text \o SubSeq(drafted, 1, i - 1))
             /\ v.bonus = Greedy(text \o SubSeq(drafted, 1, a))
  <2>1. \A i \in 1..(a + 1) : outs[i] = Greedy(text \o SubSeq(drafted, 1, i - 1))
    BY <1>6, <1>7
  <2>2. \A i \in 1..a : i \in 1..(a + 1)
    BY <1>2
  <2>3. a + 1 \in 1..(a + 1) /\ (a + 1) - 1 = a
    BY <1>2
  <2>4. outs[a + 1] = Greedy(text \o SubSeq(drafted, 1, a))
    BY <2>1, <2>3
  <2> QED BY <1>2, <1>3, <2>1, <2>2, <2>4
<1> QED BY <1>2, <1>3, <1>5, <1>7

\* A continued request's reply is longer by what was committed.
LEMMA GrownReply ==
  ASSUME NEW j \in JobSet, Len(j.prompt) <= Len(j.text), NEW toks \in Texts,
         NEW k, Continues(k, j, toks)
  PROVE  /\ k \in JobSet /\ Len(k.prompt) <= Len(k.text) /\ Len(toks) \in Nat
         /\ Reply(j) \in Nat /\ Reply(k) = Reply(j) + Len(toks)
         /\ Len(Generated(k)) = Reply(k)
<1>1. k \in JobSet /\ k.text = j.text \o toks /\ k.prompt = j.prompt
  BY DEF Continues
<1>2. j.text \in Texts /\ j.prompt \in Texts
  BY DEF JobSet
<1> DEFINE a == Len(j.text)  b == Len(j.prompt)  n == Len(toks)
<1>3. a \in Nat /\ b \in Nat /\ n \in Nat /\ Len(k.text) = a + n /\ Len(k.prompt) = b /\ b <= a
  BY <1>1, <1>2, ConcatFacts, TextsKv DEF Texts
<1>4. Reply(j) = a - b /\ Reply(k) = Len(k.text) - Len(k.prompt)
  BY DEF Reply
<1> HIDE DEF a, b
<1>5. Len(k.prompt) <= Len(k.text) /\ Reply(j) \in Nat /\ Reply(k) = Reply(j) + n
  BY <1>3, <1>4
<1>6. Len(Generated(k)) = Reply(k)
  BY <1>1, <1>5, ReplyLength
<1> QED BY <1>1, <1>3, <1>5, <1>6

\* A verified round: the accepted tokens are committed up to where the reply stops, and
\* the model's own token when it does not.
RoundDrafted(j, agreed) ==
  IF j.stream THEN StreamDrafted(j, agreed) ELSE CommitDrafted(j, agreed)
\* Whether the model's own token is committed.
Room(j, agreed, b) ==
  LET c == RoundDrafted(j, agreed)
  IN  ~c.early /\ b # Eos /\ Len(Generated(c.job)) < j.max
\* The request behind the round.
RoundCommitted(j, agreed, b) ==
  IF Room(j, agreed, b) THEN Bonus(RoundDrafted(j, agreed).job, b)
  ELSE RoundDrafted(j, agreed).job

\* What such a round adds to the text.
LEMMA RoundCommits ==
  ASSUME NEW j \in JobSet, Len(j.prompt) <= Len(j.text), NEW agreed \in Texts, NEW b \in Token,
         Reply(j) < j.max
  PROVE  \E toks \in Texts :
           /\ Continues(RoundCommitted(j, agreed, b), j, toks) /\ Reply(j) + Len(toks) <= j.max
           /\ Room(j, agreed, b) => toks = agreed \o <<b>>
           /\ ~Room(j, agreed, b) => \E n \in 0..Len(agreed) : toks = SubSeq(agreed, 1, n)
<1> DEFINE c == RoundDrafted(j, agreed)
           k == RoundCommitted(j, agreed, b)
<1>0. /\ c = (IF j.stream THEN StreamDrafted(j, agreed) ELSE CommitDrafted(j, agreed))
      /\ Room(j, agreed, b) => ~c.early /\ Len(Generated(c.job)) < j.max /\ k = Bonus(c.job, b)
      /\ ~Room(j, agreed, b) => k = c.job
  BY DEF RoundDrafted, Room, RoundCommitted
<1> HIDE DEF c, k
<1>1. PICK n \in 0..Len(agreed) :
        /\ Continues(c.job, j, SubSeq(agreed, 1, n))
        /\ n > 0 => Reply(j) + n <= j.max
        /\ (~c.early /\ Reply(j) + n < j.max) => n = Len(agreed)
  BY <1>0, StreamDraftedFacts, CommitDraftedFacts
<1> DEFINE part == SubSeq(agreed, 1, n)
<1>2. part \in Texts /\ Len(part) = n /\ n \in Nat
  BY PrefixFacts DEF Texts
<1>3. /\ j.text \in Texts /\ j.prompt \in Texts /\ Len(j.text) \in Nat /\ Len(j.prompt) \in Nat
      /\ Reply(j) \in Nat /\ j.max \in Nat /\ Len(agreed) \in Nat
  BY ReplyLength, TextsKv DEF JobSet
<1> HIDE DEF part
<1>4. c.job \in JobSet /\ c.job.text = j.text \o part /\ c.job.prompt = j.prompt
      /\ c.job.stream = j.stream
  BY <1>1 DEF Continues, part
<1>6. Len(Generated(c.job)) = Reply(j) + n
  BY <1>1, <1>2, GrownReply DEF part
<1>7. CASE Room(j, agreed, b)
  <2>1. ~c.early /\ Reply(j) + n < j.max
    BY <1>0, <1>6, <1>7
  <2>2. n = Len(agreed)
    BY <1>1, <2>1
  <2>3. part = agreed
    BY <2>2, SubSeqFull DEF part, Texts
  <2>4. k = Bonus(c.job, b)
    BY <1>0, <1>7
  <2>5. Continues(k, c.job, <<b>>)
    BY <1>4, <2>4, PushContinues DEF Bonus
  <2>6. <<b>> \in Texts /\ Len(<<b>>) = 1
    BY Single DEF Texts
  <2>7. (j.text \o agreed) \o <<b>> = j.text \o (agreed \o <<b>>)
    BY <1>3, <2>6, Regrouped
  <2>8. agreed \o <<b>> \in Texts /\ Len(agreed \o <<b>>) = Len(agreed) + 1
    BY <2>6, ConcatFacts DEF Texts
  <2> DEFINE full == agreed \o <<b>>
  <2> HIDE DEF full
  <2>9. Continues(k, j, full)
    <3>1. k.text = j.text \o full
      BY <1>4, <2>3, <2>5, <2>7 DEF Continues, full
    <3>2. Continues(c.job, j, part)
      BY <1>1 DEF part
    <3> QED BY <2>5, <3>1, <3>2 DEF Continues
  <2>10. Reply(j) + Len(full) <= j.max
    BY <1>2, <1>3, <2>1, <2>2, <2>8 DEF full
  <2> QED BY <1>7, <2>8, <2>9, <2>10 DEF full, k
<1>8. CASE ~Room(j, agreed, b)
  <2>1. k = c.job
    BY <1>0, <1>8
  <2>2. Reply(j) + n <= j.max
    BY <1>1, <1>2, <1>3
  <2>3. Continues(k, j, part)
    BY <1>1, <2>1 DEF part
  <2> QED BY <1>2, <1>8, <2>2, <2>3 DEF part, k
<1> QED BY <1>7, <1>8

\* generate_blocking, chat_stream: a prompt-lookup round.
LEMMA PldRoundInv ==
  ASSUME DecodeInv, PldRound
  PROVE  DecodeInv'
<1> DEFINE drafted == LookupDraft(job.text, job.text, LookupLen, DraftK)
           f == ForwardAllLogits(main, <<LastOf(job.text)>> \o drafted)
<1>0. /\ job.phase = "pld" /\ ~Idle /\ Verified
      /\ UNCHANGED <<build, cache, tainted, draftVars, residentVars, served>>
  BY DEF PldRound, Idle
<1>1. job.lane = "candle"
  BY <1>0 DEF DecodeInv, DecodeTypeOK, JobOK
<1>2. /\ job \in JobSet /\ job.text \in Texts /\ Len(job.text) \in Nat /\ Len(job.text) > 0
      /\ Len(job.prompt) <= Len(job.text) /\ Reply(job) \in Nat /\ job.max \in Nat
      /\ job.left \in Nat /\ Len(Generated(job)) = Reply(job) /\ job.prompt \in Texts
  BY <1>0, JobFacts
<1>3. /\ CandleShape(job) /\ CandleBudget(job) /\ (~tainted => CandleHolds(main, job))
      /\ job.filled = TRUE /\ job.again = FALSE /\ Reply(job) < job.max /\ Reply(job) > 0
  <2>1. CandleShape(job) /\ CandleBudget(job) /\ (~tainted => CandleHolds(main, job))
    BY <1>0, <1>1 DEF DecodeInv, CandleOK
  <2>2. job.filled \in BOOLEAN /\ job.again \in BOOLEAN
    BY <1>2 DEF JobSet
  <2> QED BY <1>0, <2>1, <2>2 DEF CandleShape
<1>4. main \in Backend /\ tainted \in BOOLEAN
  BY DEF DecodeInv, DecodeTypeOK
<1>5. drafted \in Texts
  <2>1. LookupLen \in Nat /\ DraftK \in Int
    BY DecodeAssumption
  <2> QED BY <1>2, <2>1, LookupType DEF Texts
<1>6. LastOf(job.text) \in Token /\ <<LastOf(job.text)>> \o drafted \in Texts
  <2>1. LastOf(job.text) \in Token
    BY <1>2, FrontAndLast DEF LastOf, Texts
  <2>2. <<LastOf(job.text)>> \in Texts
    BY <2>1, Single DEF Texts
  <2> HIDE DEF drafted
  <2> QED BY <1>5, <2>1, <2>2, ConcatFacts DEF Texts
<1>7. /\ f.be \in Backend /\ f.be.loaded = main.loaded /\ f.ok \in BOOLEAN
      /\ ~main.loaded => ~f.ok /\ f.be = main
      /\ \A w \in Texts : Holds(main, w) /\ ~f.ok => f.be = main
  <2> DEFINE input == <<LastOf(job.text)>> \o drafted
  <2> HIDE DEF input
  <2>1. input \in Texts
    BY <1>6 DEF input
  <2>2. ForwardAllLogits(main, input) = Forward(main, input, Layers)
    BY DEF ForwardAllLogits
  <2>3. LET r == Forward(main, input, Layers)
        IN  /\ r.be \in Backend /\ r.be.loaded = main.loaded /\ r.ok \in BOOLEAN
            /\ ~main.loaded => ~r.ok /\ r.be = main
            /\ \A w \in Texts : Holds(main, w) /\ ~r.ok => r.be = main
    BY <1>4, <2>1, LayerOne, ForwardFacts
  <2> QED BY <2>2, <2>3 DEF input
<1>8. Front(job.text) \in Texts /\ Len(Front(job.text)) = Len(job.text) - 1
  BY <1>2, FrontAndLast DEF Texts
<1>9. ASSUME ~tainted PROVE Holds(main, Front(job.text)) /\ AsIfCold(job)
  BY <1>0, <1>3, <1>9 DEF CandleHolds
<1>10. CASE ~f.ok
  <2>1. main' = f.be /\ job' = [job EXCEPT !.phase = "top"]
    BY <1>0, <1>10 DEF Verified
  <2>2. /\ job' \in JobSet /\ job'.text = job.text /\ job'.lane = job.lane
        /\ job'.stream = job.stream /\ job'.prompt = job.prompt /\ job'.max = job.max
        /\ job'.phase = "top" /\ job'.filled = job.filled /\ job'.again = job.again
        /\ job'.left = job.left /\ job'.pld = job.pld
    BY <1>2, <2>1 DEF JobSet
  <2>3. JobOK(job)' /\ ~Idle' /\ Reply(job') = Reply(job) /\ AsIfCold(job') = AsIfCold(job)
    BY <1>0, <1>1, <2>2, StoppedOK
  <2>4. CandleShape(job')
    BY <1>3, <2>2, <2>3 DEF CandleShape
  <2>5. CandleBudget(job')
    BY <1>3, <2>2, <2>3 DEF CandleBudget
  <2>6. ASSUME ~tainted' PROVE CandleHolds(main', job')
    <3>1. Holds(main, Front(job.text)) /\ AsIfCold(job)
      BY <1>0, <1>9, <2>6
    <3>2. main' = main
      BY <1>7, <1>8, <1>10, <2>1, <3>1
    <3> QED BY <1>3, <2>2, <2>3, <3>1, <3>2 DEF CandleHolds
  <2>7. main' \in Backend /\ main'.loaded = main.loaded /\ (~main.loaded => main' = main)
        /\ tainted' \in BOOLEAN
    BY <1>0, <1>4, <1>7, <2>1
  <2> HIDE DEF f, drafted
  <2> QED BY <1>0, <1>1, <2>2, <2>3, <2>4, <2>5, <2>6, <2>7, CandleTurn
<1>11. CASE f.ok
  <2>1. PICK v \in VerifyDrafts(drafted, f.rows) :
           LET agreed == SubSeq(drafted, 1, v.accepted)
               c    == IF job.stream THEN StreamDrafted(job, agreed)
                       ELSE CommitDrafted(job, agreed)
               room == ~c.early /\ v.bonus # Eos /\ Len(Generated(c.job)) < job.max
               j    == IF room THEN Bonus(c.job, v.bonus) ELSE c.job
           IN  /\ main' = TruncateTo(f.be, KeptAfter(main.pos, v.accepted))
               /\ job' = [j EXCEPT !.phase = "top", !.again = ~room, !.pld = TRUE]
    BY <1>0, <1>11 DEF Verified
  <2>a. PICK a, b : a = v.accepted /\ b = v.bonus
    OBVIOUS
  <2> DEFINE agreed == SubSeq(drafted, 1, a)
             room == Room(job, agreed, b)
             j    == RoundCommitted(job, agreed, b)
  <2>2. /\ main' = TruncateTo(f.be, KeptAfter(main.pos, a))
        /\ job' = [j EXCEPT !.phase = "top", !.again = ~room, !.pld = TRUE]
    BY <2>1, <2>a DEF Room, RoundDrafted, RoundCommitted
  <2> HIDE DEF drafted, f
  <2>3. /\ a \in 0..Len(drafted) /\ b \in Token /\ Len(drafted) \in Nat
        /\ \A text \in Texts :
             (\A i \in 1..(Len(drafted) + 1) : f.rows[i] = text \o SubSeq(drafted, 1, i - 1)) =>
               /\ \A i \in 1..a : drafted[i] = Greedy(text \o SubSeq(drafted, 1, i - 1))
               /\ b = Greedy(text \o SubSeq(drafted, 1, a))
    <3>1. /\ v.accepted \in 0..Len(drafted) /\ v.bonus \in Token
          /\ \A text \in Texts :
               (\A i \in 1..(Len(drafted) + 1) : f.rows[i] = text \o SubSeq(drafted, 1, i - 1)) =>
                 /\ \A i \in 1..v.accepted : drafted[i] = Greedy(text \o SubSeq(drafted, 1, i - 1))
                 /\ v.bonus = Greedy(text \o SubSeq(drafted, 1, v.accepted))
      BY <1>5, VerifyFacts, SMTT(30)
    <3>2. Len(drafted) \in Nat
      BY <1>5, TextsKv
    <3> QED BY <2>a, <3>1, <3>2, Zenon
  <2>4. agreed \in Texts /\ Len(agreed) = a
    BY <1>5, <2>3, PrefixFacts DEF Texts, agreed
  <2> HIDE DEF agreed
  <2>5. PICK toks \in Texts :
           /\ Continues(j, job, toks) /\ Reply(job) + Len(toks) <= job.max
           /\ room => toks = agreed \o <<b>>
           /\ ~room => \E n \in 0..Len(agreed) : toks = SubSeq(agreed, 1, n)
    <3>1. /\ job \in JobSet /\ Len(job.prompt) <= Len(job.text) /\ Reply(job) < job.max
          /\ agreed \in Texts /\ b \in Token
      BY <1>2, <1>3, <2>3, <2>4
    <3> QED BY <3>1, RoundCommits
  <2>6. room \in BOOLEAN
    BY DEF Room
  <2> HIDE DEF j, room
  <2>7. /\ job' \in JobSet /\ job'.text = job.text \o toks /\ job'.lane = job.lane
        /\ job'.stream = job.stream /\ job'.prompt = job.prompt /\ job'.max = job.max
        /\ job'.phase = "top" /\ job'.filled = TRUE /\ job'.again = ~room
        /\ job'.left = job.left /\ job'.pld = TRUE
    BY <1>3, <2>2, <2>5, <2>6 DEF JobSet, Continues
  <2>8. /\ JobOK(job)' /\ ~Idle' /\ Len(toks) \in Nat /\ Reply(job') = Reply(job) + Len(toks)
        /\ job'.text \in Texts
    <3> DEFINE i == [job EXCEPT !.again = ~room, !.pld = TRUE]
    <3>1. /\ i \in JobSet /\ i.text = job.text /\ i.lane = job.lane /\ i.prompt = job.prompt
          /\ i.stream = job.stream /\ i.max = job.max /\ i.left = job.left
          /\ i.again = ~room /\ i.pld = TRUE
      BY <1>2, <2>6 DEF JobSet
    <3> HIDE DEF i
    <3>2. Resumes(job', i, toks)
      BY <2>7, <3>1 DEF Resumes
    <3> QED BY <1>0, <1>1, <2>7, <3>1, <3>2, ResumedOK
  <2>9. CandleShape(job')
    <3>1. Reply(job') > 0
      BY <1>2, <1>3, <2>8
    <3> QED BY <2>7, <3>1 DEF CandleShape
  <2>10. CandleBudget(job')
    <3> DEFINE r == Reply(job)  n == Len(toks)  l == job.left  m == job.max
    <3>1. /\ r \in Nat /\ n \in Nat /\ l \in Nat /\ m \in Nat /\ r > 0 /\ r + n <= m
          /\ (~job.stream => l < m)
          /\ Reply(job') = r + n /\ job'.left = l /\ job'.max = m /\ job'.stream = job.stream
      BY <1>2, <1>3, <2>5, <2>7, <2>8 DEF CandleBudget
    <3> HIDE DEF r, n, l, m
    <3>2. r + n > 0 /\ (l < m => l <= m /\ (r + n) + l < 2 * m)
      BY <3>1
    <3> QED BY <2>7, <3>1, <3>2 DEF CandleBudget
  <2>11. main' \in Backend /\ main'.loaded = main.loaded /\ (~main.loaded => main' = main)
         /\ tainted' \in BOOLEAN
    <3>1. KeptAfter(main.pos, a) \in Nat
      <4>1. main.pos \in Nat
        BY <1>4, BackendFields
      <4> QED BY <2>3, <4>1 DEF KeptAfter
    <3>2. /\ TruncateTo(f.be, KeptAfter(main.pos, a)) \in Backend
          /\ TruncateTo(f.be, KeptAfter(main.pos, a)).loaded = f.be.loaded
      BY <1>7, <3>1, TruncateFacts
    <3> QED BY <1>0, <1>4, <1>7, <1>11, <2>2, <3>2
  <2>12. ASSUME ~tainted' PROVE CandleHolds(main', job')
    <3>1. Holds(main, Front(job.text)) /\ AsIfCold(job)
      BY <1>0, <1>9, <2>12
    <3>2. /\ Holds(f.be, job.text \o drafted)
          /\ \A i \in 1..(Len(drafted) + 1) : f.rows[i] = job.text \o SubSeq(drafted, 1, i - 1)
      <4>1. main \in Backend /\ job.text \in Texts /\ Len(job.text) > 0 /\ Holds(main, Front(job.text))
        BY <1>2, <1>4, <3>1
      <4> QED BY <1>5, <1>11, <4>1, VerifyingForward DEF f
    <3>3. /\ \A i \in 1..a : drafted[i] = Greedy(job.text \o SubSeq(drafted, 1, i - 1))
          /\ b = Greedy(job.text \o SubSeq(drafted, 1, a))
      BY <1>2, <2>3, <3>2
    <3> DEFINE full == agreed \o <<b>>
    <3>4. /\ full \in Texts /\ Len(full) = a + 1 /\ SubSeq(full, 1, a) = agreed
          /\ \A i \in 1..Len(full) : full[i] = Greedy(job.text \o SubSeq(full, 1, i - 1))
      <4>1. LET u == SubSeq(drafted, 1, a) \o <<b>>
            IN  /\ u \in Texts /\ Len(u) = a + 1 /\ SubSeq(u, 1, a) = SubSeq(drafted, 1, a)
                /\ \A i \in 1..Len(u) : u[i] = Greedy(job.text \o SubSeq(u, 1, i - 1))
        <5>1. /\ job.text \in Texts /\ drafted \in Texts /\ a \in 0..Len(drafted) /\ b \in Token
              /\ \A i \in 1..a : drafted[i] = Greedy(job.text \o SubSeq(drafted, 1, i - 1))
              /\ b = Greedy(job.text \o SubSeq(drafted, 1, a))
          BY <1>2, <1>5, <2>3, <3>3
        <5> QED BY <5>1, AcceptedOwn, ZenonT(30)
      <4> QED BY <4>1 DEF agreed
    <3>5. \E n \in 0..Len(full) : toks = SubSeq(full, 1, n)
      <4>1. CASE room
        <5>1. toks = full
          BY <2>5, <4>1
        <5>2. full = SubSeq(full, 1, Len(full))
          BY <3>4, SubSeqFull DEF Texts
        <5> HIDE DEF full
        <5>3. Len(full) \in 0..Len(full)
          BY <2>3, <3>4
        <5> QED BY <5>1, <5>2, <5>3
      <4>2. CASE ~room
        <5>1. PICK n \in 0..Len(agreed) : toks = SubSeq(agreed, 1, n)
          BY <2>5, <4>2
        <5> HIDE DEF full
        <5>2. n \in 0..a /\ a \in 0..Len(full) /\ n \in 0..Len(full)
          BY <2>3, <2>4, <3>4, <5>1
        <5>3. SubSeq(SubSeq(full, 1, a), 1, n) = SubSeq(full, 1, n)
          BY <3>4, <5>2, PrefixOfPrefix DEF Texts
        <5> QED BY <3>4, <5>1, <5>2, <5>3
      <4> QED BY <4>1, <4>2
    <3> HIDE DEF full, agreed
    <3>6. Cold(job.prompt, job.text \o toks)
      <4>1. PICK n \in 0..Len(full) : toks = SubSeq(full, 1, n)
        BY <3>5
      <4>2. \A i \in 1..n : toks[i] = Greedy(job.text \o SubSeq(toks, 1, i - 1))
        BY <1>2, <3>4, <4>1, OwnPrefixes
      <4>3. Len(toks) = n
        BY <3>4, <4>1, PrefixFacts DEF Texts
      <4> QED BY <1>2, <3>1, <4>2, <4>3, ColdExtends DEF AsIfCold
    <3>7. Holds(main', job.text \o agreed)
      <4>1. main.pos = Len(job.text) - 1
        BY <1>8, <3>1 DEF Holds
      <4>2. KeptAfter(main.pos, a) = Len(job.text) + a
        BY <1>2, <2>3, <4>1 DEF KeptAfter
      <4>3. job.text \o drafted \in Texts /\ Len(job.text) + a \in 0..Len(job.text \o drafted)
        <5>1. job.text \o drafted \in Texts /\ Len(job.text \o drafted) = Len(job.text) + Len(drafted)
          BY <1>2, <1>5, ConcatFacts DEF Texts
        <5> QED BY <1>2, <2>3, <5>1
      <4>4. Holds(TruncateTo(f.be, Len(job.text) + a), SubSeq(job.text \o drafted, 1, Len(job.text) + a))
        BY <1>7, <3>2, <4>3, TruncateHolds
      <4>5. SubSeq(job.text \o drafted, 1, Len(job.text) + a) = job.text \o agreed
        <5>1. job.text \in Seq(Token) /\ drafted \in Seq(Token) /\ a \in 0..Len(drafted)
          BY <1>2, <1>5, <2>3 DEF Texts
        <5>2. SubSeq(job.text \o drafted, 1, Len(job.text) + a) = job.text \o SubSeq(drafted, 1, a)
          BY <5>1, PrefixBeyond
        <5> QED BY <5>2 DEF agreed
      <4> QED BY <2>2, <4>2, <4>4, <4>5
    <3>8. job.text \o agreed \in Texts
      BY <1>2, <2>4, ConcatFacts DEF Texts
    <3>9. ASSUME room PROVE Holds(main', Front(job'.text))
      <4>1. toks = agreed \o <<b>> /\ <<b>> \in Texts
        BY <2>3, <2>5, <3>9, Single DEF full, Texts
      <4>2. (job.text \o agreed) \o <<b>> = job.text \o (agreed \o <<b>>)
        <5>1. job.text \in Texts /\ agreed \in Texts /\ <<b>> \in Texts
          BY <1>2, <2>4, <4>1
        <5> QED BY <5>1, Regrouped, ZenonT(30)
      <4>3. Append(job.text \o agreed, b) = (job.text \o agreed) \o <<b>>
            /\ Front(Append(job.text \o agreed, b)) = job.text \o agreed
        <5>1. b \in Token
          BY <2>3
        <5>2. job.text \o agreed \in Seq(Token)
          BY <3>8 DEF Texts
        <5> QED BY <5>1, <5>2, Pushed, ZenonT(30)
      <4>4. job'.text = Append(job.text \o agreed, b)
        BY <2>7, <4>1, <4>2, <4>3
      <4> QED BY <3>7, <4>3, <4>4
    <3>10. ASSUME ~room PROVE Ahead(main', job'.text)
      <4>1. PICK n \in 0..Len(agreed) : toks = SubSeq(agreed, 1, n)
        BY <2>5, <3>10
      <4>2. SubSeq(job.text \o agreed, 1, Len(job.text) + n) = job.text \o SubSeq(agreed, 1, n)
        <5>1. job.text \in Seq(Token) /\ agreed \in Seq(Token) /\ n \in 0..Len(agreed)
          BY <1>2, <2>4 DEF Texts
        <5> QED BY <5>1, PrefixBeyond, ZenonT(30)
      <4>3. Len(job.text) + n \in 0..Len(job.text \o agreed)
        <5>1. Len(job.text \o agreed) = Len(job.text) + Len(agreed)
          BY <1>2, <2>4, ConcatFacts DEF Texts
        <5> QED BY <1>2, <2>3, <2>4, <5>1
      <4>4. Ahead(main', SubSeq(job.text \o agreed, 1, Len(job.text) + n))
        BY <3>7, <3>8, <4>3, AheadOfPrefix
      <4> QED BY <2>7, <4>1, <4>2, <4>4
    <3>11. Cold(job'.prompt, job'.text)
      BY <2>7, <3>6
    <3> QED BY <2>6, <2>7, <3>9, <3>10, <3>11 DEF CandleHolds, AsIfCold
  <2> QED BY <1>0, <1>1, <2>7, <2>8, <2>9, <2>10, <2>11, <2>12, CandleTurn
<1> QED BY <1>7, <1>10, <1>11

-----------------------------------------------------------------------------
(* Requests arrive *)

\* An idle slot's lane is nobody's; its caches are what the invariant says of one.
LEMMA IdleFacts ==
  ASSUME DecodeInv, Idle
  PROVE  /\ job.lane = "candle" /\ served \in Nat /\ build \in {"cpu", "gpu", "vulkan"}
         /\ main \in Backend /\ draft \in Backend /\ cache \in Texts /\ draftCache \in Texts
         /\ noted \in Texts /\ tainted \in BOOLEAN /\ overwritten \in BOOLEAN
         /\ poisoned \in BOOLEAN /\ DOMAIN kv = 0..(LaneSeq - 1)
         /\ ~main.loaded => main.kv = NoKv
         /\ (main.loaded /\ ~tainted) => Trail(main, cache)
         /\ Ahead(draft, draftCache)
         /\ ~overwritten => Len(noted) <= LaneSeq /\ ResHolds(kv, noted, Len(noted))
<1>1. job = NoJob
  BY DEF DecodeInv, DecodeTypeOK, JobOK, Idle
<1>2. job.lane = "candle"
  BY <1>1 DEF NoJob
<1> QED BY <1>2 DEF DecodeInv, DecodeTypeOK, SlotOK, NotedOK

\* Types of a request that arrives.
LEMMA NewJobFacts ==
  ASSUME DecodeInv, Idle, NEW lane \in {"candle", "spec", "fast"}, NEW j \in NewJobs(lane)
  PROVE  /\ j \in JobSet /\ j.prompt \in Texts /\ j.text = j.prompt
         /\ Len(j.prompt) > 0 /\ Len(j.prompt) < MaxSeq /\ Len(j.prompt) \in Nat
         /\ j.lane = lane /\ j.stream \in BOOLEAN
         /\ j.max \in Nat /\ j.left = j.max
         /\ j.filled = FALSE /\ j.again = FALSE /\ j.pld = FALSE
<1>1. PICK p \in NextPrompts, m \in MaxTokenChoices, stop \in StopStrings \cup {<<>>},
           stream \in BOOLEAN : j = NewJob(lane, stream, p, m, stop)
  BY DEF NewJobs
<1>2. p \in Texts /\ Len(p) \in Nat /\ Len(p) > 0 /\ Len(p) < MaxSeq
  <2>1. CASE p \in Prompts
    <3>1. p \in Texts /\ p # <<>>
      BY <2>1, DecodeAssumption DEF Texts
    <3>2. Len(p) \in Nat /\ Len(p) # 0
      BY <3>1, TextsKv, EmptySeq DEF Texts
    <3> QED BY <3>1, <3>2 DEF NextPrompts
  <2>2. ASSUME NEW c \in {cache, noted} \ {<<>>}, NEW f \in FollowUps, p = c \o f
        PROVE  p \in Texts /\ Len(p) \in Nat /\ Len(p) > 0
    <3>1. c \in Texts /\ f \in Texts /\ c # <<>>
      BY IdleFacts, DecodeAssumption DEF Texts
    <3>2. Len(c) # 0
      BY <3>1, EmptySeq DEF Texts
    <3>3. c \o f \in Texts /\ Len(c \o f) = Len(c) + Len(f) /\ Len(c) \in Nat /\ Len(f) \in Nat
      BY <3>1, ConcatFacts DEF Texts
    <3> QED BY <2>2, <3>2, <3>3
  <2>3. p \in Prompts \/ \E c \in {cache, noted} \ {<<>>}, f \in FollowUps : p = c \o f
    BY DEF NextPrompts
  <2>4. Len(p) < MaxSeq
    BY DEF NextPrompts
  <2> QED BY <2>1, <2>2, <2>3, <2>4
<1>3. Clamped(m, p) \in Nat
  <2>1. m \in Nat /\ MaxSeq \in Nat
    BY DecodeAssumption, CandleAssumption
  <2> QED BY <1>2, <2>1 DEF Clamped
<1>4. stop \in Seq(Token)
  BY DecodeAssumption, EmptySeq
<1>5. stream \in BOOLEAN
  OBVIOUS
<1>6. NoJob \in JobSet
  BY EmptySeq, DecodeAssumption DEF NoJob, JobSet, Rows, Texts
<1> DEFINE max == Clamped(m, p)
<1>7. max \in Nat /\ j = [NoJob EXCEPT !.lane = lane, !.stream = stream, !.prompt = p, !.text = p,
                          !.max = max, !.left = max, !.stop = stop]
  BY <1>1, <1>3 DEF NewJob
<1> HIDE DEF max
<1>8. /\ j \in JobSet /\ j.prompt = p /\ j.text = p /\ j.lane = lane /\ j.stream = stream
      /\ j.max = max /\ j.left = max
  BY <1>2, <1>4, <1>5, <1>6, <1>7 DEF JobSet
<1>9. j.filled = FALSE /\ j.again = FALSE /\ j.pld = FALSE
  BY <1>7 DEF NoJob
<1> QED BY <1>2, <1>7, <1>8, <1>9

\* A request that begins is one, and has no reply yet.
LEMMA BegunOK ==
  ASSUME NEW k \in JobSet, k.text = k.prompt, Len(k.prompt) > 0, Len(k.prompt) < MaxSeq,
         job' = k, build' = build,
         \/ k.lane = "candle" /\ k.phase = "top"
         \/ k.lane = "spec" /\ k.phase = "spec" /\ ~k.stream
         \/ k.lane = "fast" /\ k.phase = "fast" /\ build # "cpu"
  PROVE  JobOK(job)' /\ ~Idle' /\ Reply(job') = 0 /\ AsIfCold(job')
<1>1. k.prompt \in Texts /\ Len(k.prompt) \in Nat
  BY TextsKv DEF JobSet
<1>2. k.prompt = SubSeq(k.prompt, 1, Len(k.prompt))
  BY <1>1, SubSeqFull DEF Texts
<1>3. k.phase # "idle"
  OBVIOUS
<1>4. JobOK(job)'
  BY <1>1, <1>2, <1>3 DEF JobOK
<1>5. Reply(k) = 0
  BY <1>1 DEF Reply
<1>6. (Len(k.prompt) + 1)..Len(k.text) = {}
  BY <1>1
<1>7. AsIfCold(k)
  BY <1>6 DEF AsIfCold, Cold
<1> QED BY <1>3, <1>4, <1>5, <1>7 DEF Idle

\* What is kept of the slot's KV is the start of the prompt, unless it is known not to
\* fit: an unloaded backend's never does.
LEMMA KeptHolds ==
  ASSUME DecodeInv, Idle, NEW prompt \in Texts, Len(prompt) > 0
  PROVE  LET p == Prepare(main, prompt, cache)
         IN  /\ TaintAfter(p) \in BOOLEAN
             /\ ~TaintAfter(p) => Holds(p.be, SubSeq(prompt, 1, p.start))
<1> DEFINE p == Prepare(main, prompt, cache)
<1>1. /\ p.be \in Backend /\ p.start \in 0..(Len(prompt) - 1)
      /\ main.kv = NoKv => p.be.kv = NoKv
      /\ p.start = 0 => Holds(p.be, SubSeq(prompt, 1, p.start))
      /\ Trail(main, cache) /\ (\A l \in 1..Layers : ~(Len(p.be.kv[l]) < p.start))
           => Holds(p.be, SubSeq(prompt, 1, p.start))
  BY IdleFacts, PrepareFacts
<1> HIDE DEF p
<1>2. TaintAfter(p) \in BOOLEAN
  BY IdleFacts DEF TaintAfter
<1>3. ASSUME ~TaintAfter(p), p.start # 0 PROVE Holds(p.be, SubSeq(prompt, 1, p.start))
  <2>1. p.start > 0
    BY <1>1, <1>3
  <2>2. ~tainted /\ \A l \in 1..Layers : ~(Len(p.be.kv[l]) < p.start)
    BY <1>3, <2>1 DEF TaintAfter
  <2>3. main.loaded
    <3>1. SUFFICES ASSUME ~main.loaded PROVE FALSE
      OBVIOUS
    <3>2. p.be.kv[1] = <<>>
      BY <1>1, <3>1, IdleFacts, LayerOne DEF NoKv
    <3>3. Len(p.be.kv[1]) = 0
      BY <3>2, EmptySeq
    <3> QED BY <2>1, <2>2, <3>3, LayerOne
  <2> QED BY <1>1, <2>2, <2>3, IdleFacts
<1> QED BY <1>1, <1>2, <1>3 DEF p

\* generate_blocking, chat_stream: a request takes the slot.
LEMMA BeginCandleInv ==
  ASSUME DecodeInv, BeginCandle
  PROVE  DecodeInv'
<1>0. Idle /\ UNCHANGED <<build, draftVars, residentVars>>
  BY DEF BeginCandle
<1>1. PICK j \in NewJobs("candle"), cold \in BOOLEAN :
        LET p == IF cold THEN [be |-> Reset(main), cached |-> <<>>, start |-> 0]
                 ELSE Prepare(main, j.prompt, cache)
        IN  /\ main' = p.be /\ cache' = p.cached /\ tainted' = TaintAfter(p)
            /\ Admit([j EXCEPT !.phase = "top", !.start = p.start])
  BY DEF BeginCandle
<1> DEFINE p == IF cold THEN [be |-> Reset(main), cached |-> <<>>, start |-> 0]
                ELSE Prepare(main, j.prompt, cache)
<1>2. /\ j \in JobSet /\ j.prompt \in Texts /\ j.text = j.prompt
      /\ Len(j.prompt) > 0 /\ Len(j.prompt) < MaxSeq /\ Len(j.prompt) \in Nat
      /\ j.lane = "candle" /\ j.max \in Nat /\ j.left = j.max
      /\ j.filled = FALSE /\ j.again = FALSE /\ j.pld = FALSE
  BY <1>0, NewJobFacts
<1>3. /\ main' = p.be /\ cache' = p.cached /\ tainted' = TaintAfter(p)
      /\ served' = served + 1 /\ job' = [j EXCEPT !.phase = "top", !.start = p.start]
  BY <1>1 DEF Admit
<1>4. /\ p.be \in Backend /\ p.be.loaded = main.loaded /\ p.start \in 0..(Len(j.prompt) - 1)
      /\ p.cached \in Texts /\ (main.kv = NoKv => p.be.kv = NoKv)
      /\ TaintAfter(p) \in BOOLEAN
      /\ ~TaintAfter(p) => Holds(p.be, SubSeq(j.prompt, 1, p.start))
  <2>1. CASE cold
    <3>1. p = [be |-> Reset(main), cached |-> <<>>, start |-> 0]
      BY <2>1
    <3> HIDE DEF p
    <3>2. p.be = Reset(main) /\ p.cached = <<>> /\ p.start = 0
      BY <3>1
    <3>3. SubSeq(j.prompt, 1, 0) = <<>> /\ <<>> \in Texts
      BY SubSeqEmpty, EmptySeq DEF Texts
    <3>4. TaintAfter(p) \in BOOLEAN
      BY <1>0, IdleFacts DEF TaintAfter
    <3>5. main \in Backend
      BY <1>0, IdleFacts
    <3>6. /\ Reset(main) \in Backend /\ Reset(main).loaded = main.loaded
          /\ Reset(main).kv = NoKv /\ Holds(Reset(main), <<>>)
      BY <3>5, ResetFacts
    <3>7. 0 \in 0..(Len(j.prompt) - 1)
      BY <1>2
    <3> QED BY <3>2, <3>3, <3>4, <3>6, <3>7
  <2>2. CASE ~cold
    <3>1. p = Prepare(main, j.prompt, cache)
      BY <2>2
    <3> DEFINE q == Prepare(main, j.prompt, cache)
    <3>2. /\ q.be \in Backend /\ q.be.loaded = main.loaded
          /\ q.start \in 0..(Len(j.prompt) - 1) /\ q.cached = SubSeq(j.prompt, 1, q.start)
          /\ main.kv = NoKv => q.be.kv = NoKv
      BY <1>0, <1>2, IdleFacts, PrepareFacts
    <3>3. /\ TaintAfter(q) \in BOOLEAN
          /\ ~TaintAfter(q) => Holds(q.be, SubSeq(j.prompt, 1, q.start))
      BY <1>0, <1>2, KeptHolds
    <3> HIDE DEF p, q
    <3>4. q.cached \in Texts
      <4>1. q.start \in 0..Len(j.prompt)
        BY <1>2, <3>2
      <4> QED BY <1>2, <3>2, <4>1, PrefixFacts DEF Texts
    <3>5. p = q
      BY <3>1 DEF q
    <3> QED BY <3>2, <3>3, <3>4, <3>5
  <2> QED BY <2>1, <2>2
<1> HIDE DEF p
<1>5. /\ job' \in JobSet /\ job'.prompt = j.prompt /\ job'.text = j.prompt
      /\ job'.lane = "candle" /\ job'.phase = "top" /\ job'.start = p.start
      /\ job'.max = j.max /\ job'.left = j.max
      /\ job'.filled = FALSE /\ job'.again = FALSE /\ job'.pld = FALSE
  <2>1. p.start \in Nat
    BY <1>4
  <2> QED BY <1>2, <1>3, <2>1 DEF JobSet
<1>6. JobOK(job)' /\ ~Idle' /\ Reply(job') = 0 /\ AsIfCold(job')
  BY <1>0, <1>2, <1>5, BegunOK
<1>7. CandleShape(job') /\ CandleBudget(job')
  BY <1>2, <1>5, <1>6 DEF CandleShape, CandleBudget
<1>8. ASSUME ~tainted' PROVE CandleHolds(main', job')
  <2>1. Holds(main', SubSeq(j.prompt, 1, p.start)) /\ p.start < Len(j.prompt)
    BY <1>2, <1>3, <1>4, <1>8
  <2> QED BY <1>5, <1>6, <2>1 DEF CandleHolds
<1>9. DecodeTypeOK'
  BY <1>0, <1>3, <1>4, <1>6, IdleFacts DEF DecodeTypeOK, draftVars, residentVars
<1>10. SlotOK' /\ NotedOK'
  BY <1>0, <1>5, <1>6, IdleFacts DEF SlotOK, NotedOK, DecodeInv, draftVars, residentVars
<1>11. CandleOK' /\ SpecOK' /\ FastOK'
  BY <1>5, <1>7, <1>8 DEF CandleOK, SpecOK, FastOK
<1> QED BY <1>9, <1>10, <1>11 DEF DecodeInv

-----------------------------------------------------------------------------
(* Speculative decoding with a draft model *)

\* A prompt is prefilled behind the part of it that is held.
LEMMA PrefillFacts ==
  ASSUME NEW be \in Backend, NEW prompt \in Texts, NEW s \in 0..(Len(prompt) - 1)
  PROVE  LET f == ForwardLogits(be, SubSeq(prompt, s + 1, Len(prompt)))
         IN  /\ f.be \in Backend /\ f.be.loaded = be.loaded /\ f.ok \in BOOLEAN
             /\ ~be.loaded => ~f.ok /\ f.be = be
             /\ f.ok => /\ f.be.pos = be.pos + (Len(prompt) - s)
                        /\ LastOf(f.rows) \in Rows
             /\ Holds(be, SubSeq(prompt, 1, s)) =>
                  /\ Ahead(f.be, SubSeq(prompt, 1, s))
                  /\ f.ok => Holds(f.be, prompt) /\ LastOf(f.rows) = prompt
<1> DEFINE w == SubSeq(prompt, 1, s)
           rest == SubSeq(prompt, s + 1, Len(prompt))
           f == ForwardLogits(be, rest)
<1>1. s \in 0..Len(prompt) /\ Len(prompt) \in Nat
  BY TextsKv
<1>2. w \in Texts /\ rest \in Texts /\ Len(rest) = Len(prompt) - s /\ w \o rest = prompt
  BY <1>1, PrefixFacts, SplitAt DEF Texts
<1> HIDE DEF w, rest
<1>3. /\ f.be \in Backend /\ f.be.loaded = be.loaded /\ f.ok \in BOOLEAN
      /\ ~be.loaded => ~f.ok /\ f.be = be
      /\ f.ok => f.be.pos = be.pos + Len(rest) /\ LastOf(f.rows) \in Rows
  BY <1>2, ForwardLogitsType
<1>4. ASSUME Holds(be, w)
      PROVE  /\ f.ok \in BOOLEAN
             /\ f.ok => Holds(f.be, w \o rest) /\ LastOf(f.rows) = w \o rest
             /\ ~f.ok => \E n \in 0..Len(rest) : Holds(f.be, w \o SubSeq(rest, 1, n))
  BY <1>2, <1>4, ForwardLogitsHolds
<1> HIDE DEF f
<1>5. ASSUME Holds(be, w) PROVE Ahead(f.be, w)
  <2>1. CASE f.ok
    BY <1>2, <1>4, <1>5, <2>1, AheadOfPart
  <2>2. CASE ~f.ok
    <3>1. PICK n \in 0..Len(rest) : Holds(f.be, w \o SubSeq(rest, 1, n))
      BY <1>4, <1>5, <2>2
    <3>2. SubSeq(rest, 1, n) \in Texts
      BY <1>2, PrefixFacts DEF Texts
    <3> QED BY <1>2, <3>1, <3>2, AheadOfPart
  <2> QED BY <2>1, <2>2
<1>6. Holds(be, w) => /\ Ahead(f.be, w)
                      /\ f.ok => Holds(f.be, prompt) /\ LastOf(f.rows) = prompt
  BY <1>2, <1>4, <1>5
<1> QED BY <1>2, <1>3, <1>6 DEF f, w, rest

\* The step touches both backends and the request only.
LEMMA SpecTurn ==
  ASSUME DecodeInv, ~Idle, job.lane = "spec",
         UNCHANGED <<build, cache, tainted, draftCache, residentVars, served>>,
         main' \in Backend, main'.loaded = main.loaded, ~main.loaded => main' = main,
         draft' \in Backend, JobOK(job)', job'.lane = "spec", ~Idle', SpecOK'
  PROVE  DecodeInv'
<1>1. ~main'.loaded => main'.kv = NoKv
  BY DEF DecodeInv, DecodeTypeOK
<1>2. DecodeTypeOK'
  BY <1>1 DEF DecodeInv, DecodeTypeOK, residentVars
<1>3. SlotOK' /\ NotedOK'
  BY DEF DecodeInv, SlotOK, NotedOK, residentVars, Idle
<1>4. CandleOK' /\ FastOK'
  BY DEF CandleOK, FastOK
<1> QED BY <1>2, <1>3, <1>4 DEF DecodeInv

\* generate_spec_decode begins: both models prefill, or it returns without a sync.
LEMMA BeginSpecInv ==
  ASSUME DecodeInv, BeginSpec
  PROVE  DecodeInv'
<1>0. Idle /\ UNCHANGED <<build, residentVars>>
  BY DEF BeginSpec
<1>1. PICK j \in {k \in NewJobs("spec") : ~k.stream} :
        LET p == Prepare(main, j.prompt, cache)
            f == ForwardLogits(p.be, SubSeq(j.prompt, p.start + 1, Len(j.prompt)))
            q == Prepare(draft, j.prompt, draftCache)
            g == ForwardLogits(q.be, SubSeq(j.prompt, q.start + 1, Len(j.prompt)))
        IN  /\ main' = f.be /\ cache' = p.cached /\ tainted' = TaintAfter(p)
            /\ IF f.ok
               THEN /\ draft' = g.be /\ draftCache' = q.cached
                    /\ IF g.ok
                       THEN Admit([j EXCEPT !.phase = "spec", !.row = LastOf(f.rows),
                                            !.draftRow = LastOf(g.rows)])
                       ELSE Admit(NoJob)
               ELSE Admit(NoJob) /\ UNCHANGED draftVars
  BY DEF BeginSpec
<1> DEFINE prompt == j.prompt
           p == Prepare(main, prompt, cache)
           f == ForwardLogits(p.be, SubSeq(prompt, p.start + 1, Len(prompt)))
           q == Prepare(draft, prompt, draftCache)
           g == ForwardLogits(q.be, SubSeq(prompt, q.start + 1, Len(prompt)))
<1>2. /\ j \in JobSet /\ prompt \in Texts /\ j.text = prompt /\ ~j.stream
      /\ Len(prompt) > 0 /\ Len(prompt) < MaxSeq /\ Len(prompt) \in Nat
      /\ j.lane = "spec" /\ j.max \in Nat
  <2>1. j \in NewJobs("spec") /\ ~j.stream
    OBVIOUS
  <2> QED BY <1>0, <2>1, NewJobFacts
<1>3. /\ main' = f.be /\ cache' = p.cached /\ tainted' = TaintAfter(p) /\ served' = served + 1
      /\ f.ok => draft' = g.be /\ draftCache' = q.cached
      /\ f.ok /\ g.ok => job' = [j EXCEPT !.phase = "spec", !.row = LastOf(f.rows),
                                          !.draftRow = LastOf(g.rows)]
      /\ ~(f.ok /\ g.ok) => job' = NoJob
      /\ ~f.ok => draft' = draft /\ draftCache' = draftCache
  BY <1>1 DEF Admit, draftVars
<1>4. /\ p.be \in Backend /\ p.be.loaded = main.loaded /\ p.be.pos = p.start
      /\ p.start \in 0..(Len(prompt) - 1) /\ p.cached = SubSeq(prompt, 1, p.start)
      /\ main.kv = NoKv => p.be.kv = NoKv
  BY <1>0, <1>2, IdleFacts, PrepareFacts
<1>5. TaintAfter(p) \in BOOLEAN /\ (~TaintAfter(p) => Holds(p.be, SubSeq(prompt, 1, p.start)))
  BY <1>0, <1>2, KeptHolds
<1>6. /\ q.be \in Backend /\ q.be.pos = q.start
      /\ q.start \in 0..(Len(prompt) - 1) /\ q.cached = SubSeq(prompt, 1, q.start)
      /\ Holds(q.be, SubSeq(prompt, 1, q.start))
  BY <1>0, <1>2, IdleFacts, PrepareFacts
<1> HIDE DEF p, q
<1>7. /\ f.be \in Backend /\ f.be.loaded = p.be.loaded /\ f.ok \in BOOLEAN
      /\ ~p.be.loaded => ~f.ok /\ f.be = p.be
      /\ f.ok => f.be.pos = p.be.pos + (Len(prompt) - p.start) /\ LastOf(f.rows) \in Rows
      /\ Holds(p.be, SubSeq(prompt, 1, p.start)) =>
           /\ Ahead(f.be, SubSeq(prompt, 1, p.start))
           /\ f.ok => Holds(f.be, prompt) /\ LastOf(f.rows) = prompt
  BY <1>2, <1>4, PrefillFacts
<1>8. /\ g.be \in Backend /\ g.ok \in BOOLEAN
      /\ g.ok => g.be.pos = q.be.pos + (Len(prompt) - q.start) /\ LastOf(g.rows) \in Rows
      /\ Ahead(g.be, SubSeq(prompt, 1, q.start)) /\ (g.ok => Holds(g.be, prompt))
  BY <1>2, <1>6, PrefillFacts
<1> HIDE DEF f, g
<1>9. p.cached \in Texts /\ q.cached \in Texts
  <2>1. p.start \in 0..Len(prompt) /\ q.start \in 0..Len(prompt)
    BY <1>2, <1>4, <1>6
  <2> QED BY <1>2, <1>4, <1>6, <2>1, PrefixFacts DEF Texts
<1>10. /\ main' \in Backend /\ draft' \in Backend /\ cache' \in Texts /\ draftCache' \in Texts
       /\ (~main'.loaded => main'.kv = NoKv) /\ tainted' \in BOOLEAN /\ served' \in Nat
  <2>1. /\ draft \in Backend /\ draftCache \in Texts /\ served \in Nat
        /\ ~main.loaded => main.kv = NoKv
    BY <1>0, IdleFacts
  <2>2. draft' \in Backend /\ draftCache' \in Texts
    BY <1>3, <1>7, <1>8, <1>9, <2>1
  <2>3. ~main'.loaded => main'.kv = NoKv
    BY <1>3, <1>4, <1>7, <2>1
  <2>4. main' \in Backend /\ cache' \in Texts /\ tainted' \in BOOLEAN /\ served' \in Nat
    BY <1>3, <1>5, <1>7, <1>9, <2>1
  <2> QED BY <2>2, <2>3, <2>4
<1>12. /\ UNCHANGED <<kv, noted, overwritten, poisoned>>
       /\ build' = build
  BY <1>0 DEF residentVars
<1>13. ASSUME JobOK(job)' PROVE DecodeTypeOK'
  BY <1>0, <1>10, <1>12, <1>13, IdleFacts DEF DecodeTypeOK
<1>14. NotedOK'
  BY <1>0, <1>12, IdleFacts DEF DecodeInv, NotedOK
<1>15. CASE f.ok /\ g.ok
  <2>1. /\ job' \in JobSet /\ job'.prompt = prompt /\ job'.text = prompt /\ ~job'.stream
        /\ job'.lane = "spec" /\ job'.phase = "spec" /\ job'.max = j.max
        /\ job'.row = LastOf(f.rows)
    <3> DEFINE r == LastOf(f.rows)  s == LastOf(g.rows)
    <3>1. r \in Rows /\ s \in Rows
      BY <1>7, <1>8, <1>15
    <3> HIDE DEF r, s
    <3>2. job' = [j EXCEPT !.phase = "spec", !.row = r, !.draftRow = s]
      BY <1>3, <1>15 DEF r, s
    <3>3. /\ job' \in JobSet /\ job'.prompt = prompt /\ job'.text = prompt /\ ~job'.stream
          /\ job'.lane = "spec" /\ job'.phase = "spec" /\ job'.max = j.max /\ job'.row = r
      BY <1>2, <3>1, <3>2 DEF JobSet
    <3> QED BY <3>3 DEF r
  <2>2. JobOK(job)' /\ ~Idle' /\ Reply(job') = 0 /\ AsIfCold(job')
    BY <1>0, <1>2, <2>1, BegunOK
  <2>3. Holds(draft', job'.text) /\ Ahead(draft', job'.text)
    BY <1>2, <1>3, <1>8, <1>15, <2>1, AheadOfText
  <2>4. ASSUME ~tainted'
        PROVE  Holds(main', job'.text) /\ Ahead(main', job'.text) /\ job'.row = job'.text
    BY <1>2, <1>3, <1>5, <1>7, <1>15, <2>1, <2>4, AheadOfText
  <2>5. main'.pos = draft'.pos
    BY <1>2, <1>3, <1>4, <1>6, <1>7, <1>8, <1>15
  <2>6. SpecOK'
    BY <1>2, <2>1, <2>2, <2>3, <2>4, <2>5 DEF SpecOK
  <2>7. SlotOK' /\ CandleOK' /\ FastOK'
    BY <2>1, <2>2 DEF SlotOK, CandleOK, FastOK
  <2> QED BY <1>13, <1>14, <2>2, <2>6, <2>7 DEF DecodeInv
<1>16. CASE ~(f.ok /\ g.ok)
  <2>1. JobOK(job)' /\ job'.lane = "candle" /\ CandleOK' /\ SpecOK' /\ FastOK'
    BY <1>3, <1>16, IdleJob
  <2>2. Ahead(draft', draftCache')
    BY <1>0, <1>3, <1>6, <1>8, IdleFacts
  <2>3. ~tainted' => Trail(main', cache')
    BY <1>3, <1>4, <1>5, <1>7 DEF Trail
  <2>4. SlotOK'
    BY <2>2, <2>3 DEF SlotOK
  <2> QED BY <1>13, <1>14, <2>1, <2>4 DEF DecodeInv
<1> QED BY <1>15, <1>16

\* Both caches are synced to the text.
LEMMA FinishSpecInv ==
  ASSUME DecodeInv, FinishSpec
  PROVE  DecodeInv'
<1>0. /\ job.lane = "spec" /\ (job.phase = "end" \/ (job.phase = "spec" /\ Len(Generated(job)) >= job.max))
      /\ cache' = job.text /\ draftCache' = job.text /\ job' = NoJob
      /\ UNCHANGED <<build, main, tainted, draft, kv, noted, overwritten, poisoned, served>>
  <2>1. FinishSpec
    OBVIOUS
  <2>2. job.lane = "spec" /\ (job.phase = "end" \/ (job.phase = "spec" /\ Len(Generated(job)) >= job.max))
    BY <2>1 DEF FinishSpec
  <2>3. /\ cache' = job.text /\ draftCache' = job.text /\ job' = NoJob
        /\ UNCHANGED <<build, main, tainted, draft, residentVars, served>>
    BY <2>1 DEF FinishSpec, Synced
  <2> QED BY <2>2, <2>3 DEF residentVars
<1>1. ~Idle
  BY <1>0 DEF Idle
<1>2. job.text \in Texts /\ Len(Generated(job)) = Reply(job) /\ Reply(job) \in Nat /\ job.max \in Nat
  BY <1>1, JobFacts
<1>3. ~(job.phase = "spec" /\ Reply(job) < job.max)
  BY <1>0, <1>2
<1>4. Ahead(draft, job.text) /\ (~tainted => Ahead(main, job.text))
  BY <1>0, <1>3 DEF DecodeInv, SpecOK
<1>5. JobOK(job)' /\ job'.lane = "candle" /\ CandleOK' /\ SpecOK' /\ FastOK'
  BY <1>0, IdleJob
<1>6. DecodeTypeOK'
  BY <1>0, <1>2, <1>5 DEF DecodeInv, DecodeTypeOK
<1>7. SlotOK'
  BY <1>0, <1>4 DEF SlotOK, Trail
<1>8. NotedOK'
  BY <1>0 DEF DecodeInv, NotedOK
<1> QED BY <1>5, <1>6, <1>7, <1>8 DEF DecodeInv

\* The draft model holds the text it proposed for, or some of it, and what comes before.
LEMMA ProposeFacts ==
  ASSUME NEW be \in Backend, NEW text \in Texts, Holds(be, text), NEW drafts \in Texts
  PROVE  LET d == Propose(be, drafts)
         IN  /\ d.be \in Backend /\ d.ok \in BOOLEAN /\ Ahead(d.be, text)
             /\ d.ok => Holds(d.be, text \o drafts)
<1> DEFINE d == InPieces(be, drafts, 1)
<1>1. /\ d.be \in Backend /\ d.ok \in BOOLEAN
      /\ IF d.ok THEN Holds(d.be, text \o drafts)
         ELSE \E n \in 0..Len(drafts) : Holds(d.be, text \o SubSeq(drafts, 1, n))
  <2>1. 1 \in Nat \ {0}
    OBVIOUS
  <2> QED BY <2>1, InPiecesFacts
<1> HIDE DEF d
<1>2. Ahead(d.be, text)
  <2>1. CASE d.ok
    BY <1>1, <2>1, AheadOfPart
  <2>2. CASE ~d.ok
    <3>1. PICK n \in 0..Len(drafts) : Holds(d.be, text \o SubSeq(drafts, 1, n))
      BY <1>1, <2>2
    <3>2. SubSeq(drafts, 1, n) \in Texts
      BY PrefixFacts DEF Texts
    <3> QED BY <3>1, <3>2, AheadOfPart
  <2> QED BY <2>1, <2>2
<1> QED BY <1>1, <1>2 DEF d, Propose

\* The main model's own token is fed behind what was accepted.
LEMMA FeedBack ==
  ASSUME NEW be \in Backend, NEW text \in Texts, NEW part \in Texts, Holds(be, text \o part),
         NEW tok \in Token
  PROVE  LET f == ForwardLogits(be, <<tok>>)
         IN  /\ Ahead(f.be, text)
             /\ f.ok => /\ Holds(f.be, text \o (part \o <<tok>>))
                        /\ LastOf(f.rows) = text \o (part \o <<tok>>)
<1> DEFINE w == text \o part
           toks == <<tok>>
           f == ForwardLogits(be, toks)
<1>1. w \in Texts /\ toks \in Texts
  BY ConcatFacts, Single DEF Texts
<1> HIDE DEF toks
<1>2. /\ f.ok \in BOOLEAN
      /\ f.ok => Holds(f.be, w \o toks) /\ LastOf(f.rows) = w \o toks
      /\ ~f.ok => \E n \in 0..Len(toks) : Holds(f.be, w \o SubSeq(toks, 1, n))
  <2>1. Holds(be, w)
    OBVIOUS
  <2> HIDE DEF w
  <2> QED BY <1>1, <2>1, ForwardLogitsHolds
<1> HIDE DEF f
<1>3. \A v \in Texts : w \o v = text \o (part \o v) /\ part \o v \in Texts
  BY Regrouped, ConcatFacts DEF Texts
<1> HIDE DEF w
<1>4. CASE f.ok
  <2>1. Holds(f.be, text \o (part \o toks)) /\ LastOf(f.rows) = text \o (part \o toks)
    BY <1>1, <1>2, <1>3, <1>4
  <2>2. part \o toks \in Texts
    BY <1>1, <1>3
  <2>3. Ahead(f.be, text)
    <3> DEFINE v == part \o toks
    <3> HIDE DEF v
    <3>1. v \in Texts /\ Holds(f.be, text \o v)
      BY <2>1, <2>2 DEF v
    <3> QED BY <3>1, AheadOfPart
  <2> QED BY <2>1, <2>3 DEF f, toks
<1>5. CASE ~f.ok
  <2>1. PICK n \in 0..Len(toks) : Holds(f.be, w \o SubSeq(toks, 1, n))
    BY <1>2, <1>5
  <2>2. SubSeq(toks, 1, n) \in Texts
    BY <1>1, PrefixFacts DEF Texts
  <2>3. PICK v \in Texts : Holds(f.be, text \o v)
    BY <1>3, <2>1, <2>2
  <2>4. Ahead(f.be, text)
    BY <2>3, AheadOfPart
  <2> QED BY <1>5, <2>4 DEF f, toks
<1> QED BY <1>2, <1>4, <1>5

\* Both caches are cut to the accepted drafts.
LEMMA CutFacts ==
  ASSUME NEW be \in Backend, NEW text \in Texts, NEW drafts \in Texts, Len(drafts) = SpecK,
         Holds(be, text \o drafts), NEW a \in 0..SpecK
  PROVE  Holds(TruncateTo(be, Len(text) + a), text \o SubSeq(drafts, 1, a))
<1> DEFINE w == text \o drafts
<1>1. w \in Texts /\ Len(w) = Len(text) + SpecK /\ Len(text) \in Nat /\ SpecK \in Nat
  BY ConcatFacts DEF Texts
<1>2. SubSeq(w, 1, Len(text) + a) = text \o SubSeq(drafts, 1, a)
  BY PrefixBeyond DEF Texts
<1>3. Holds(be, w)
  OBVIOUS
<1> HIDE DEF w
<1>4. Len(text) + a \in 0..Len(w)
  BY <1>1
<1>5. Holds(TruncateTo(be, Len(text) + a), SubSeq(w, 1, Len(text) + a))
  BY <1>1, <1>3, <1>4, TruncateHolds
<1> QED BY <1>2, <1>5

\* What the main model says of the drafts: those accepted and its next token are its own.
LEMMA OutsFacts ==
  ASSUME NEW drafts \in Texts, Len(drafts) = SpecK, NEW t \in Token,
         NEW outs \in [1..SpecK -> Token]
  PROVE  LET a == Accepted(drafts, <<t>> \o outs)
             b == (<<t>> \o outs)[a + 1]
         IN  /\ a \in 0..SpecK /\ b \in Token
             /\ \A text \in Texts :
                  /\ t = Greedy(text)
                  /\ \A i \in 1..SpecK : outs[i] = Greedy(text \o SubSeq(drafts, 1, i))
                  => /\ \A i \in 1..a : drafts[i] = Greedy(text \o SubSeq(drafts, 1, i - 1))
                     /\ b = Greedy(text \o SubSeq(drafts, 1, a))
<1> DEFINE o == <<t>> \o outs
           a == Accepted(drafts, o)
           b == o[a + 1]
<1>0. SpecK \in Nat
  BY DecodeAssumption
<1>1. outs \in Texts /\ Len(outs) = SpecK
  <2>1. outs \in Seq(Token)
    BY <1>0, SeqDef
  <2>2. DOMAIN outs = 1..Len(outs) /\ DOMAIN outs = 1..SpecK /\ Len(outs) \in Nat
    BY <2>1, LenProperties
  <2> QED BY <1>0, <2>1, <2>2 DEF Texts
<1>2. <<t>> \in Texts /\ Len(<<t>>) = 1 /\ <<t>>[1] = t
  BY Single DEF Texts
<1>3. /\ o \in Texts /\ Len(o) = 1 + SpecK
      /\ o[1] = t /\ \A i \in 1..SpecK : o[1 + i] = outs[i]
  <2> DEFINE s == <<t>>
  <2> HIDE DEF s
  <2>1. s \in Texts /\ Len(s) = 1 /\ s[1] = t
    BY <1>2 DEF s
  <2>2. /\ s \o outs \in Texts /\ Len(s \o outs) = Len(s) + Len(outs)
        /\ \A i \in 1..Len(s) : (s \o outs)[i] = s[i]
        /\ \A i \in 1..Len(outs) : (s \o outs)[Len(s) + i] = outs[i]
    <3>1. \A x, y \in Texts :
            /\ x \o y \in Texts /\ Len(x \o y) = Len(x) + Len(y)
            /\ \A i \in 1..Len(x) : (x \o y)[i] = x[i]
            /\ \A i \in 1..Len(y) : (x \o y)[Len(x) + i] = y[i]
      BY ConcatFacts DEF Texts
    <3> QED BY <1>1, <2>1, <3>1
  <2>3. 1 \in 1..Len(s)
    BY <2>1
  <2> QED BY <1>1, <2>1, <2>2, <2>3 DEF s
<1> HIDE DEF o
<1>4. o \in [1..(Len(drafts) + 1) -> Token]
  <2>1. 1..Len(o) = 1..(Len(drafts) + 1)
    BY <1>0, <1>3
  <2>2. o \in [1..Len(o) -> Token]
    BY <1>3, LenProperties DEF Texts
  <2> QED BY <2>1, <2>2
<1>5. a \in 0..SpecK /\ \A i \in 1..a : o[i] = drafts[i]
  BY <1>4, AcceptedFacts DEF Texts
<1> HIDE DEF a
<1>6. b \in Token
  <2>1. a + 1 \in 1..(Len(drafts) + 1)
    BY <1>0, <1>5
  <2> QED BY <1>4, <2>1
<1>7. ASSUME NEW text \in Texts, t = Greedy(text),
             \A i \in 1..SpecK : outs[i] = Greedy(text \o SubSeq(drafts, 1, i))
      PROVE  \A i \in 1..(SpecK + 1) : o[i] = Greedy(text \o SubSeq(drafts, 1, i - 1))
  <2> SUFFICES ASSUME NEW i \in 1..(SpecK + 1)
               PROVE  o[i] = Greedy(text \o SubSeq(drafts, 1, i - 1))
    OBVIOUS
  <2>1. CASE i = 1
    <3>1. SubSeq(drafts, 1, 0) = <<>>
      BY SubSeqEmpty
    <3>2. text \o <<>> = text
      BY ConcatEmptySeq DEF Texts
    <3>3. i - 1 = 0
      BY <2>1
    <3> QED BY <1>3, <1>7, <2>1, <3>1, <3>2, <3>3
  <2>2. CASE i # 1
    <3> DEFINE k == i - 1
    <3>1. k \in 1..SpecK /\ i = 1 + k
      BY <1>0, <2>2
    <3> HIDE DEF k
    <3>2. o[1 + k] = Greedy(text \o SubSeq(drafts, 1, k))
      BY <1>3, <1>7, <3>1
    <3> QED BY <3>1, <3>2 DEF k
  <2> QED BY <2>1, <2>2
<1>8. ASSUME NEW text \in Texts, t = Greedy(text),
             \A i \in 1..SpecK : outs[i] = Greedy(text \o SubSeq(drafts, 1, i))
      PROVE  /\ \A i \in 1..a : drafts[i] = Greedy(text \o SubSeq(drafts, 1, i - 1))
             /\ b = Greedy(text \o SubSeq(drafts, 1, a))
  <2>1. \A i \in 1..(SpecK + 1) : o[i] = Greedy(text \o SubSeq(drafts, 1, i - 1))
    BY <1>7, <1>8
  <2>2. \A i \in 1..a : i \in 1..(SpecK + 1) /\ o[i] = drafts[i]
    BY <1>0, <1>5
  <2>3. \A i \in 1..a : drafts[i] = Greedy(text \o SubSeq(drafts, 1, i - 1))
    BY <2>1, <2>2
  <2>4. a + 1 \in 1..(SpecK + 1) /\ (a + 1) - 1 = a
    BY <1>0, <1>5
  <2>5. o[a + 1] = Greedy(text \o SubSeq(drafts, 1, a))
    <3> DEFINE k == a + 1
    <3>1. k \in 1..(SpecK + 1) /\ k - 1 = a
      BY <2>4
    <3> HIDE DEF k
    <3>2. o[k] = Greedy(text \o SubSeq(drafts, 1, a))
      BY <2>1, <3>1
    <3> QED BY <3>2 DEF k
  <2> QED BY <2>3, <2>5
<1> QED BY <1>5, <1>6, <1>8 DEF a, o

\* The main model verifies the drafts behind the text.
LEMMA VerifyingPass ==
  ASSUME NEW be \in Backend, NEW drafts \in Texts
  PROVE  LET f == ForwardAllLogits(be, drafts)
         IN  /\ f.be \in Backend /\ f.be.loaded = be.loaded /\ f.ok \in BOOLEAN
             /\ ~be.loaded => ~f.ok /\ f.be = be
             /\ f.ok => f.be.pos = be.pos + Len(drafts)
             /\ \A w \in Texts : Holds(be, w) =>
                  IF f.ok
                  THEN /\ Holds(f.be, w \o drafts)
                       /\ \A i \in 1..Len(drafts) : f.rows[i] = w \o SubSeq(drafts, 1, i)
                  ELSE f.be = be
<1> DEFINE f == Forward(be, drafts, Layers)
<1>1. /\ f.be \in Backend /\ f.be.loaded = be.loaded /\ f.ok \in BOOLEAN
      /\ ~be.loaded => ~f.ok /\ f.be = be
      /\ f.ok => f = Passed(be, drafts, Layers)
      /\ \A w \in Texts : Holds(be, w) /\ ~f.ok => f.be = be
  BY LayerOne, ForwardFacts
<1> HIDE DEF f
<1>2. ASSUME f.ok PROVE f.be.pos = be.pos + Len(drafts)
  <2>1. f = Passed(be, drafts, Layers)
    BY <1>1, <1>2
  <2>2. Passed(be, drafts, Layers).be.pos = be.pos + Len(drafts)
    BY LayerOne, PassedType
  <2> QED BY <2>1, <2>2
<1>3. ASSUME NEW w \in Texts, Holds(be, w), f.ok
      PROVE  /\ Holds(f.be, w \o drafts)
             /\ \A i \in 1..Len(drafts) : f.rows[i] = w \o SubSeq(drafts, 1, i)
  <2>1. f = Passed(be, drafts, Layers)
    BY <1>1, <1>3
  <2>2. LET p == Passed(be, drafts, Layers)
        IN  /\ Holds(p.be, w \o drafts)
            /\ \A i \in 1..Len(drafts) : p.rows[i] = w \o SubSeq(drafts, 1, i)
    BY <1>3, PassedHolds
  <2> QED BY <2>1, <2>2, Zenon
<1>4. \A w \in Texts : Holds(be, w) =>
        IF f.ok
        THEN /\ Holds(f.be, w \o drafts)
             /\ \A i \in 1..Len(drafts) : f.rows[i] = w \o SubSeq(drafts, 1, i)
        ELSE f.be = be
  BY <1>1, <1>3, Zenon
<1> QED BY <1>1, <1>2, <1>4 DEF f, ForwardAllLogits

\* A verified iteration: the text grew by tokens both models hold, all of them when the
\* reply goes on.
LEMMA SpecGoesOn ==
  ASSUME DecodeInv, ~Idle, job.lane = "spec", job.phase = "spec", Reply(job) < job.max,
         NEW toks \in Texts, NEW r \in Rows, NEW s \in Rows,
         NEW over \in BOOLEAN, CommitSpec(job, toks).eos => over,
         job' = [CommitSpec(job, toks).job EXCEPT
                   !.row = r, !.draftRow = s, !.phase = IF over THEN "end" ELSE "spec"],
         UNCHANGED <<build, cache, tainted, draftCache, residentVars, served>>,
         main' \in Backend, main'.loaded = main.loaded, ~main.loaded => main' = main,
         draft' \in Backend, main'.pos = draft'.pos,
         Holds(draft', job.text \o toks),
         ~tainted => /\ Holds(main', job.text \o toks) /\ r = job.text \o toks
                     /\ \A i \in 1..Len(toks) : toks[i] = Greedy(job.text \o SubSeq(toks, 1, i - 1))
  PROVE  DecodeInv'
<1>1. /\ job \in JobSet /\ job.text \in Texts /\ Len(job.text) \in Nat /\ job.max \in Nat
      /\ Len(job.prompt) <= Len(job.text) /\ Reply(job) \in Nat /\ job.prompt \in Texts
  BY JobFacts
<1> DEFINE c == CommitSpec(job, toks)
<1>2. /\ toks \in Texts /\ (c.eos => over)
      /\ job' = [c.job EXCEPT !.row = r, !.draftRow = s, !.phase = IF over THEN "end" ELSE "spec"]
  OBVIOUS
<1>3. PICK n \in 0..Len(toks) :
        /\ Continues(c.job, job, SubSeq(toks, 1, n))
        /\ n > 0 => Reply(job) + n <= job.max
        /\ (~c.eos /\ Reply(job) + n < job.max) => n = Len(toks)
  BY <1>1, CommitSpecFacts
<1> HIDE DEF c
<1> DEFINE done == SubSeq(toks, 1, n)
<1>4. done \in Texts /\ Len(done) = n /\ n \in Nat /\ Len(toks) \in Nat
  BY <1>2, PrefixFacts, TextsKv DEF Texts
<1> HIDE DEF done
<1>5. /\ job' \in JobSet /\ job'.text = job.text \o done /\ job'.lane = "spec"
      /\ job'.stream = job.stream /\ job'.prompt = job.prompt /\ job'.max = job.max
      /\ job'.left = job.left /\ job'.again = job.again /\ job'.pld = job.pld
      /\ job'.row = r /\ job'.phase = (IF over THEN "end" ELSE "spec")
  <2>1. /\ c.job \in JobSet /\ c.job.text = job.text \o done /\ c.job.lane = "spec"
        /\ c.job.stream = job.stream /\ c.job.prompt = job.prompt /\ c.job.max = job.max
        /\ c.job.left = job.left /\ c.job.again = job.again /\ c.job.pld = job.pld
    BY <1>3 DEF Continues, done
  <2> DEFINE k == c.job  e == IF over THEN "end" ELSE "spec"
  <2>2. e \in {"end", "spec"}
    OBVIOUS
  <2>3. k \in JobSet /\ job' = [k EXCEPT !.row = r, !.draftRow = s, !.phase = e]
    BY <1>2, <2>1
  <2> HIDE DEF k, e
  <2>4. /\ job' \in JobSet /\ job'.text = k.text /\ job'.lane = k.lane /\ job'.stream = k.stream
        /\ job'.prompt = k.prompt /\ job'.max = k.max /\ job'.left = k.left
        /\ job'.again = k.again /\ job'.pld = k.pld /\ job'.row = r /\ job'.phase = e
    BY <2>2, <2>3, ZenonT(30) DEF JobSet
  <2> QED BY <2>1, <2>4 DEF k, e
<1>6. /\ JobOK(job)' /\ ~Idle' /\ Reply(job') = Reply(job) + n
  <2>1. Resumes(job', job, done)
    BY <1>5 DEF Resumes
  <2> QED BY <1>1, <1>4, <1>5, <2>1, ResumedOK
<1>7. Reply(job') <= job'.max
  <2> DEFINE x == Reply(job)  m == job.max
  <2>1. x \in Nat /\ m \in Nat /\ x < m /\ (n > 0 => x + n <= m) /\ Reply(job') = x + n /\ job'.max = m
    BY <1>1, <1>3, <1>5, <1>6
  <2> HIDE DEF x, m
  <2> QED BY <1>4, <2>1
<1> DEFINE all == job.text \o toks
<1>8. all \in Texts /\ Len(all) = Len(job.text) + Len(toks)
      /\ SubSeq(all, 1, Len(job.text) + n) = job.text \o done
  <2>1. SubSeq(job.text \o toks, 1, Len(job.text) + n) = job.text \o SubSeq(toks, 1, n)
    BY <1>1, PrefixBeyond DEF Texts
  <2>2. job.text \o toks \in Texts /\ Len(job.text \o toks) = Len(job.text) + Len(toks)
    BY <1>1, <1>2, ConcatFacts DEF Texts
  <2> QED BY <2>1, <2>2 DEF done
<1>9. Holds(draft', all) /\ (~tainted => Holds(main', all) /\ r = all)
  OBVIOUS
<1> HIDE DEF all
<1>10. Ahead(draft', job'.text) /\ (~tainted' => Ahead(main', job'.text))
  <2>1. Len(job.text) + n \in 0..Len(all)
    <3> DEFINE x == Len(job.text)  y == Len(toks)
    <3>1. x \in Nat /\ y \in Nat /\ n \in 0..y /\ Len(all) = x + y
      BY <1>1, <1>4, <1>8
    <3> HIDE DEF x, y
    <3>2. x + n \in 0..Len(all)
      BY <3>1
    <3> QED BY <3>2 DEF x
  <2> QED BY <1>5, <1>8, <1>9, <2>1, AheadOfPrefix
<1>11. ASSUME ~tainted' PROVE AsIfCold(job')
  <2>1. \A i \in 1..Len(toks) : toks[i] = Greedy(job.text \o SubSeq(toks, 1, i - 1))
    BY <1>11
  <2>2. \A i \in 1..n : done[i] = Greedy(job.text \o SubSeq(done, 1, i - 1))
    BY <1>1, <2>1, OwnPrefixes DEF done
  <2>3. AsIfCold(job)
    BY <1>11 DEF DecodeInv, SpecOK
  <2>4. Cold(job.prompt, job.text \o done)
    BY <1>1, <1>4, <2>2, <2>3, ColdExtends DEF AsIfCold
  <2> QED BY <1>5, <2>4 DEF AsIfCold
<1>12. ASSUME job'.phase = "spec", Reply(job') < job'.max
       PROVE  job'.text = all
  <2>1. ~c.eos
    BY <1>2, <1>5, <1>12
  <2>2. n = Len(toks)
    BY <1>3, <1>5, <1>6, <1>12, <2>1
  <2>3. done = toks
    BY <1>2, <2>2, SubSeqFull DEF done, Texts
  <2> QED BY <1>5, <2>3 DEF all
<1>13. SpecOK'
  BY <1>7, <1>9, <1>10, <1>11, <1>12, <1>5 DEF SpecOK
<1> QED BY <1>5, <1>6, <1>13, SpecTurn

\* spec_iter and the commit loop around it.
LEMMA SpecIterInv ==
  ASSUME DecodeInv, SpecIter
  PROVE  DecodeInv'
<1>0. /\ job.phase = "spec" /\ ~Idle /\ Len(Generated(job)) < job.max
      /\ UNCHANGED <<build, cache, tainted, draftCache, residentVars, served>>
  BY DEF SpecIter, Idle
<1>1. job.lane = "spec"
  BY <1>0 DEF DecodeInv, DecodeTypeOK, JobOK
<1>2. /\ job \in JobSet /\ job.text \in Texts /\ Len(job.text) \in Nat
      /\ Reply(job) \in Nat /\ Reply(job) < job.max /\ job.max \in Nat
  BY <1>0, JobFacts
<1>3. /\ main \in Backend /\ draft \in Backend /\ tainted \in BOOLEAN
      /\ main.pos = draft.pos /\ Holds(draft, job.text) /\ main.pos = Len(job.text)
      /\ ~tainted => Holds(main, job.text) /\ job.row = job.text /\ AsIfCold(job)
      /\ Reply(job) <= job.max
  BY <1>0, <1>1, <1>2 DEF DecodeInv, SpecOK, DecodeTypeOK, Holds
<1>4. PICK drafts \in [1..SpecK -> Token], t \in Draw(job.row) :
       LET d == Propose(draft, drafts)
           f == ForwardAllLogits(main, drafts)
       IN  IF ~d.ok \/ ~f.ok
           THEN /\ draft' = d.be /\ main' = (IF d.ok THEN f.be ELSE main)
                /\ job' = [job EXCEPT !.phase = "end"]
           ELSE \E outs \in [1..SpecK -> Token] :
                LET accepted == Accepted(drafts, <<t>> \o outs)
                    corrected == (<<t>> \o outs)[accepted + 1]
                    target == SpecTarget(f.be.pos, accepted)
                    fm == ForwardLogits(TruncateTo(f.be, target), <<corrected>>)
                    fd == ForwardLogits(TruncateTo(d.be, target), <<corrected>>)
                    c  == CommitSpec(job, Append(SubSeq(drafts, 1, accepted), corrected))
                    over == c.eos \/ StopHit(c.job)
                IN  /\ \A i \in 1..SpecK : outs[i] \in Draw(f.rows[i])
                    /\ main' = fm.be
                    /\ draft' = IF fm.ok THEN fd.be ELSE TruncateTo(d.be, target)
                    /\ job' = IF fm.ok /\ fd.ok
                              THEN [c.job EXCEPT !.row = LastOf(fm.rows),
                                                 !.draftRow = LastOf(fd.rows),
                                                 !.phase = IF over THEN "end" ELSE "spec"]
                              ELSE [job EXCEPT !.phase = "end"]
  BY ZenonT(40) DEF SpecIter
<1> DEFINE d == Propose(draft, drafts)
           f == ForwardAllLogits(main, drafts)
<1>5. /\ drafts \in Texts /\ Len(drafts) = SpecK /\ SpecK \in Nat
  <2>0. SpecK \in Nat
    BY DecodeAssumption
  <2>1. drafts \in Seq(Token)
    BY <2>0, SeqDef
  <2>2. DOMAIN drafts = 1..Len(drafts) /\ DOMAIN drafts = 1..SpecK /\ Len(drafts) \in Nat
    BY <2>1, LenProperties
  <2> QED BY <2>0, <2>1, <2>2 DEF Texts
<1>6. /\ d.be \in Backend /\ d.ok \in BOOLEAN /\ Ahead(d.be, job.text)
      /\ d.ok => Holds(d.be, job.text \o drafts)
  BY <1>2, <1>3, <1>5, ProposeFacts
<1>7. /\ f.be \in Backend /\ f.be.loaded = main.loaded /\ f.ok \in BOOLEAN
      /\ ~main.loaded => ~f.ok /\ f.be = main
      /\ f.ok => f.be.pos = main.pos + Len(drafts)
      /\ \A w \in Texts : Holds(main, w) =>
           IF f.ok
           THEN /\ Holds(f.be, w \o drafts)
                /\ \A i \in 1..Len(drafts) : f.rows[i] = w \o SubSeq(drafts, 1, i)
           ELSE f.be = main
  BY <1>3, <1>5, VerifyingPass
<1> HIDE DEF d, f
<1>8. ASSUME job' = [job EXCEPT !.phase = "end"],
             main' \in Backend, main'.loaded = main.loaded, ~main.loaded => main' = main,
             draft' \in Backend, Ahead(draft', job.text), ~tainted => Ahead(main', job.text)
      PROVE  DecodeInv'
  <2>1. /\ job' \in JobSet /\ job'.text = job.text /\ job'.lane = "spec"
        /\ job'.stream = job.stream /\ job'.prompt = job.prompt /\ job'.max = job.max
        /\ job'.phase = "end"
    BY <1>1, <1>2, <1>8 DEF JobSet
  <2>2. JobOK(job)' /\ ~Idle' /\ Reply(job') = Reply(job) /\ AsIfCold(job') = AsIfCold(job)
    BY <1>0, <1>1, <2>1, StoppedOK
  <2>3. SpecOK'
    BY <1>0, <1>3, <1>8, <2>1, <2>2 DEF SpecOK
  <2> QED BY <1>0, <1>1, <1>8, <2>1, <2>2, <2>3, SpecTurn
<1>9. CASE ~d.ok \/ ~f.ok
  <2>1. /\ draft' = d.be /\ main' = (IF d.ok THEN f.be ELSE main)
        /\ job' = [job EXCEPT !.phase = "end"]
    BY <1>4, <1>9 DEF d, f
  <2>2. main' \in Backend /\ main'.loaded = main.loaded /\ (~main.loaded => main' = main)
    BY <1>3, <1>7, <2>1
  <2>3. ASSUME ~tainted PROVE Ahead(main', job.text)
    <3>1. Ahead(main, job.text)
      BY <1>2, <1>3, <2>3, AheadOfText
    <3>2. main' = main
      BY <1>2, <1>3, <1>7, <1>9, <2>1, <2>3
    <3> QED BY <3>1, <3>2
  <2> QED BY <1>6, <1>8, <2>1, <2>2, <2>3
<1>10. CASE d.ok /\ f.ok
  <2>1. PICK outs \in [1..SpecK -> Token] :
                LET accepted == Accepted(drafts, <<t>> \o outs)
                    corrected == (<<t>> \o outs)[accepted + 1]
                    target == SpecTarget(f.be.pos, accepted)
                    fm == ForwardLogits(TruncateTo(f.be, target), <<corrected>>)
                    fd == ForwardLogits(TruncateTo(d.be, target), <<corrected>>)
                    c  == CommitSpec(job, Append(SubSeq(drafts, 1, accepted), corrected))
                    over == c.eos \/ StopHit(c.job)
                IN  /\ \A i \in 1..SpecK : outs[i] \in Draw(f.rows[i])
                    /\ main' = fm.be
                    /\ draft' = IF fm.ok THEN fd.be ELSE TruncateTo(d.be, target)
                    /\ job' = IF fm.ok /\ fd.ok
                              THEN [c.job EXCEPT !.row = LastOf(fm.rows),
                                                 !.draftRow = LastOf(fd.rows),
                                                 !.phase = IF over THEN "end" ELSE "spec"]
                              ELSE [job EXCEPT !.phase = "end"]
    BY <1>4, <1>10 DEF d, f
  <2>2. PICK a, b, target :
          /\ a = Accepted(drafts, <<t>> \o outs) /\ b = (<<t>> \o outs)[a + 1]
          /\ target = SpecTarget(f.be.pos, a)
    OBVIOUS
  <2> DEFINE part == SubSeq(drafts, 1, a)
             toks == part \o <<b>>
             fm == ForwardLogits(TruncateTo(f.be, target), <<b>>)
             fd == ForwardLogits(TruncateTo(d.be, target), <<b>>)
             c  == CommitSpec(job, Append(part, b))
             over == c.eos \/ StopHit(c.job)
  <2>3. /\ \A i \in 1..SpecK : outs[i] \in Draw(f.rows[i])
        /\ main' = fm.be /\ draft' = (IF fm.ok THEN fd.be ELSE TruncateTo(d.be, target))
        /\ job' = IF fm.ok /\ fd.ok
                  THEN [c.job EXCEPT !.row = LastOf(fm.rows), !.draftRow = LastOf(fd.rows),
                                     !.phase = IF over THEN "end" ELSE "spec"]
                  ELSE [job EXCEPT !.phase = "end"]
    BY <2>1, <2>2
  <2>4. t \in Token /\ (job.row # Junk => t = Greedy(job.row))
    BY DrawFacts
  <2>5. /\ a \in 0..SpecK /\ b \in Token
        /\ \A text \in Texts :
             /\ t = Greedy(text)
             /\ \A i \in 1..SpecK : outs[i] = Greedy(text \o SubSeq(drafts, 1, i))
             => /\ \A i \in 1..a : drafts[i] = Greedy(text \o SubSeq(drafts, 1, i - 1))
                /\ b = Greedy(text \o SubSeq(drafts, 1, a))
    <3>1. LET x == Accepted(drafts, <<t>> \o outs)
              y == (<<t>> \o outs)[x + 1]
          IN  /\ x \in 0..SpecK /\ y \in Token
              /\ \A text \in Texts :
                   /\ t = Greedy(text)
                   /\ \A i \in 1..SpecK : outs[i] = Greedy(text \o SubSeq(drafts, 1, i))
                   => /\ \A i \in 1..x : drafts[i] = Greedy(text \o SubSeq(drafts, 1, i - 1))
                      /\ y = Greedy(text \o SubSeq(drafts, 1, x))
      BY <1>5, <2>4, OutsFacts
    <3> QED BY <2>2, <3>1, Zenon
  <2>6. part \in Texts /\ Len(part) = a /\ <<b>> \in Texts /\ Append(part, b) = toks
    <3>1. a \in 0..Len(drafts)
      BY <1>5, <2>5
    <3>2. part \in Texts /\ Len(part) = a
      BY <1>5, <3>1, PrefixFacts DEF Texts
    <3> HIDE DEF part
    <3> QED BY <2>5, <3>2, Pushed, Single DEF Texts
  <2>7. target = Len(job.text) + a /\ target \in Nat
    <3> DEFINE x == Len(job.text)
    <3>1. x \in Nat /\ f.be.pos = x + SpecK
      BY <1>2, <1>3, <1>5, <1>7, <1>10
    <3> HIDE DEF x
    <3>2. target = (x + SpecK) - (SpecK - a)
      BY <2>2, <3>1 DEF SpecTarget
    <3>3. target = x + a /\ target \in Nat
      BY <1>5, <2>5, <3>1, <3>2
    <3> QED BY <3>3 DEF x
  <2>8. /\ TruncateTo(f.be, target) \in Backend /\ TruncateTo(f.be, target).loaded = main.loaded
        /\ TruncateTo(f.be, target).pos = target
        /\ TruncateTo(d.be, target) \in Backend /\ TruncateTo(d.be, target).pos = target
    BY <1>6, <1>7, <2>7, TruncateFacts
  <2>9. /\ fm.be \in Backend /\ fm.be.loaded = main.loaded /\ fm.ok \in BOOLEAN
        /\ fm.ok => fm.be.pos = target + 1 /\ LastOf(fm.rows) \in Rows
    <3> DEFINE w == <<b>>  cut == TruncateTo(f.be, target)
    <3>1. w \in Texts /\ Len(w) = 1 /\ cut \in Backend
      BY <2>6, <2>8
    <3> HIDE DEF w, cut
    <3>2. LET g == ForwardLogits(cut, w)
          IN  /\ g.be \in Backend /\ g.be.loaded = cut.loaded /\ g.ok \in BOOLEAN
              /\ g.ok => g.be.pos = cut.pos + Len(w) /\ LastOf(g.rows) \in Rows
      BY <3>1, ForwardLogitsType
    <3>3. cut.pos = target /\ fm = ForwardLogits(cut, w)
      BY <2>8 DEF cut, w
    <3> HIDE DEF fm
    <3>4. cut.loaded = main.loaded
      BY <2>8 DEF cut
    <3> QED BY <3>1, <3>2, <3>3, <3>4
  <2>10. /\ fd.be \in Backend /\ fd.ok \in BOOLEAN
         /\ fd.ok => fd.be.pos = target + 1 /\ LastOf(fd.rows) \in Rows
    <3> DEFINE w == <<b>>  cut == TruncateTo(d.be, target)
    <3>1. w \in Texts /\ Len(w) = 1 /\ cut \in Backend
      BY <2>6, <2>8
    <3> HIDE DEF w, cut
    <3>2. LET g == ForwardLogits(cut, w)
          IN  /\ g.be \in Backend /\ g.be.loaded = cut.loaded /\ g.ok \in BOOLEAN
              /\ g.ok => g.be.pos = cut.pos + Len(w) /\ LastOf(g.rows) \in Rows
      BY <3>1, ForwardLogitsType
    <3>3. cut.pos = target /\ fd = ForwardLogits(cut, w)
      BY <2>8 DEF cut, w
    <3> HIDE DEF fd
    <3> QED BY <3>1, <3>2, <3>3
  <2>11. Holds(TruncateTo(d.be, target), job.text \o part)
    BY <1>2, <1>5, <1>6, <1>10, <2>5, <2>7, CutFacts
  <2>12. ASSUME ~tainted PROVE Holds(TruncateTo(f.be, target), job.text \o part)
    <3>1. Holds(f.be, job.text \o drafts)
      BY <1>2, <1>3, <1>7, <1>10, <2>12
    <3> QED BY <1>2, <1>5, <1>7, <2>5, <2>7, <3>1, CutFacts
  <2> HIDE DEF part
  <2>13. Ahead(fd.be, job.text) /\ (fd.ok => Holds(fd.be, job.text \o toks))
    BY <1>2, <2>5, <2>6, <2>8, <2>11, FeedBack, ZenonT(30)
  <2>14. ASSUME ~tainted
         PROVE  Ahead(fm.be, job.text) /\ (fm.ok => Holds(fm.be, job.text \o toks)
                                                    /\ LastOf(fm.rows) = job.text \o toks)
    BY <1>2, <2>5, <2>6, <2>8, <2>12, <2>14, FeedBack, ZenonT(30)
  <2>15. ASSUME ~tainted
         PROVE  \A i \in 1..Len(toks) : toks[i] = Greedy(job.text \o SubSeq(toks, 1, i - 1))
    <3>1. \A i \in 1..SpecK : f.rows[i] = job.text \o SubSeq(drafts, 1, i)
      BY <1>2, <1>3, <1>5, <1>7, <1>10, <2>15
    <3>2. \A i \in 1..SpecK : outs[i] = Greedy(job.text \o SubSeq(drafts, 1, i))
      <4> SUFFICES ASSUME NEW i \in 1..SpecK
                   PROVE  outs[i] = Greedy(job.text \o SubSeq(drafts, 1, i))
        OBVIOUS
      <4> DEFINE row == job.text \o SubSeq(drafts, 1, i)
      <4>1. i \in 0..Len(drafts)
        BY <1>5
      <4>2. SubSeq(drafts, 1, i) \in Texts
        BY <1>5, <4>1, PrefixFacts DEF Texts
      <4>3. row \in Texts
        BY <1>2, <4>2, ConcatFacts DEF Texts
      <4>4. f.rows[i] = row
        BY <3>1
      <4> HIDE DEF row
      <4>5. row # Junk
        BY <4>3, NoJunk
      <4>6. outs[i] \in Draw(row)
        BY <2>3, <4>4
      <4>7. outs[i] = Greedy(row)
        BY <4>5, <4>6, DrawFacts
      <4> QED BY <4>7 DEF row
    <3>3. t = Greedy(job.text)
      BY <1>2, <1>3, <2>4, <2>15, NoJunk
    <3>4. /\ \A i \in 1..a : drafts[i] = Greedy(job.text \o SubSeq(drafts, 1, i - 1))
          /\ b = Greedy(job.text \o SubSeq(drafts, 1, a))
      BY <1>2, <2>5, <3>2, <3>3
    <3>5. a \in 0..Len(drafts)
      BY <1>5, <2>5
    <3>6. LET u == SubSeq(drafts, 1, a) \o <<b>>
          IN  \A i \in 1..Len(u) : u[i] = Greedy(job.text \o SubSeq(u, 1, i - 1))
      BY <1>2, <1>5, <2>5, <3>4, <3>5, AcceptedOwn
    <3> QED BY <3>6 DEF part
  <2> DEFINE r == LastOf(fm.rows)  s == LastOf(fd.rows)
  <2>16. c = CommitSpec(job, toks)
    BY <2>6
  <2> HIDE DEF fm, fd, c, toks
  <2>17. main' \in Backend /\ main'.loaded = main.loaded /\ (~main.loaded => main' = main)
         /\ draft' \in Backend
    BY <1>3, <1>7, <1>10, <2>3, <2>8, <2>9, <2>10
  <2>18. CASE fm.ok /\ fd.ok
    <3>1. /\ main' = fm.be /\ draft' = fd.be
          /\ job' = [CommitSpec(job, toks).job EXCEPT
                       !.row = r, !.draftRow = s, !.phase = IF over THEN "end" ELSE "spec"]
      BY <2>3, <2>16, <2>18
    <3>2. r \in Rows /\ s \in Rows /\ main'.pos = draft'.pos
      BY <2>9, <2>10, <2>18, <3>1
    <3>3. Holds(draft', job.text \o toks)
      BY <2>13, <2>18, <3>1
    <3>4. ~tainted => /\ Holds(main', job.text \o toks) /\ r = job.text \o toks
                      /\ \A i \in 1..Len(toks) :
                           toks[i] = Greedy(job.text \o SubSeq(toks, 1, i - 1))
      BY <2>14, <2>15, <2>18, <3>1
    <3>5. toks \in Texts
      <4>1. Append(part, b) \in Texts
        BY <2>5, <2>6, Pushed DEF Texts
      <4> QED BY <2>6, <4>1 DEF toks
    <3>6. over \in BOOLEAN /\ (CommitSpec(job, toks).eos => over)
      BY <2>16
    <3>7. job' = [CommitSpec(job, toks).job EXCEPT
                    !.row = r, !.draftRow = s, !.phase = IF over THEN "end" ELSE "spec"]
      BY <3>1
    <3> HIDE DEF r, s, over
    <3> QED BY <1>0, <1>1, <1>2, <2>17, <3>2, <3>3, <3>4, <3>5, <3>6, <3>7, SpecGoesOn
  <2>19. CASE ~(fm.ok /\ fd.ok)
    <3>1. /\ main' = fm.be /\ draft' = (IF fm.ok THEN fd.be ELSE TruncateTo(d.be, target))
          /\ job' = [job EXCEPT !.phase = "end"]
      BY <2>3, <2>19
    <3>2. Ahead(TruncateTo(d.be, target), job.text)
      BY <1>2, <2>6, <2>11, AheadOfPart
    <3>3. Ahead(draft', job.text)
      BY <2>13, <3>1, <3>2
    <3>4. ~tainted => Ahead(main', job.text)
      BY <2>14, <3>1
    <3> QED BY <1>8, <2>17, <3>1, <3>3, <3>4
  <2> QED BY <2>18, <2>19
<1> QED BY <1>6, <1>7, <1>9, <1>10

-----------------------------------------------------------------------------
(* The resident engine *)

\* A fast lane touches the engine and the request only.
LEMMA FastTurn ==
  ASSUME DecodeInv, ~Idle, job.lane = "fast",
         UNCHANGED <<build, candleVars, draftVars, noted, overwritten, served>>,
         DOMAIN kv' = 0..(LaneSeq - 1), poisoned' \in BOOLEAN,
         JobOK(job)', job'.lane = "fast", ~Idle', FastOK'
  PROVE  DecodeInv'
<1>1. DecodeTypeOK'
  BY DEF DecodeInv, DecodeTypeOK, candleVars, draftVars
<1>2. SlotOK' /\ NotedOK'
  BY DEF DecodeInv, SlotOK, NotedOK, candleVars, draftVars
<1>3. CandleOK' /\ SpecOK'
  BY DEF CandleOK, SpecOK
<1> QED BY <1>1, <1>2, <1>3 DEF DecodeInv

\* What a row behind a held text draws is the model's own.
LEMMA DrawnBehind ==
  ASSUME NEW rkv, NEW text \in Texts, ResHolds(rkv, text, Len(text)),
         NEW t \in Draw(Attends(rkv, Len(text)))
  PROVE  t = Greedy(text)
<1>1. Len(text) \in 0..Len(text) /\ SubSeq(text, 1, Len(text)) = text
  BY TextsKv, SubSeqFull DEF Texts
<1>2. Attends(rkv, Len(text)) = text
  BY <1>1, AttendsHeld
<1> QED BY <1>2, DrawFacts, NoJunk

\* Fed from the start, the cache holds the prompt.
LEMMA FedFromStart ==
  ASSUME NEW rkv, DOMAIN rkv = 0..(LaneSeq - 1), NEW prompt \in Texts, Len(prompt) <= LaneSeq
  PROVE  ResHolds(FeedAll(rkv, prompt, 0), prompt, Len(prompt))
<1> DEFINE w == <<>>
<1>1. w \in Texts /\ Len(w) = 0 /\ w \o prompt = prompt /\ Len(prompt) \in Nat
  BY EmptySeq, ConcatEmptySeq, TextsKv DEF Texts
<1>2. ResHolds(rkv, w, 0)
  BY DEF ResHolds
<1> HIDE DEF w
<1>3. ResHolds(FeedAll(rkv, prompt, Len(w)), w \o prompt, Len(w) + Len(prompt))
  <2>1. ResHolds(rkv, w, Len(w)) /\ Len(w) + Len(prompt) <= LaneSeq
    BY <1>1, <1>2
  <2> QED BY <1>1, <2>1, FedHolds
<1>4. Len(w) + Len(prompt) = Len(prompt)
  BY <1>1
<1> QED BY <1>1, <1>3, <1>4

\* What a lane prefills, the cache holds, unless a streamed request's tokens are in it.
LEMMA PrefilledFacts ==
  ASSUME DecodeInv, Idle, build # "cpu", NEW j, j.prompt \in Texts, Len(j.prompt) > 0,
         j.stream \in BOOLEAN
  PROVE  /\ DOMAIN Prefilled(j) = 0..(LaneSeq - 1)
         /\ /\ ~(build = "vulkan" /\ j.stream)
            /\ build = "vulkan" => ~overwritten \/ ReuseOf(j.prompt, noted) = 0
            /\ Len(j.prompt) <= LaneSeq
            => ResHolds(Prefilled(j), j.prompt, Len(j.prompt))
<1>1. DOMAIN kv = 0..(LaneSeq - 1) /\ noted \in Texts /\ build \in {"gpu", "vulkan"}
      /\ (~overwritten => ResHolds(kv, noted, Len(noted)))
  BY IdleFacts
<1>2. CASE build = "gpu"
  <2>1. Prefilled(j) = FeedAll(kv, j.prompt, 0)
    BY <1>2 DEF Prefilled
  <2> QED BY <1>1, <2>1, FedDomain, FedFromStart
<1>3. CASE build = "vulkan" /\ ~j.stream
  <2>1. Prefilled(j) = PrefillCached(kv, noted, j.prompt, ShortSuffix)
    BY <1>3 DEF Prefilled
  <2>2. /\ DOMAIN PrefillCached(kv, noted, j.prompt, ShortSuffix) = 0..(LaneSeq - 1)
        /\ /\ ReuseOf(j.prompt, noted) = 0 \/ ResHolds(kv, noted, Len(noted))
           /\ Len(j.prompt) <= LaneSeq
           => ResHolds(PrefillCached(kv, noted, j.prompt, ShortSuffix), j.prompt, Len(j.prompt))
    BY <1>1, PrefillCachedFacts
  <2> QED BY <1>1, <1>3, <2>1, <2>2
<1>4. CASE build = "vulkan" /\ j.stream
  <2>1. Prefilled(j) = FeedPadded(kv, j.prompt, 0) \/ Prefilled(j) = FeedAll(kv, j.prompt, 0)
    BY <1>4 DEF Prefilled
  <2> QED BY <1>1, <1>4, <2>1, FedDomain
<1> QED BY <1>1, <1>2, <1>3, <1>4

\* generate_gpu, generate_vk and chat_stream over an engine: a request begins.
LEMMA BeginFastInv ==
  ASSUME DecodeInv, BeginFast
  PROVE  DecodeInv'
<1>0. /\ Idle /\ build # "cpu" /\ UNCHANGED <<build, main, cache, tainted, draft, draftCache, poisoned>>
  BY DEF BeginFast, candleVars, draftVars
<1>1. PICK j \in NewJobs("fast") :
       /\ Eligible(j)
       /\ kv' = Prefilled(j)
       /\ IF build = "vulkan" /\ ~j.stream
          THEN /\ noted' = j.prompt
               /\ overwritten' = (overwritten /\ ReuseOf(j.prompt, noted) > 0)
          ELSE /\ overwritten' = (overwritten \/ build = "vulkan")
               /\ UNCHANGED noted
       /\ \E t \in Draw(Attends(kv', Len(j.prompt))) :
            Admit([j EXCEPT !.phase = "fast", !.next = t])
  BY DEF BeginFast
<1>2. PICK t \in Draw(Attends(kv', Len(j.prompt))) :
        served' = served + 1 /\ job' = [j EXCEPT !.phase = "fast", !.next = t]
  BY <1>1 DEF Admit
<1>3. /\ j \in JobSet /\ j.prompt \in Texts /\ j.text = j.prompt
      /\ Len(j.prompt) > 0 /\ Len(j.prompt) < MaxSeq /\ Len(j.prompt) \in Nat
      /\ j.lane = "fast" /\ j.max \in Nat /\ j.stream \in BOOLEAN
  BY <1>0, NewJobFacts
<1>4. t \in Token
  BY DrawFacts
<1>5. /\ job' \in JobSet /\ job'.prompt = j.prompt /\ job'.text = j.prompt
      /\ job'.stream = j.stream /\ job'.lane = "fast" /\ job'.phase = "fast"
      /\ job'.max = j.max /\ job'.next = t
  BY <1>2, <1>3, <1>4 DEF JobSet
<1>6. JobOK(job)' /\ ~Idle' /\ Reply(job') = 0 /\ AsIfCold(job')
  BY <1>0, <1>3, <1>5, BegunOK
<1>7. /\ build \in {"cpu", "gpu", "vulkan"} /\ main \in Backend /\ draft \in Backend
      /\ cache \in Texts /\ draftCache \in Texts /\ noted \in Texts /\ overwritten \in BOOLEAN
      /\ tainted \in BOOLEAN /\ poisoned \in BOOLEAN /\ served \in Nat
      /\ (~main.loaded => main.kv = NoKv)
      /\ ((main.loaded /\ ~tainted) => Trail(main, cache)) /\ Ahead(draft, draftCache)
  BY <1>0, IdleFacts
<1>8. /\ DOMAIN kv' = 0..(LaneSeq - 1)
      /\ /\ ~(build = "vulkan" /\ j.stream)
         /\ build = "vulkan" => ~overwritten \/ ReuseOf(j.prompt, noted) = 0
         /\ Len(j.prompt) <= LaneSeq
         => ResHolds(kv', j.prompt, Len(j.prompt))
  BY <1>0, <1>1, <1>3, PrefilledFacts
<1>9. noted' \in Texts /\ overwritten' \in BOOLEAN
  BY <1>1, <1>3, <1>7
<1>10. DecodeTypeOK'
  BY <1>0, <1>2, <1>6, <1>7, <1>8, <1>9 DEF DecodeTypeOK
<1>11. SlotOK'
  BY <1>0, <1>7 DEF SlotOK
<1>12. NotedOK'
  <2>1. build # "vulkan" => noted' = <<>>
    BY <1>1 DEF DecodeInv, NotedOK
  <2> QED BY <1>0, <1>5, <2>1 DEF NotedOK
<1>13. CandleOK' /\ SpecOK'
  BY <1>5 DEF CandleOK, SpecOK
<1>14. FastOK'
  <2>1. (build = "vulkan" /\ j.stream) => overwritten'
    BY <1>1, <1>7
  <2>2. (build = "vulkan" /\ ~j.stream) => noted' = j.prompt /\ Len(j.prompt) + j.max < LaneSeq
    BY <1>1 DEF Eligible
  <2>3. ASSUME ~overwritten', Len(j.prompt) <= LaneSeq
        PROVE  ResHolds(kv', j.prompt, Len(j.prompt)) /\ t = Greedy(j.prompt)
    <3>1. ~(build = "vulkan" /\ j.stream)
      BY <2>1, <2>3
    <3>2. build = "vulkan" => ~overwritten \/ ReuseOf(j.prompt, noted) = 0
      <4>1. ReuseOf(j.prompt, noted) \in Nat
        BY <1>3, <1>7, ReuseFacts
      <4>2. build = "vulkan" => overwritten' = (overwritten /\ ReuseOf(j.prompt, noted) > 0)
        BY <1>1, <3>1
      <4>3. build = "vulkan" => ~(overwritten /\ ReuseOf(j.prompt, noted) > 0)
        BY <2>3, <4>2, Zenon
      <4> QED BY <1>7, <4>1, <4>3
    <3>3. ResHolds(kv', j.prompt, Len(j.prompt))
      BY <1>8, <2>3, <3>1, <3>2
    <3> QED BY <1>3, <3>3, DrawnBehind
  <2> QED BY <1>0, <1>3, <1>5, <1>6, <2>1, <2>2, <2>3 DEF FastOK
<1> QED BY <1>10, <1>11, <1>12, <1>13, <1>14 DEF DecodeInv

\* Where a fast lane's position stands against the window.
LEMMA FastRoom ==
  ASSUME DecodeInv, ~Idle, job.lane = "fast"
  PROVE  /\ Len(job.text) = Len(job.prompt) + Reply(job) /\ Len(job.text) \in Nat
         /\ Reply(job) \in Nat /\ job.max \in Nat /\ Len(job.prompt) \in Nat
         /\ (build = "vulkan" /\ ~overwritten) =>
              /\ ~job.stream /\ noted = job.prompt /\ Len(job.prompt) + job.max < LaneSeq
<1>1. /\ Len(job.text) \in Nat /\ Len(job.prompt) \in Nat /\ Reply(job) \in Nat /\ job.max \in Nat
      /\ job \in JobSet
  BY JobFacts
<1>2. Len(job.text) = Len(job.prompt) + Reply(job)
  BY <1>1 DEF Reply
<1>3. job.stream \in BOOLEAN
  BY <1>1 DEF JobSet
<1> QED BY <1>1, <1>2, <1>3 DEF DecodeInv, FastOK

\* The reply grows by the token in hand.
LEMMA FastCommits ==
  ASSUME DecodeInv, ~Idle, job.lane = "fast", job.phase = "fast",
         ~overwritten, Len(job.text) <= LaneSeq
  PROVE  /\ ResHolds(kv, job.text, Len(job.text))
         /\ job.next = Greedy(job.text) /\ AsIfCold(job)
         /\ Cold(job.prompt, job.text \o <<job.next>>)
<1>1. /\ job.text \in Texts /\ job.prompt \in Texts /\ job.next \in Token /\ Len(job.text) \in Nat
      /\ job \in JobSet /\ LaneSeq \in Nat
  BY JobFacts, ResidentAssumption DEF JobSet
<1>2. /\ ResHolds(kv, job.text, Len(job.text)) /\ job.next = Greedy(job.text)
      /\ AsIfCold(job)
  BY <1>1 DEF DecodeInv, FastOK
<1> DEFINE toks == <<job.next>>
<1>3. toks \in Texts /\ Len(toks) = 1 /\ toks[1] = job.next
  BY <1>1, Single DEF Texts
<1> HIDE DEF toks
<1>4. \A i \in 1..Len(toks) : toks[i] = Greedy(job.text \o SubSeq(toks, 1, i - 1))
  <2> SUFFICES ASSUME NEW i \in 1..Len(toks)
               PROVE  toks[i] = Greedy(job.text \o SubSeq(toks, 1, i - 1))
    OBVIOUS
  <2>1. i = 1 /\ i - 1 = 0
    BY <1>3
  <2>2. SubSeq(toks, 1, 0) = <<>>
    BY SubSeqEmpty
  <2>3. job.text \o <<>> = job.text
    BY <1>1, ConcatEmptySeq DEF Texts
  <2> QED BY <1>2, <1>3, <2>1, <2>2, <2>3
<1>5. Cold(job.prompt, job.text \o toks)
  BY <1>1, <1>2, <1>3, <1>4, ColdExtends DEF AsIfCold
<1> QED BY <1>2, <1>5 DEF toks

\* The reply ends, with the token in hand or without it.
LEMMA EndFastInv ==
  ASSUME DecodeInv, ~Idle, job.lane = "fast", job.phase = "fast",
         NEW k, NEW toks, Continues(k, job, toks), toks = <<>> \/ toks = <<job.next>>,
         EndFast(k),
         UNCHANGED <<build, candleVars, draftVars, noted, overwritten, served>>
  PROVE  DecodeInv'
<1>1. /\ job.text \in Texts /\ job.prompt \in Texts /\ job.next \in Token /\ Len(job.text) \in Nat
      /\ job \in JobSet /\ LaneSeq \in Nat
  BY JobFacts, ResidentAssumption DEF JobSet
<1>2. /\ Len(job.text) = Len(job.prompt) + Reply(job)
      /\ Reply(job) \in Nat /\ job.max \in Nat /\ Len(job.prompt) \in Nat
      /\ (build = "vulkan" /\ ~overwritten) =>
           /\ ~job.stream /\ noted = job.prompt /\ Len(job.prompt) + job.max < LaneSeq
  BY FastRoom
<1>3. toks \in Texts /\ (toks = <<>> => Len(toks) = 0) /\ (toks = <<job.next>> => Len(toks) = 1)
  BY <1>1, Single, EmptySeq DEF Texts
<1>4. /\ job' \in JobSet /\ job'.text = job.text \o toks /\ job'.lane = "fast"
      /\ job'.stream = job.stream /\ job'.prompt = job.prompt /\ job'.max = job.max
      /\ job'.left = job.left /\ job'.again = job.again /\ job'.pld = job.pld
      /\ job'.phase = "end"
  <2>1. job' = [k EXCEPT !.phase = "end"]
    BY DEF EndFast
  <2> QED BY <2>1 DEF Continues, JobSet
<1>5. /\ JobOK(job)' /\ ~Idle' /\ Len(job'.text) = Len(job.text) + Len(toks)
      /\ Reply(job') = Reply(job) + Len(toks)
  <2>1. Resumes(job', job, toks)
    BY <1>4 DEF Resumes
  <2> QED BY <1>1, <1>3, <1>4, <2>1, ResumedOK
<1>6. Reply(job') <= job'.max \/ Reply(job') = 1
  <2> DEFINE x == Reply(job)  m == job.max  n == Len(toks)
  <2>1. x \in Nat /\ m \in Nat /\ (x < m \/ x = 0) /\ (x <= m \/ x = 1)
    BY <1>2 DEF DecodeInv, FastOK
  <2>2. n \in {0, 1} /\ Reply(job') = x + n /\ job'.max = m
    BY <1>3, <1>4, <1>5
  <2> HIDE DEF x, m, n
  <2> QED BY <2>1, <2>2
<1>7. ASSUME ~overwritten, Len(job'.text) <= LaneSeq + 1 PROVE AsIfCold(job')
  <2>1. CASE toks = <<>>
    <3>1. job'.text = job.text
      BY <1>1, <1>4, <2>1, ConcatEmptySeq DEF Texts
    <3>2. AsIfCold(job)
      BY <1>7, <3>1 DEF DecodeInv, FastOK
    <3> QED BY <1>4, <3>1, <3>2 DEF AsIfCold
  <2>2. CASE toks = <<job.next>>
    <3>1. Len(job.text) <= LaneSeq
      BY <1>1, <1>3, <1>5, <1>7, <2>2
    <3>2. Cold(job.prompt, job.text \o toks)
      BY <1>7, <2>2, <3>1, FastCommits
    <3> QED BY <1>4, <3>2 DEF AsIfCold
  <2> QED BY <2>1, <2>2
<1>8. ASSUME ~overwritten, build = "vulkan"
      PROVE  ResHolds(kv, job'.text, IF Reply(job') = 0 THEN Len(job'.text) ELSE Len(job'.text) - 1)
  <2>1. Len(job.text) <= LaneSeq
    <3> DEFINE x == Reply(job)  m == job.max  l == Len(job.prompt)
    <3>1. x \in Nat /\ m \in Nat /\ l \in Nat /\ (x < m \/ x = 0) /\ l + m < LaneSeq
          /\ Len(job.text) = l + x
      BY <1>2, <1>8 DEF DecodeInv, FastOK
    <3> HIDE DEF x, m, l
    <3> QED BY <1>1, <3>1
  <2>2. ResHolds(kv, job.text, Len(job.text))
    BY <1>8, <2>1, FastCommits
  <2>3. CASE toks = <<>>
    <3>1. job'.text = job.text
      BY <1>1, <1>4, <2>3, ConcatEmptySeq DEF Texts
    <3>2. ResHolds(kv, job.text, Len(job.text) - 1)
      BY <1>1, <2>2 DEF ResHolds
    <3> QED BY <2>2, <3>1, <3>2
  <2>4. CASE toks = <<job.next>>
    <3>1. Reply(job') # 0 /\ Len(job'.text) - 1 = Len(job.text)
      BY <1>1, <1>2, <1>3, <1>5, <2>4
    <3>2. ResHolds(kv, job.text \o toks, Len(job.text))
      <4> SUFFICES ASSUME NEW p \in 0..(Len(job.text) - 1)
                   PROVE  kv[p] = SubSeq(job.text \o toks, 1, p + 1)
        BY DEF ResHolds
      <4>1. p + 1 \in 0..Len(job.text)
        BY <1>1
      <4>2. SubSeq(job.text \o toks, 1, p + 1) = SubSeq(job.text, 1, p + 1)
        BY <1>1, <1>3, <4>1, PrefixInside DEF Texts
      <4> QED BY <2>2, <4>2 DEF ResHolds
    <3> QED BY <1>4, <3>1, <3>2
  <2> QED BY <2>3, <2>4
<1>9. kv' = kv /\ poisoned' = poisoned
  BY DEF EndFast
<1>10. FastOK'
  <2>1. (build = "vulkan" /\ job.stream) => overwritten
    BY DEF DecodeInv, FastOK
  <2>2. (build = "vulkan" /\ ~job.stream) => noted = job.prompt /\ Len(job.prompt) + job.max < LaneSeq
    BY DEF DecodeInv, FastOK
  <2> QED BY <1>4, <1>6, <1>7, <1>8, <1>9, <2>1, <2>2 DEF FastOK
<1>11. DOMAIN kv' = 0..(LaneSeq - 1) /\ poisoned' \in BOOLEAN
  BY <1>9 DEF DecodeInv, DecodeTypeOK
<1> QED BY <1>4, <1>5, <1>10, <1>11, FastTurn

\* A turn that goes on stays within the window, unless a streamed request's tokens are
\* in the cache.
LEMMA WithinWindow ==
  ASSUME DecodeInv, ~Idle, job.lane = "fast", Reply(job) + 1 < job.max,
         build = "vulkan", ~overwritten
  PROVE  Len(job.text) < LaneSeq
<1> DEFINE x == Reply(job)  m == job.max  l == Len(job.prompt)  n == Len(job.text)
<1>1. n = l + x /\ x \in Nat /\ m \in Nat /\ l \in Nat /\ l + m < LaneSeq
  BY FastRoom
<1>2. x + 1 < m /\ LaneSeq \in Nat
  BY ResidentAssumption
<1> HIDE DEF x, m, l, n
<1>3. n < LaneSeq
  BY <1>1, <1>2
<1> QED BY <1>3 DEF n

\* The token in hand is committed, within the window or beyond it.
LEMMA FedOn ==
  ASSUME DecodeInv, ~Idle, job.lane = "fast", job.phase = "fast",
         NEW p, Continues(p, job, <<job.next>>), Reply(p) < p.max,
         NEW t \in Token, job' = [p EXCEPT !.next = t],
         DOMAIN kv' = 0..(LaneSeq - 1), poisoned' \in BOOLEAN,
         UNCHANGED <<build, candleVars, draftVars, noted, overwritten, served>>,
         (~overwritten /\ Len(job.text) <= LaneSeq) =>
            /\ Len(job.text) < LaneSeq
            /\ ResHolds(kv', p.text, Len(p.text)) /\ t = Greedy(p.text)
  PROVE  DecodeInv'
<1> DEFINE toks == <<job.next>>
<1>1. /\ job.text \in Texts /\ job.prompt \in Texts /\ job.next \in Token /\ Len(job.text) \in Nat
      /\ job \in JobSet /\ LaneSeq \in Nat
  BY JobFacts, ResidentAssumption DEF JobSet
<1>2. toks \in Texts /\ Len(toks) = 1
  BY <1>1, Single DEF Texts
<1>3. Continues(p, job, toks)
  OBVIOUS
<1> HIDE DEF toks
<1>4. /\ job' \in JobSet /\ job'.text = job.text \o toks /\ job'.lane = "fast"
      /\ job'.stream = job.stream /\ job'.prompt = job.prompt /\ job'.max = job.max
      /\ job'.left = job.left /\ job'.again = job.again /\ job'.pld = job.pld
      /\ job'.phase = "fast" /\ job'.next = t /\ p.text = job.text \o toks
      /\ p.prompt = job.prompt /\ p.max = job.max
  BY <1>3 DEF Continues, JobSet
<1>5. /\ JobOK(job)' /\ ~Idle' /\ Len(job'.text) = Len(job.text) + 1
  <2>1. Resumes(job', job, toks)
    BY <1>4 DEF Resumes
  <2>2. /\ JobOK(job)' /\ ~Idle' /\ Len(job'.text) = Len(job.text) + Len(toks)
    BY <1>1, <1>2, <1>4, <2>1, ResumedOK
  <2> QED BY <1>2, <2>2
<1>6. Reply(job') < job'.max
  BY <1>4 DEF Reply
<1>9. Reply(job') <= job'.max
  <2>1. Reply(job') \in Int /\ job'.max \in Int
    BY <1>1, <1>4, <1>5, JobFacts DEF Reply
  <2> QED BY <1>6, <2>1
<1>7. ASSUME ~overwritten, Len(job'.text) <= LaneSeq + 1
      PROVE  /\ AsIfCold(job') /\ ResHolds(kv', job'.text, Len(job'.text))
             /\ job'.next = Greedy(job'.text)
  <2>1. Len(job.text) <= LaneSeq
    BY <1>1, <1>5, <1>7
  <2>2. Cold(job.prompt, job.text \o toks)
    BY <1>7, <2>1, FastCommits DEF toks
  <2> QED BY <1>4, <1>7, <2>1, <2>2 DEF AsIfCold
<1>8. FastOK'
  <2>1. (build = "vulkan" /\ job.stream) => overwritten
    BY DEF DecodeInv, FastOK
  <2>2. (build = "vulkan" /\ ~job.stream) => noted = job.prompt /\ Len(job.prompt) + job.max < LaneSeq
    BY DEF DecodeInv, FastOK
  <2>3. Len(job'.text) <= LaneSeq => Len(job'.text) <= LaneSeq + 1
    BY <1>1, <1>5
  <2> QED BY <1>4, <1>6, <1>7, <1>9, <2>1, <2>2, <2>3 DEF FastOK
<1> QED BY <1>4, <1>5, <1>8, FastTurn

\* The rotary rows run out: the panic drops the request, and leaves noted what no
\* streamed request wrote over.
LEMMA PanicInv ==
  ASSUME DecodeInv, ~Idle, job.lane = "fast", Reply(job) + 1 < job.max,
         Len(job.text) >= LaneSeq, job' = NoJob, poisoned' = TRUE, UNCHANGED kv,
         UNCHANGED <<build, candleVars, draftVars, noted, overwritten, served>>
  PROVE  DecodeInv'
<1>1. JobOK(job)' /\ Idle' /\ job'.lane = "candle" /\ CandleOK' /\ SpecOK' /\ FastOK'
  BY IdleJob
<1>2. DecodeTypeOK'
  BY <1>1 DEF DecodeInv, DecodeTypeOK, candleVars, draftVars
<1>3. SlotOK'
  BY <1>1 DEF DecodeInv, SlotOK, candleVars, draftVars
<1>4. NotedOK'
  <2>1. build # "vulkan" => noted = <<>>
    BY DEF DecodeInv, NotedOK
  <2>2. Len(job.text) \in Nat /\ LaneSeq \in Nat
    BY JobFacts, ResidentAssumption
  <2>3. ~(build = "vulkan" /\ ~overwritten)
    BY <2>2, WithinWindow
  <2>4. noted = <<>> => Len(noted) <= LaneSeq /\ ResHolds(kv, noted, Len(noted))
    BY <2>2, EmptySeq DEF ResHolds
  <2> QED BY <2>1, <2>3, <2>4 DEF NotedOK
<1> QED BY <1>1, <1>2, <1>3, <1>4 DEF DecodeInv

\* The next token is fed, or the window is spent.
LEMMA FeedNextInv ==
  ASSUME DecodeInv, ~Idle, job.lane = "fast", job.phase = "fast",
         NEW p, Continues(p, job, <<job.next>>), Len(Generated(p)) < p.max, FeedNext(p),
         UNCHANGED <<build, candleVars, draftVars, noted, overwritten, served>>
  PROVE  DecodeInv'
<1>1. /\ job.text \in Texts /\ job.next \in Token /\ Len(job.text) \in Nat
      /\ job \in JobSet /\ LaneSeq \in Nat /\ Len(job.prompt) <= Len(job.text)
      /\ job.max \in Nat
  BY JobFacts, ResidentAssumption DEF JobSet
<1>2. <<job.next>> \in Texts /\ Len(<<job.next>>) = 1
  BY <1>1, Single DEF Texts
<1>3. /\ p \in JobSet /\ p.text = job.text \o <<job.next>> /\ p.max = job.max
      /\ Reply(p) = Reply(job) + 1 /\ Reply(p) < p.max /\ Reply(job) + 1 < job.max
  <2>1. /\ p \in JobSet /\ Reply(p) = Reply(job) + Len(<<job.next>>) /\ Len(Generated(p)) = Reply(p)
    BY <1>1, <1>2, GrownReply
  <2>2. p.text = job.text \o <<job.next>> /\ p.max = job.max
    BY DEF Continues
  <2> QED BY <1>2, <2>1, <2>2
<1>4. Len(p.text) = Len(job.text) + 1 /\ Len(p.text) - 1 = Len(job.text) /\ p.text \in Texts
  BY <1>1, <1>2, <1>3, ConcatFacts DEF Texts
<1>5. poisoned \in BOOLEAN /\ DOMAIN kv = 0..(LaneSeq - 1)
  BY DEF DecodeInv, DecodeTypeOK
<1>6. CASE /\ Len(job.text) < LaneSeq
           /\ kv' = Feed(kv, job.next, Len(job.text))
           /\ \E t \in Draw(Attends(kv', Len(job.text) + 1)) : job' = [p EXCEPT !.next = t]
           /\ UNCHANGED poisoned
  <2>1. PICK t \in Draw(Attends(kv', Len(job.text) + 1)) : job' = [p EXCEPT !.next = t]
    BY <1>6
  <2>2. t \in Token
    BY DrawFacts
  <2>3. kv' = FeedAll(kv, <<job.next>>, Len(job.text))
    BY <1>6 DEF Feed
  <2>4. DOMAIN kv' = 0..(LaneSeq - 1)
    BY <1>5, <2>3, FedDomain
  <2>5. ASSUME ~overwritten
        PROVE  ResHolds(kv', p.text, Len(p.text)) /\ t = Greedy(p.text)
    <3>1. ResHolds(kv, job.text, Len(job.text))
      BY <1>1, <1>6, <2>5, FastCommits
    <3>2. Len(job.text) + Len(<<job.next>>) <= LaneSeq
      BY <1>1, <1>2, <1>6
    <3>3. ResHolds(kv', job.text \o <<job.next>>, Len(job.text) + Len(<<job.next>>))
      BY <1>1, <1>2, <1>5, <2>3, <3>1, <3>2, FedHolds
    <3>4. ResHolds(kv', p.text, Len(p.text))
      BY <1>2, <1>3, <1>4, <3>3
    <3>5. t \in Draw(Attends(kv', Len(p.text)))
      BY <1>4, <2>1
    <3> QED BY <1>4, <3>4, <3>5, DrawnBehind
  <2>6. poisoned' \in BOOLEAN
    BY <1>5, <1>6
  <2> QED BY <1>3, <1>6, <2>1, <2>2, <2>4, <2>5, <2>6, FedOn
<1>7. CASE Len(job.text) >= LaneSeq /\ poisoned' = TRUE /\ job' = NoJob /\ UNCHANGED kv
  BY <1>3, <1>7, PanicInv
<1>8. CASE /\ Len(job.text) = LaneSeq /\ build = "vulkan"
           /\ \E t \in Token : job' = [p EXCEPT !.next = t]
           /\ UNCHANGED <<kv, poisoned>>
  <2>1. PICK t \in Token : job' = [p EXCEPT !.next = t]
    BY <1>8
  <2>2. overwritten
    BY <1>1, <1>3, <1>8, WithinWindow
  <2>3. DOMAIN kv' = 0..(LaneSeq - 1) /\ poisoned' \in BOOLEAN
    BY <1>5, <1>8
  <2> QED BY <1>3, <2>1, <2>2, <2>3, FedOn
<1> QED BY <1>4, <1>6, <1>7, <1>8 DEF FeedNext

\* What a turn makes of the token in hand.
LEMMA TurnContinues ==
  ASSUME DecodeInv, ~Idle, job.lane = "fast"
  PROVE  LET p == Push(job, job.next)
         IN  /\ Continues(job, job, <<>>)
             /\ Continues(p, job, <<job.next>>) /\ Continues(Sent(p, job.next), job, <<job.next>>)
             /\ Len(Generated(Sent(p, job.next))) = Len(Generated(p))
             /\ Sent(p, job.next).max = p.max
             /\ Len(Generated(p)) \in Nat /\ p.max \in Nat
<1> DEFINE p == Push(job, job.next)
<1>1. /\ job.text \in Texts /\ job.next \in Token /\ job \in JobSet
      /\ Len(job.prompt) <= Len(job.text) /\ job.max \in Nat
  BY JobFacts DEF JobSet
<1>2. Continues(job, job, <<>>)
  BY <1>1, ConcatEmptySeq DEF Continues, Texts
<1>3. Continues(p, job, <<job.next>>) /\ Continues(Sent(p, job.next), job, <<job.next>>)
  BY <1>1, PushContinues
<1> HIDE DEF p
<1>4. <<job.next>> \in Texts
  BY <1>1, Single DEF Texts
<1>5. \A k : Continues(k, job, <<job.next>>) =>
        Len(Generated(k)) = Reply(job) + Len(<<job.next>>) /\ Len(Generated(k)) \in Nat /\ k.max = job.max
  <2> SUFFICES ASSUME NEW k, Continues(k, job, <<job.next>>)
               PROVE  Len(Generated(k)) = Reply(job) + Len(<<job.next>>) /\ Len(Generated(k)) \in Nat
                      /\ k.max = job.max
    OBVIOUS
  <2>1. Len(Generated(k)) = Reply(k) /\ Reply(k) = Reply(job) + Len(<<job.next>>)
        /\ Reply(job) \in Nat /\ Len(<<job.next>>) \in Nat
    BY <1>1, <1>4, GrownReply
  <2> QED BY <2>1 DEF Continues
<1>6. Len(Generated(Sent(p, job.next))) = Len(Generated(p)) /\ Sent(p, job.next).max = p.max
      /\ Len(Generated(p)) \in Nat /\ p.max \in Nat
  BY <1>1, <1>3, <1>5
<1> QED BY <1>2, <1>3, <1>6 DEF p

\* generate_gpu, generate_vk: one turn.
LEMMA FastStepInv ==
  ASSUME DecodeInv, FastStep
  PROVE  DecodeInv'
<1> DEFINE p == Push(job, job.next)
<1>1. /\ job.phase = "fast" /\ ~Idle
      /\ IF job.next = Eos THEN EndFast(job)
         ELSE IF StopHit(p) \/ Len(Generated(p)) >= p.max THEN EndFast(p)
         ELSE FeedNext(p)
      /\ UNCHANGED <<build, candleVars, draftVars, noted, overwritten, served>>
  BY DEF FastStep, Idle
<1>2. job.lane = "fast"
  BY <1>1 DEF DecodeInv, DecodeTypeOK, JobOK
<1>3. /\ Continues(job, job, <<>>) /\ Continues(p, job, <<job.next>>)
      /\ Len(Generated(p)) \in Nat /\ p.max \in Nat
  BY <1>1, <1>2, TurnContinues
<1> HIDE DEF p
<1>4. CASE EndFast(job)
  BY <1>1, <1>2, <1>3, <1>4, EndFastInv
<1>5. CASE EndFast(p)
  BY <1>1, <1>2, <1>3, <1>5, EndFastInv
<1>6. CASE FeedNext(p) /\ ~(Len(Generated(p)) >= p.max)
  <2>1. Len(Generated(p)) < p.max
    BY <1>3, <1>6
  <2> QED BY <1>1, <1>2, <1>3, <1>6, <2>1, FeedNextInv
<1> QED BY <1>1, <1>4, <1>5, <1>6

\* chat_stream over an engine: one turn.
LEMMA StreamFastInv ==
  ASSUME DecodeInv, StreamFast
  PROVE  DecodeInv'
<1> DEFINE p == Push(job, job.next)
           q == Sent(p, job.next)
<1>1. /\ job.phase = "fast" /\ ~Idle
      /\ IF job.next = Eos THEN EndFast(job)
         ELSE IF StopHit(p) \/ p.gone THEN EndFast(p)
         ELSE IF Len(Generated(p)) >= p.max THEN EndFast(q)
         ELSE FeedNext(q)
      /\ UNCHANGED <<build, candleVars, draftVars, noted, overwritten, served>>
  BY DEF StreamFast, Idle
<1>2. job.lane = "fast"
  BY <1>1 DEF DecodeInv, DecodeTypeOK, JobOK
<1>3. /\ Continues(job, job, <<>>) /\ Continues(p, job, <<job.next>>)
      /\ Continues(q, job, <<job.next>>)
      /\ Len(Generated(q)) = Len(Generated(p)) /\ q.max = p.max
      /\ Len(Generated(p)) \in Nat /\ p.max \in Nat
  BY <1>1, <1>2, TurnContinues
<1> HIDE DEF p, q
<1>4. CASE EndFast(job)
  BY <1>1, <1>2, <1>3, <1>4, EndFastInv
<1>5. CASE EndFast(p)
  BY <1>1, <1>2, <1>3, <1>5, EndFastInv
<1>6. CASE EndFast(q)
  BY <1>1, <1>2, <1>3, <1>6, EndFastInv
<1>7. CASE FeedNext(q) /\ ~(Len(Generated(p)) >= p.max)
  <2>1. Len(Generated(q)) < q.max
    BY <1>3, <1>7
  <2> QED BY <1>1, <1>2, <1>3, <1>7, <2>1, FeedNextInv
<1> QED BY <1>1, <1>4, <1>5, <1>6, <1>7

\* note_decoded: what is noted behind the reply is what the engine was fed.
LEMMA NotedReply ==
  ASSUME DecodeInv, ~Idle, job.lane = "fast", job.phase = "end",
         build = "vulkan", ~job.stream
  PROVE  /\ NotedAfter(job) \in Texts
         /\ ~overwritten => /\ Len(NotedAfter(job)) <= LaneSeq
                            /\ ResHolds(kv, NotedAfter(job), Len(NotedAfter(job)))
<1> DEFINE text == job.text  l == Len(job.prompt)  g == Generated(job)  x == Reply(job)
           n == Len(job.text)  noteds == SubSeq(g, 1, Len(g) - 1)
<1>1. /\ text \in Texts /\ job.prompt \in Texts /\ n \in Nat /\ l \in 0..n
      /\ LaneSeq \in Nat /\ Len(g) = x /\ x \in Nat /\ l \in Nat /\ n = Len(text)
  BY JobFacts, ResidentAssumption
<1>2. n = l + x /\ job.max \in Nat
  BY FastRoom
<1>3. noted = job.prompt /\ l + job.max < LaneSeq /\ (x <= job.max \/ x = 1)
      /\ (~overwritten => ResHolds(kv, text, IF x = 0 THEN n ELSE n - 1))
  BY DEF DecodeInv, FastOK
<1>4. g \in Texts /\ job.prompt \o g = text
  <2>1. /\ SubSeq(text, l + 1, Len(text)) \in Texts
        /\ SubSeq(text, 1, l) \o SubSeq(text, l + 1, Len(text)) = text
    BY <1>1, SplitAt DEF Texts
  <2>2. job.prompt = SubSeq(text, 1, l)
    BY DEF DecodeInv, DecodeTypeOK, JobOK, Idle
  <2> QED BY <2>1, <2>2 DEF Generated
<1>5. NotedAfter(job) = job.prompt \o noteds
  BY <1>3 DEF NotedAfter
<1>6. l <= LaneSeq /\ (x > 0 => n - 1 <= LaneSeq)
  <2> HIDE DEF text, l, g, x, n, noteds
  <2> QED BY <1>1, <1>2, <1>3
<1>7. CASE x = 0
  <2>1. noteds = <<>> /\ n = l /\ Len(noteds) = 0
    <3>1. Len(g) - 1 \in Int /\ Len(g) - 1 < 1 /\ n = l
      <4> HIDE DEF g, x, n, l
      <4> QED BY <1>1, <1>2, <1>7
    <3> QED BY <3>1, SubSeqEmpty, EmptySeq
  <2>2. job.prompt \o noteds = job.prompt
    BY <1>1, <2>1, ConcatEmptySeq DEF Texts
  <2>3. text = job.prompt
    <3>1. g = <<>>
      BY <1>1, <1>4, <1>7, EmptySeq DEF Texts
    <3> QED BY <1>1, <1>4, <3>1, ConcatEmptySeq DEF Texts
  <2>4. ~overwritten => ResHolds(kv, text, n)
    BY <1>3, <1>7
  <2>5. NotedAfter(job) = job.prompt /\ Len(NotedAfter(job)) = n
    BY <1>5, <2>1, <2>2
  <2> HIDE DEF text, l, g, x, n, noteds
  <2> QED BY <1>1, <1>6, <2>1, <2>3, <2>4, <2>5
<1>8. CASE x > 0
  <2>1. Len(g) - 1 \in 0..Len(g) /\ Len(g) - 1 = x - 1 /\ n - 1 = l + (x - 1) /\ n - 1 \in 0..n
    <3> HIDE DEF g, x, n, l
    <3> QED BY <1>1, <1>2, <1>8
  <2>2. noteds \in Texts
    BY <1>4, <2>1, PrefixFacts DEF Texts
  <2>3. SubSeq(job.prompt \o g, 1, l + (Len(g) - 1)) = job.prompt \o noteds
    BY <1>1, <1>4, <2>1, PrefixBeyond DEF Texts
  <2>4. NotedAfter(job) = SubSeq(text, 1, n - 1)
    BY <1>4, <1>5, <2>1, <2>3
  <2>5. NotedAfter(job) \in Texts /\ Len(NotedAfter(job)) = n - 1
    BY <1>1, <2>1, <2>4, PrefixFacts DEF Texts
  <2>6. ~overwritten => ResHolds(kv, text, n - 1)
    <3>1. x # 0
      <4> HIDE DEF x
      <4> QED BY <1>1, <1>8
    <3> QED BY <1>3, <3>1
  <2>7. n - 1 \in 0..(n - 1)
    <3> HIDE DEF n
    <3> QED BY <1>1, <2>1
  <2>8. ~overwritten => ResHolds(kv, SubSeq(text, 1, n - 1), n - 1)
    <3> SUFFICES ASSUME ~overwritten PROVE ResHolds(kv, SubSeq(text, 1, n - 1), n - 1)
      OBVIOUS
    <3>1. ResHolds(kv, text, n - 1)
      BY <2>6
    <3> HIDE DEF text, n
    <3> QED BY <1>1, <2>1, <2>7, <3>1, ResPrefix
  <2> QED BY <1>6, <1>8, <2>4, <2>5, <2>8
<1>9. x = 0 \/ x > 0
  <2> HIDE DEF x
  <2> QED BY <1>1
<1> QED BY <1>7, <1>8, <1>9

\* The reply of an engine ends.
LEMMA FinishFastInv ==
  ASSUME DecodeInv, FinishFast
  PROVE  DecodeInv'
<1>0. /\ job.phase = "end" /\ job.lane = "fast" /\ ~Idle
      /\ noted' = (IF build = "vulkan" /\ ~job.stream THEN NotedAfter(job) ELSE noted)
      /\ job' = NoJob
      /\ UNCHANGED <<build, candleVars, draftVars, kv, overwritten, poisoned, served>>
  BY DEF FinishFast, Idle
<1>1. JobOK(job)' /\ Idle' /\ job'.lane = "candle" /\ CandleOK' /\ SpecOK' /\ FastOK'
  BY <1>0, IdleJob
<1>2. (build = "vulkan" /\ job.stream) => overwritten
  BY <1>0 DEF DecodeInv, FastOK
<1>3. (build # "vulkan" => noted = <<>>) /\ noted \in Texts /\ LaneSeq \in Nat
  BY ResidentAssumption DEF DecodeInv, NotedOK, DecodeTypeOK
<1>4. (build = "vulkan" /\ ~job.stream) =>
        /\ noted' \in Texts
        /\ ~overwritten => Len(noted') <= LaneSeq /\ ResHolds(kv, noted', Len(noted'))
  BY <1>0, NotedReply
<1>5. ~(build = "vulkan" /\ ~job.stream) => noted' = noted
  BY <1>0
<1>6. DecodeTypeOK'
  BY <1>0, <1>1, <1>3, <1>4, <1>5 DEF DecodeInv, DecodeTypeOK, candleVars, draftVars
<1>7. SlotOK'
  BY <1>0, <1>1 DEF DecodeInv, SlotOK, candleVars, draftVars
<1>8. NotedOK'
  <2>1. noted = <<>> => Len(noted) <= LaneSeq /\ ResHolds(kv, noted, Len(noted))
    BY <1>3, EmptySeq DEF ResHolds
  <2> QED BY <1>0, <1>1, <1>2, <1>3, <1>4, <1>5, <2>1 DEF NotedOK
<1> QED BY <1>1, <1>6, <1>7, <1>8 DEF DecodeInv

\* The receiver of a stream is dropped.
LEMMA ClientLeavesInv ==
  ASSUME DecodeInv, ClientLeaves
  PROVE  DecodeInv'
<1>0. /\ ~Idle /\ job' = [job EXCEPT !.gone = TRUE]
      /\ UNCHANGED <<build, candleVars, draftVars, residentVars, served>>
  BY DEF ClientLeaves, Idle
<1>1. job \in JobSet
  BY JobFacts
<1>2. /\ job' \in JobSet /\ job'.text = job.text /\ job'.prompt = job.prompt
      /\ job'.lane = job.lane /\ job'.stream = job.stream /\ job'.max = job.max
      /\ job'.phase = job.phase /\ job'.start = job.start /\ job'.left = job.left
      /\ job'.row = job.row /\ job'.next = job.next /\ job'.filled = job.filled
      /\ job'.again = job.again /\ job'.pld = job.pld
  BY <1>0, <1>1 DEF JobSet
<1>3. JobOK(job)' /\ ~Idle' /\ Reply(job') = Reply(job) /\ AsIfCold(job') = AsIfCold(job)
  BY <1>0, <1>2, StoppedOK
<1>4. /\ build' = build /\ main' = main /\ cache' = cache /\ tainted' = tainted /\ draft' = draft
      /\ draftCache' = draftCache /\ kv' = kv /\ noted' = noted /\ overwritten' = overwritten
      /\ poisoned' = poisoned /\ served' = served
  BY <1>0 DEF candleVars, draftVars, residentVars
<1>5. DecodeTypeOK'
  BY <1>3, <1>4 DEF DecodeInv, DecodeTypeOK
<1>6. SlotOK' /\ NotedOK'
  BY <1>2, <1>4 DEF DecodeInv, SlotOK, NotedOK, Idle
<1>7. CandleOK'
  <2>1. CandleShape(job) => CandleShape(job')
    BY <1>2, <1>3 DEF CandleShape
  <2>2. CandleBudget(job) => CandleBudget(job')
    BY <1>2, <1>3 DEF CandleBudget
  <2>3. CandleHolds(main, job) => CandleHolds(main', job')
    BY <1>2, <1>3, <1>4 DEF CandleHolds
  <2> QED BY <1>0, <1>2, <1>4, <2>1, <2>2, <2>3 DEF DecodeInv, CandleOK
<1>8. SpecOK'
  BY <1>2, <1>3, <1>4 DEF DecodeInv, SpecOK
<1>9. FastOK'
  BY <1>2, <1>3, <1>4 DEF DecodeInv, FastOK
<1> QED BY <1>5, <1>6, <1>7, <1>8, <1>9 DEF DecodeInv

\* An empty cache is ahead of the empty text.
LEMMA AheadOfNothing ==
  ASSUME NEW be \in Backend, be.kv = NoKv, be.pos = 0
  PROVE  Ahead(be, <<>>)
<1> DEFINE w == <<>>
<1>1. w \in Texts /\ Len(w) = 0
  BY EmptySeq DEF Texts
<1>2. be.pos = Len(w) /\ \A l \in 1..Layers : be.kv[l] = w
  BY <1>1 DEF NoKv
<1>3. Holds(be, w)
  BY <1>2 DEF Holds
<1>4. Ahead(be, w)
  <2> HIDE DEF w
  <2> QED BY <1>1, <1>3, AheadOfText
<1> QED BY <1>4

\* Models as they are loaded and unloaded, and an engine's fresh cache.
LEMMA FreshFacts ==
  /\ Loaded \in Backend /\ Unloaded \in Backend
  /\ Loaded.loaded = TRUE /\ Unloaded.loaded = FALSE /\ Unloaded.kv = NoKv
  /\ Ahead(Loaded, <<>>) /\ Ahead(Unloaded, <<>>)
  /\ <<>> \in Texts /\ Len(<<>>) = 0
  /\ DOMAIN NoResident = 0..(LaneSeq - 1)
  /\ \A rkv : ResHolds(rkv, <<>>, 0)
<1>1. <<>> \in Texts /\ Len(<<>>) = 0
  BY EmptySeq DEF Texts
<1>2. NoKv \in [1..Layers -> Seq(Token \cup {Junk})]
  <2>1. <<>> \in Seq(Token \cup {Junk})
    BY EmptySeq
  <2> QED BY <2>1 DEF NoKv
<1>3. Loaded \in Backend /\ Unloaded \in Backend
  BY <1>2 DEF Loaded, Unloaded, Backend
<1>4. /\ Loaded.loaded = TRUE /\ Unloaded.loaded = FALSE
      /\ Loaded.kv = NoKv /\ Unloaded.kv = NoKv /\ Loaded.pos = 0 /\ Unloaded.pos = 0
  BY DEF Loaded, Unloaded
<1>5. Ahead(Loaded, <<>>) /\ Ahead(Unloaded, <<>>)
  BY <1>3, <1>4, AheadOfNothing
<1>6. DOMAIN NoResident = 0..(LaneSeq - 1)
  BY DEF NoResident
<1>7. \A rkv : ResHolds(rkv, <<>>, 0)
  BY DEF ResHolds
<1> QED BY <1>1, <1>3, <1>4, <1>5, <1>6, <1>7

\* select_model on the slot.
LEMMA ReloadInv ==
  ASSUME DecodeInv, Reload
  PROVE  DecodeInv'
<1>0. /\ Idle /\ served' = served + 1 /\ UNCHANGED <<build, draft, draftCache, poisoned, job>>
      /\ \/ /\ main' = Loaded /\ cache' = <<>> /\ tainted' = FALSE
            /\ kv' = NoResident /\ noted' = <<>> /\ overwritten' = FALSE
         \/ main' = Unloaded /\ UNCHANGED <<cache, tainted, kv, noted, overwritten>>
  BY DEF Reload, draftVars
<1>1. /\ job.lane = "candle" /\ served \in Nat /\ build \in {"cpu", "gpu", "vulkan"}
      /\ draft \in Backend /\ cache \in Texts /\ draftCache \in Texts
      /\ noted \in Texts /\ tainted \in BOOLEAN /\ overwritten \in BOOLEAN
      /\ poisoned \in BOOLEAN /\ DOMAIN kv = 0..(LaneSeq - 1)
      /\ Ahead(draft, draftCache)
  BY <1>0, IdleFacts
<1>2. JobOK(job)' /\ Idle' /\ job'.lane = "candle"
  BY <1>0, <1>1 DEF DecodeInv, DecodeTypeOK, JobOK, Idle
<1>3. main' \in Backend /\ (~main'.loaded => main'.kv = NoKv)
  BY <1>0, FreshFacts
<1>4. /\ cache' \in Texts /\ tainted' \in BOOLEAN /\ noted' \in Texts /\ overwritten' \in BOOLEAN
      /\ DOMAIN kv' = 0..(LaneSeq - 1)
  BY <1>0, <1>1, FreshFacts
<1>5. DecodeTypeOK'
  BY <1>0, <1>1, <1>2, <1>3, <1>4 DEF DecodeTypeOK
<1>6. SlotOK'
  <2>1. main'.loaded => Trail(main', cache')
    BY <1>0, FreshFacts DEF Trail
  <2> QED BY <1>0, <1>1, <2>1 DEF SlotOK
<1>7. NotedOK'
  <2>1. LaneSeq \in Nat
    BY ResidentAssumption
  <2>2. CASE kv' = NoResident /\ noted' = <<>>
    <3>1. Len(noted') <= LaneSeq /\ ResHolds(kv', noted', Len(noted'))
      BY <2>1, <2>2, FreshFacts
    <3> QED BY <2>2, <3>1 DEF NotedOK
  <2>3. CASE UNCHANGED <<kv, noted, overwritten>>
    BY <1>0, <2>3 DEF DecodeInv, NotedOK
  <2> QED BY <1>0, <2>2, <2>3
<1>8. CandleOK' /\ SpecOK' /\ FastOK'
  BY <1>2 DEF CandleOK, SpecOK, FastOK
<1> QED BY <1>5, <1>6, <1>7, <1>8 DEF DecodeInv

-----------------------------------------------------------------------------
(* The invariant of every behaviour, and what it says *)

\* The program starts with loaded models and empty caches.
LEMMA DecodeInitInv ==
  ASSUME DecodeInit
  PROVE  DecodeInv
<1>0. /\ build \in Builds /\ main = Loaded /\ draft \in {Loaded, Unloaded}
      /\ cache = <<>> /\ draftCache = <<>> /\ tainted = FALSE
      /\ kv = NoResident /\ noted = <<>> /\ overwritten = FALSE /\ poisoned = FALSE
      /\ job = NoJob /\ served = 0
  BY DEF DecodeInit
<1>1. <<>> \in Texts /\ <<>> \in Seq(Token) /\ Eos \in Token
  BY FreshFacts, DecodeAssumption DEF Texts
<1>2. NoJob \in JobSet
  BY <1>1 DEF NoJob, JobSet, Rows
<1>3. NoJob.phase = "idle" /\ NoJob.lane = "candle"
  BY DEF NoJob
<1>4. JobOK(job) /\ Idle /\ job.lane = "candle"
  BY <1>0, <1>2, <1>3 DEF JobOK, Idle
<1>5. build \in {"cpu", "gpu", "vulkan"}
  BY <1>0, DecodeAssumption
<1>6. /\ main \in Backend /\ draft \in Backend /\ main.loaded = TRUE
      /\ Trail(main, cache) /\ Ahead(draft, draftCache)
  BY <1>0, FreshFacts DEF Trail
<1>7. DecodeTypeOK
  <2>1. cache \in Texts /\ draftCache \in Texts /\ noted \in Texts
    BY <1>0, <1>1
  <2>2. tainted \in BOOLEAN /\ overwritten \in BOOLEAN /\ poisoned \in BOOLEAN /\ served \in Nat
    BY <1>0
  <2>3. DOMAIN kv = 0..(LaneSeq - 1)
    BY <1>0, FreshFacts
  <2> QED BY <1>4, <1>5, <1>6, <2>1, <2>2, <2>3 DEF DecodeTypeOK
<1>8. SlotOK
  BY <1>6 DEF SlotOK
<1>9. CandleOK /\ SpecOK /\ FastOK
  BY <1>4 DEF CandleOK, SpecOK, FastOK
<1>10. NotedOK
  <2>1. LaneSeq \in Nat
    BY ResidentAssumption
  <2>2. Len(noted) <= LaneSeq /\ ResHolds(kv, noted, Len(noted))
    BY <1>0, <2>1, FreshFacts
  <2> QED BY <1>0, <2>2 DEF NotedOK
<1> QED BY <1>7, <1>8, <1>9, <1>10 DEF DecodeInv

\* Every step of every lane keeps the invariant.
LEMMA DecodeStepInv ==
  ASSUME DecodeInv, [DecodeNext]_decodeVars
  PROVE  DecodeInv'
<1>1. CASE BeginCandle \/ CandleStep \/ StreamStep \/ EndLoop \/ PldRound \/ FinishCandle
  BY <1>1, BeginCandleInv, CandleStepInv, StreamStepInv, EndLoopInv, PldRoundInv, FinishCandleInv
<1>2. CASE BeginSpec \/ SpecIter \/ FinishSpec
  BY <1>2, BeginSpecInv, SpecIterInv, FinishSpecInv
<1>3. CASE BeginFast \/ FastStep \/ StreamFast \/ FinishFast
  BY <1>3, BeginFastInv, FastStepInv, StreamFastInv, FinishFastInv
<1>4. CASE ClientLeaves \/ Reload
  BY <1>4, ClientLeavesInv, ReloadInv
<1>5. CASE UNCHANGED decodeVars
  <2>1. /\ build' = build /\ main' = main /\ cache' = cache /\ tainted' = tainted /\ draft' = draft
        /\ draftCache' = draftCache /\ kv' = kv /\ noted' = noted /\ overwritten' = overwritten
        /\ poisoned' = poisoned /\ job' = job /\ served' = served
    BY <1>5 DEF decodeVars, candleVars, draftVars, residentVars
  <2>2. DecodeTypeOK' /\ SlotOK' /\ NotedOK'
    BY <2>1 DEF DecodeInv, DecodeTypeOK, SlotOK, NotedOK, JobOK, Idle
  <2>3. CandleOK' /\ SpecOK' /\ FastOK'
    BY <2>1 DEF DecodeInv, CandleOK, SpecOK, FastOK, Idle
  <2> QED BY <2>2, <2>3 DEF DecodeInv
<1> QED BY <1>1, <1>2, <1>3, <1>4, <1>5 DEF DecodeNext

\* In every state of every behaviour of the decode lanes - the candle loops, prompt
\* lookup, the draft model, the resident engines - the caches hold what the request's
\* text says they do, wherever the slot is not known to be tainted.
THEOREM DecodeInvariant == DecodeSpec => []DecodeInv
<1>1. DecodeInit => DecodeInv
  BY DecodeInitInv
<1>2. DecodeInv /\ [DecodeNext]_decodeVars => DecodeInv'
  BY DecodeStepInv
<1> QED BY <1>1, <1>2, PTL DEF DecodeSpec

\* An idle slot serves nothing.
LEMMA NothingServed ==
  ASSUME DecodeInv, Idle
  PROVE  /\ job = NoJob /\ job.lane = "candle" /\ job.pld = FALSE /\ job.max = 0
         /\ Len(job.text) = 0 /\ Len(job.prompt) = 0 /\ Len(Generated(job)) = 0
<1>1. job = NoJob
  BY DEF DecodeInv, DecodeTypeOK, JobOK, Idle
<1>2. /\ job.lane = "candle" /\ job.pld = FALSE /\ job.max = 0 /\ job.text = <<>> /\ job.prompt = <<>>
  BY <1>1 DEF NoJob
<1>3. Len(job.text) = 0 /\ Len(job.prompt) = 0
  BY <1>2, EmptySeq
<1>4. Generated(job) = <<>>
  BY <1>3, SubSeqEmpty DEF Generated
<1> QED BY <1>1, <1>2, <1>3, <1>4, EmptySeq

\* Whatever earlier requests left in the prefix caches, and whatever was drafted,
\* verified and rolled back, a greedy reply is token by token the one of a cold start
\* (prepare_prompt_cache, verify_drafts, spec_iter, prefill_cached).
THEOREM RepliesAreCold == DecodeSpec => []AnswersAsIfCold
<1>1. DecodeInv => AnswersAsIfCold
  <2> SUFFICES ASSUME DecodeInv, Untainted PROVE AsIfCold(job)
    BY DEF AnswersAsIfCold, AsIfCold, Cold
  <2>1. CASE Idle
    <3>1. Len(job.text) = 0 /\ Len(job.prompt) = 0
      BY <2>1, NothingServed
    <3> QED BY <3>1 DEF AsIfCold, Cold
  <2>2. CASE ~Idle
    <3>1. job.lane \in {"candle", "spec", "fast"}
      BY JobFacts DEF JobSet
    <3>2. CASE job.lane = "candle"
      BY <2>2, <3>2 DEF Untainted, DecodeInv, CandleOK, CandleHolds
    <3>3. CASE job.lane = "spec"
      BY <3>3 DEF Untainted, DecodeInv, SpecOK
    <3>4. CASE job.lane = "fast"
      BY <3>4 DEF Untainted, DecodeInv, FastOK
    <3> QED BY <3>1, <3>2, <3>3, <3>4
  <2> QED BY <2>1, <2>2
<1> QED BY <1>1, DecodeInvariant, PTL

\* Between requests the prefix cache, which all_tokens becomes when a request ends,
\* never claims more than one token beyond the KV every layer of the slot holds.
THEOREM PrefixCacheTrails == DecodeSpec => []CacheTrailsKV
<1>1. DecodeInv => CacheTrailsKV
  <2> SUFFICES ASSUME DecodeInv, Idle, main.loaded, ~tainted
               PROVE  /\ Clean(main, Layers)
                      /\ IsPrefix(cache, main.kv[1]) \/ IsPrefix(main.kv[1], cache)
                      /\ Len(cache) <= main.pos + 1
    BY DEF CacheTrailsKV
  <2>1. Trail(main, cache) /\ cache \in Texts /\ Layers \in 0..Layers /\ 1 \in 1..Layers
    BY IdleFacts, LayerOne
  <2>2. CASE Ahead(main, cache)
    <3> DEFINE w == main.kv[1]
    <3>1. w \in Texts /\ Holds(main, w) /\ Len(cache) <= Len(w) /\ cache = SubSeq(w, 1, Len(cache))
      BY <2>2 DEF Ahead
    <3>2. main.pos = Len(w) /\ Len(w) \in Nat /\ Len(cache) \in Nat
      BY <2>1, <3>1, TextsKv DEF Holds
    <3>3. Clean(main, Layers)
      BY <2>1, <3>1, HoldsClean
    <3>4. SubSeq(cache, 1, Len(cache)) = cache
      BY <2>1, SubSeqFull DEF Texts
    <3>5. IsPrefix(cache, w)
      BY <3>1, <3>4 DEF IsPrefix
    <3> HIDE DEF w
    <3>6. Len(cache) <= main.pos + 1
      BY <3>1, <3>2
    <3> QED BY <3>3, <3>5, <3>6 DEF w
  <2>3. CASE cache # <<>> /\ Holds(main, Front(cache))
    <3>1. Len(cache) > 0 /\ Len(cache) \in Nat
      BY <2>1, <2>3, EmptySeq, TextsKv DEF Texts
    <3>2. /\ Front(cache) = SubSeq(cache, 1, Len(cache) - 1) /\ Front(cache) \in Texts
          /\ Len(Front(cache)) = Len(cache) - 1
      BY <2>1, <3>1, FrontAndLast DEF Texts
    <3>3. main.kv[1] = Front(cache) /\ main.pos = Len(Front(cache))
      BY <2>1, <2>3 DEF Holds
    <3>4. Clean(main, Layers)
      BY <2>1, <2>3, <3>2, HoldsClean
    <3>5. SubSeq(Front(cache), 1, Len(Front(cache))) = Front(cache)
      BY <3>2, SubSeqFull DEF Texts
    <3>6. IsPrefix(Front(cache), cache)
      BY <3>1, <3>2, <3>5 DEF IsPrefix
    <3> QED BY <3>1, <3>2, <3>3, <3>4, <3>6
  <2> QED BY <2>1, <2>2, <2>3 DEF Trail
<1> QED BY <1>1, DecodeInvariant, PTL

\* However much of a draft is rejected, both caches are cut to the same length, and at
\* the top of an iteration they hold the text the iteration continues (spec_iter).
THEOREM BothCachesInStep == DecodeSpec => []SpecInStep
<1>1. DecodeInv => SpecInStep
  <2> SUFFICES ASSUME DecodeInv, job.phase = "spec", Len(Generated(job)) < job.max
               PROVE  /\ main.pos = draft.pos /\ Holds(draft, job.text)
                      /\ ~tainted => Holds(main, job.text)
    BY DEF SpecInStep
  <2>1. ~Idle
    BY DEF Idle
  <2>2. job.lane = "spec"
    BY <2>1 DEF DecodeInv, DecodeTypeOK, JobOK
  <2>3. Reply(job) < job.max
    BY <2>1, JobFacts
  <2> QED BY <2>2, <2>3 DEF DecodeInv, SpecOK
<1> QED BY <1>1, DecodeInvariant, PTL

\* A reply never outgrows max_tokens where the code counts tokens, nor twice that less
\* one where the blocking loop counts turns that prompt lookup fills.
THEOREM RepliesWithinBudget == DecodeSpec => []BudgetKept
<1>1. DecodeInv => BudgetKept
  <2> SUFFICES ASSUME DecodeInv PROVE BudgetKept
    OBVIOUS
  <2> DEFINE n == Len(Generated(job))  m == job.max
  <2>1. CASE Idle
    <3>1. n = 0 /\ m = 0 /\ job.lane = "candle" /\ job.pld = FALSE
      BY <2>1, NothingServed
    <3>2. job.lane # "fast" /\ ~(job.lane = "candle" /\ ~job.stream /\ job.pld)
      BY <3>1
    <3>3. n <= m
      <4> HIDE DEF n, m
      <4> QED BY <3>1
    <3> QED BY <3>2, <3>3 DEF BudgetKept
  <2>2. CASE ~Idle
    <3>1. /\ n = Reply(job) /\ n \in Nat /\ m \in Nat /\ job.left \in Nat
          /\ job.lane \in {"candle", "spec", "fast"}
      BY <2>2, JobFacts DEF JobSet
    <3>2. CASE job.lane = "fast"
      <4>1. n <= m \/ n = 1
        BY <3>1, <3>2 DEF DecodeInv, FastOK
      <4> QED BY <3>2, <4>1 DEF BudgetKept
    <3>3. CASE job.lane = "spec"
      <4>1. n <= m
        BY <3>1, <3>3 DEF DecodeInv, SpecOK
      <4> QED BY <3>3, <4>1 DEF BudgetKept
    <3>4. CASE job.lane = "candle"
      <4>1. CandleBudget(job)
        BY <2>2, <3>4 DEF DecodeInv, CandleOK
      <4>2. CASE ~job.stream /\ job.pld
        <5>1. n + job.left < 2 * m
          BY <3>1, <4>1, <4>2 DEF CandleBudget
        <5>2. n <= 2 * m - 1
          <6> HIDE DEF n, m
          <6> QED BY <3>1, <5>1
        <5> QED BY <3>4, <4>2, <5>2 DEF BudgetKept
      <4>3. CASE ~(~job.stream /\ job.pld)
        <5>1. n <= m \/ n + job.left <= m
          BY <3>1, <4>1, <4>3 DEF CandleBudget
        <5>2. n <= m
          <6> HIDE DEF n, m
          <6> QED BY <3>1, <5>1
        <5> QED BY <3>4, <4>3, <5>2 DEF BudgetKept
      <4> QED BY <4>2, <4>3
    <3> QED BY <3>1, <3>2, <3>3, <3>4
  <2> QED BY <2>1, <2>2
<1> QED BY <1>1, DecodeInvariant, PTL

\* Between requests, what VkModel notes as resident is: note_decoded never runs ahead
\* of what the engine was fed.
THEOREM NotedStaysResident == DecodeSpec => []NotedIsResident
<1>1. DecodeInv => NotedIsResident
  <2> SUFFICES ASSUME DecodeInv, Idle, ~overwritten, NEW i \in 1..Len(noted)
               PROVE  kv[i - 1] = SubSeq(noted, 1, i)
    BY DEF NotedIsResident
  <2>1. ResHolds(kv, noted, Len(noted)) /\ Len(noted) \in Nat
    BY IdleFacts, TextsKv
  <2>2. i - 1 \in 0..(Len(noted) - 1) /\ (i - 1) + 1 = i
    BY <2>1
  <2>3. kv[i - 1] = SubSeq(noted, 1, (i - 1) + 1)
    BY <2>1, <2>2 DEF ResHolds
  <2> QED BY <2>2, <2>3
<1> QED BY <1>1, DecodeInvariant, PTL
=============================================================================
