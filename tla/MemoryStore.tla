------------------------------ MODULE MemoryStore ------------------------------
(***************************************************************************)
(* The semantic memory of src/src/engine/memory_store.rs: entries under    *)
(* byte budgets, with a category and a tag index beside them.              *)
(*                                                                         *)
(* relevance_score starts at 1.0, its cap, and only ever grows, so that    *)
(* the entry of the lowest score is whichever the hash map yields first:   *)
(* any.  Of the clock only expiry is kept: an entry with a time to live is *)
(* "live" until it is "expired".  Text and vector are left out, the        *)
(* vector's width is the entry's size.                                     *)
(***************************************************************************)
EXTENDS Integers, FiniteSets, Functions

CONSTANTS
  Key,
  Category,
  Tag,
  ByteBudget,       \* byte_budget
  CategoryBudget,   \* category_budgets
  MaxEntries        \* max_entries

ASSUME MemoryAssumption ==
  /\ ByteBudget \in Nat /\ MaxEntries \in Nat
  /\ CategoryBudget \in [Category -> Nat]

Entry == [cat : Category, tags : SUBSET Tag, size : Nat, pinned : BOOLEAN,
          ttl : {"none", "live", "expired"}]

EmptyStore ==
  [entries |-> <<>>, bytes |-> 0, catBytes |-> [c \in Category |-> 0],
   byCat |-> [c \in Category |-> {}], byTag |-> [t \in Tag |-> {}]]

Keys(st) == DOMAIN st.entries
Live(st, key) == key \in Keys(st) /\ st.entries[key].ttl # "expired"
SaturatingSub(m, n) == IF m > n THEN m - n ELSE 0

\* The bytes a set of entries takes.
Bytes(st, keys) == Cardinality(UNION {{k} \X (1..st.entries[k].size) : k \in keys})

OfCategory(st, keys, c) == {k \in keys : st.entries[k].cat = c}
WithTag(st, keys, t) == {k \in keys : t \in st.entries[k].tags}

\* Mutant of Removed: the tag index keeps the keys.
RemovedUntagged(st, keys) ==
  LET gone == keys \cap Keys(st) IN
  [entries  |-> [k \in Keys(st) \ gone |-> st.entries[k]],
   bytes    |-> SaturatingSub(st.bytes, Bytes(st, gone)),
   catBytes |-> [c \in Category |-> SaturatingSub(st.catBytes[c], Bytes(st, OfCategory(st, gone, c)))],
   byCat    |-> [c \in Category |-> st.byCat[c] \ OfCategory(st, gone, c)],
   byTag    |-> st.byTag]
\* remove_internal of each of the keys that are there, in any order.
Removed(st, keys) ==
  LET gone == keys \cap Keys(st) IN
  [entries  |-> [k \in Keys(st) \ gone |-> st.entries[k]],
   bytes    |-> SaturatingSub(st.bytes, Bytes(st, gone)),
   catBytes |-> [c \in Category |-> SaturatingSub(st.catBytes[c], Bytes(st, OfCategory(st, gone, c)))],
   byCat    |-> [c \in Category |-> st.byCat[c] \ OfCategory(st, gone, c)],
   byTag    |-> [t \in Tag |-> st.byTag[t] \ WithTag(st, gone, t)]]

Inserted(st, key, e) ==
  [entries  |-> [k \in Keys(st) \cup {key} |-> IF k = key THEN e ELSE st.entries[k]],
   bytes    |-> st.bytes + e.size,
   catBytes |-> [st.catBytes EXCEPT ![e.cat] = @ + e.size],
   byCat    |-> [st.byCat EXCEPT ![e.cat] = @ \cup {key}],
   byTag    |-> [t \in Tag |-> IF t \in e.tags THEN st.byTag[t] \cup {key} ELSE st.byTag[t]]]

Fits(st, e) ==
  /\ st.bytes + e.size <= ByteBudget
  /\ st.catBytes[e.cat] + e.size <= CategoryBudget[e.cat]
  /\ Cardinality(Keys(st)) < MaxEntries

\* Mutant of Evictable: pinned entries go like others.
EvictableAny(st) == Keys(st)
\* Who may go: what has expired (drop_one_expired) and what is not pinned (evict_one).
Evictable(st) == {k \in Keys(st) : st.entries[k].ttl = "expired" \/ ~st.entries[k].pinned}

\* In which order: the expired, then the newcomer's category, then the others.
Turn(st, k, cat) ==
  CASE st.entries[k].ttl = "expired" -> 0
    [] st.entries[k].ttl # "expired" /\ st.entries[k].cat = cat -> 1
    [] OTHER -> 2

\* The loop of store_with_options: entries go one by one, each in its turn, until the
\* new one fits or nobody is left to go.  To remove an entry never makes another fit
\* worse, so it did not fit before if it does not without the last one that went.
Evicted(st, e) ==
  {gone \in SUBSET Evictable(st) :
     /\ \A k \in gone, left \in Evictable(st) \ gone : Turn(st, k, e.cat) <= Turn(st, left, e.cat)
     /\ gone # {} =>
          \E last \in gone : /\ \A k \in gone : Turn(st, k, e.cat) <= Turn(st, last, e.cat)
                             /\ ~Fits(Removed(st, gone \ {last}), e)
     /\ Fits(Removed(st, gone), e) \/ gone = Evictable(st)}

\* store_with_options: what may become of the store.  An entry that is too large on
\* its own changes nothing; any other loses its old value before it is known to fit.
Stored(st, key, e) ==
  IF e.size > CategoryBudget[e.cat] \/ e.size > ByteBudget THEN {st}
  ELSE {LET left == Removed(st, {key} \cup gone)
        IN  IF Fits(left, e) THEN Inserted(left, key, e) ELSE left :
          gone \in Evicted(Removed(st, {key}), e)}

\* query_by_category and query_by_tag.
ByCategory(st, cat) == {k \in st.byCat[cat] : Live(st, k)}
ByTag(st, tag) == {k \in st.byTag[tag] : Live(st, k)}

-----------------------------------------------------------------------------
\* The books agree with the entries, and the budgets hold.
StoreAccounts(st) ==
  /\ \A k \in Keys(st) : st.entries[k] \in Entry
  /\ st.bytes = Bytes(st, Keys(st)) /\ st.bytes <= ByteBudget
  /\ \A c \in Category :
       /\ st.byCat[c] = {k \in Keys(st) : st.entries[k].cat = c}
       /\ st.catBytes[c] = Bytes(st, st.byCat[c]) /\ st.catBytes[c] <= CategoryBudget[c]
  /\ \A t \in Tag : st.byTag[t] = {k \in Keys(st) : t \in st.entries[k].tags}
  /\ Cardinality(Keys(st)) <= MaxEntries
=============================================================================
