------------------------------ MODULE GoalProofs ------------------------------
(***************************************************************************)
(* Proofs about the memory store and the goals of module GoalManager, for  *)
(* any goals, tasks, captures, budgets, vector widths and handlers.        *)
(*                                                                         *)
(* The inductive invariant GoalInv says of the store that its books are    *)
(* exact (StoreOK) and what the entries of each kind look like             *)
(* (EntriesShaped); of ids not yet given out, that nothing knows them      *)
(* (FreshUnknown); of goals, that of those in the store and those yet to   *)
(* be restored one is current (OneCurrentInv); and that the last snapshot  *)
(* taken for a save has what is in the store and what is yet to be         *)
(* restored, unless a save is due (SavedInv).                              *)
(***************************************************************************)
EXTENDS GoalManager, GoalFileProofs, FiniteSetTheorems, FunctionTheorems

StoreTypeOK(st) ==
  /\ st = [entries |-> st.entries, bytes |-> st.bytes, catBytes |-> st.catBytes,
           byCat |-> st.byCat, byTag |-> st.byTag]
  /\ Keys(st) \subseteq Key /\ st.entries \in [Keys(st) -> Entry]
  /\ st.bytes \in Nat /\ st.catBytes \in [Category -> Nat]
  /\ st.byCat \in [Category -> SUBSET Key] /\ st.byTag \in [Tag -> SUBSET Key]

\* A store with exact books.
StoreOK(st) ==
  /\ StoreTypeOK(st)
  /\ IsFiniteSet(Keys(st))
  /\ StoreAccounts(st)

\* What the entry under a key looks like.
Shaped(k, e) ==
  /\ k \in GoalId =>
       \E isCurrent \in BOOLEAN, size \in Width : e = GoalEntry(k, isCurrent, size)
  /\ k \in TaskId =>
       \E g \in GoalId, status \in TaskStatus, size \in Width : e = TaskEntry(g, status, size)
  /\ k = StatusKey =>
       \E g \in GoalId \cup {NoGoal}, size \in Width, ttl \in {"live", "expired"} :
         e = [StatusEntry(g, size) EXCEPT !.ttl = ttl]
  /\ k \in CaptureId => \E size \in Width : e = CaptureEntry(size)
EntriesShaped(st) == \A k \in Keys(st) : Shaped(k, st.entries[k])

GoalTypeOK ==
  /\ width \in Width /\ firstWidth \in Width
  /\ step \in [Saver -> {"idle", "save", "forget", "encode", "restore"}]
  /\ todo \in [Saver -> GoalSnapshots]
  /\ started \in BOOLEAN /\ changes \in Nat
  /\ fresh \subseteq GoalId \cup TaskId
  /\ raced \subseteq {"change", "snapshot"}

\* The snapshots somebody may still restore from: of the store, and of a file.
Snapshots == {todo[s] : s \in Saver} \cup (({copy[s] : s \in Saver} \cup {contents[o] : o \in Object}) \ {Torn})
FreshUnknown ==
  /\ fresh \cap Keys(mem) = {}
  /\ \A d \in Snapshots : fresh \cap (DOMAIN d.goal \cup DOMAIN d.task) = {}

\* Of the goals in the store, and those yet to be restored to it, one is current; so is
\* one in every snapshot.
Listed(d) == {g \in DOMAIN d.goal : d.goal[g]}
ToBeCurrent == CurrentGoals(mem) \cup UNION {Listed(todo[s]) : s \in {r \in Saver : step[r] = "restore"}}
OneCurrentInv ==
  "change" \notin raced =>
    /\ \A g, h \in ToBeCurrent : g = h
    /\ \A d \in Snapshots : \A g, h \in Listed(d) : g = h

\* A snapshot that has the goals and tasks of the store, and those yet to be restored.
Covers(d, st) ==
  /\ \A g \in ByCategory(st, "goal") : g \in DOMAIN d.goal /\ d.goal[g] = (g \in CurrentGoals(st))
  /\ \A t \in ByCategory(st, "task") : /\ t \in DOMAIN d.task
                                       /\ d.task[t].status \in st.entries[t].tags
                                       /\ d.task[t].goal \in st.entries[t].tags
Includes(d, rest) ==
  /\ \A g \in DOMAIN rest.goal : g \in DOMAIN d.goal /\ d.goal[g] = rest.goal[g]
  /\ \A t \in DOMAIN rest.task : t \in DOMAIN d.task /\ d.task[t] = rest.task[t]
Records(d) == Covers(d, mem) /\ \A s \in Saver : step[s] = "restore" => Includes(d, todo[s])

\* The last snapshot taken is being written, or is in the file unless that save failed.
Disk == IF goals = Nowhere THEN NoSnapshot ELSE contents[goals]
SavedInv ==
  (raced = {} /\ ~overlapped /\ \A s \in Saver : step[s] # "save") =>
    /\ \A s \in Saver : Saving(s) => Records(copy[s])
    /\ (~failed /\ \A s \in Saver : ~Saving(s)) => Records(Disk)

GoalInv ==
  /\ StoreOK(mem) /\ EntriesShaped(mem) /\ GoalTypeOK /\ FileInv
  /\ FreshUnknown /\ OneCurrentInv /\ SavedInv

-----------------------------------------------------------------------------
(* Bytes of a set of entries *)

\* The bytes of an entry, one by one.
Spread(st, keys) == UNION {{k} \X (1..st.entries[k].size) : k \in keys}
SizesKnown(st, keys) == IsFiniteSet(keys) /\ \A k \in keys : st.entries[k].size \in Nat

LEMMA SpreadMember ==
  ASSUME NEW st, NEW keys, NEW x
  PROVE  x \in Spread(st, keys) <=>
           \E k \in keys : \E i \in 1..st.entries[k].size : x = <<k, i>>
  BY DEF Spread

LEMMA SpreadFinite ==
  ASSUME NEW st, NEW keys, SizesKnown(st, keys)
  PROVE  IsFiniteSet(Spread(st, keys)) /\ Bytes(st, keys) \in Nat
<1> DEFINE Part(k) == {k} \X (1..st.entries[k].size)
           parts == {Part(k) : k \in keys}
           f == [k \in keys |-> Part(k)]
<1>1. f \in Surjection(keys, parts)
  BY DEF Surjection
<1>2. IsFiniteSet(parts)
  <2> HIDE DEF f, parts
  <2> QED BY <1>1, FS_Surjection DEF SizesKnown
<1>3. ASSUME NEW k \in keys PROVE IsFiniteSet(Part(k))
  <2>1. IsFiniteSet(1..st.entries[k].size)
    BY FS_Interval, 1 \in Int, st.entries[k].size \in Int DEF SizesKnown
  <2>2. IsFiniteSet({k})
    BY FS_Singleton
  <2> QED BY <2>1, <2>2, FS_Product
<1>4. IsFiniteSet(UNION parts)
  <2>1. \A T \in parts : IsFiniteSet(T)
    BY <1>3
  <2> HIDE DEF parts
  <2> QED BY <1>2, <2>1, FS_UNION
<1> QED
  BY <1>4, FS_CardinalityType DEF Spread, Bytes

\* Entries apart take their bytes apart.
LEMMA BytesSplit ==
  ASSUME NEW st, NEW keys, SizesKnown(st, keys), NEW part \in SUBSET keys
  PROVE  /\ Bytes(st, part) \in Nat /\ Bytes(st, keys \ part) \in Nat
         /\ Bytes(st, keys) = Bytes(st, part) + Bytes(st, keys \ part)
<1> DEFINE P == Spread(st, part)
           Q == Spread(st, keys \ part)
<1>1. SizesKnown(st, part) /\ SizesKnown(st, keys \ part)
  BY FS_Subset, keys \ part \in SUBSET keys DEF SizesKnown
<1>2. IsFiniteSet(P) /\ IsFiniteSet(Q) /\ Bytes(st, part) \in Nat /\ Bytes(st, keys \ part) \in Nat
  BY <1>1, SpreadFinite
<1>3. Spread(st, keys) = P \cup Q
  <2>1. \A x : x \in Spread(st, keys) <=> x \in P \cup Q
    <3> TAKE x
    <3> QED BY SpreadMember
  <2> HIDE DEF P, Q
  <2> QED BY <2>1
<1>4. P \cap Q = {}
  <2> SUFFICES ASSUME NEW x, x \in P, x \in Q PROVE FALSE
    BY Zenon
  <2>1. PICK k \in part : \E i \in 1..st.entries[k].size : x = <<k, i>>
    BY SpreadMember
  <2>2. PICK l \in keys \ part : \E i \in 1..st.entries[l].size : x = <<l, i>>
    BY SpreadMember
  <2> QED BY <2>1, <2>2
<1>5. Cardinality(P \cup Q) = Cardinality(P) + Cardinality(Q)
  <2> HIDE DEF P, Q
  <2>1. Cardinality(P \cup Q) = Cardinality(P) + Cardinality(Q) - Cardinality(P \cap Q)
    BY <1>2, FS_Union
  <2>2. Cardinality(P \cap Q) = 0
    BY <1>4, FS_EmptySet
  <2>3. Cardinality(P) \in Nat /\ Cardinality(Q) \in Nat
    BY <1>2, FS_CardinalityType
  <2> QED BY <2>1, <2>2, <2>3
<1> QED
  BY <1>2, <1>3, <1>5 DEF Spread, Bytes

LEMMA BytesOne ==
  ASSUME NEW st, NEW k, st.entries[k].size \in Nat
  PROVE  Bytes(st, {k}) = st.entries[k].size
<1> DEFINE n == st.entries[k].size
           f == [i \in 1..n |-> <<k, i>>]
<1>1. IsFiniteSet(1..n) /\ Cardinality(1..n) = n
  <2>1. n \in Nat
    OBVIOUS
  <2> HIDE DEF n
  <2>2. 1 \in Int /\ n \in Int
    BY <2>1
  <2>3. /\ IsFiniteSet(1..n)
        /\ Cardinality(1..n) = IF 1 > n THEN 0 ELSE n - 1 + 1
    BY ONLY <2>2, FS_Interval
  <2> QED BY <2>1, <2>3
<1>2. Spread(st, {k}) = {<<k, i>> : i \in 1..n}
  BY DEF Spread
<1>3. f \in Bijection(1..n, Spread(st, {k}))
  <2>1. f \in [1..n -> Spread(st, {k})]
    BY <1>2
  <2>2. \A i, j \in 1..n : f[i] = f[j] => i = j
    OBVIOUS
  <2>3. \A x \in Spread(st, {k}) : \E i \in 1..n : f[i] = x
    BY <1>2
  <2> HIDE DEF f
  <2> QED BY <2>1, <2>2, <2>3 DEF Bijection, Injection, Surjection, IsInjective
<1>4. Cardinality(Spread(st, {k})) = Cardinality(1..n)
  <2> HIDE DEF f, n
  <2> QED BY <1>1, <1>3, FS_Bijection DEF ExistsBijection
<1> QED BY <1>1, <1>4 DEF Spread, Bytes

\* Bytes are counted by size only.
LEMMA BytesSame ==
  ASSUME NEW st, NEW s, NEW keys, \A k \in keys : s.entries[k].size = st.entries[k].size
  PROVE  Bytes(s, keys) = Bytes(st, keys)
<1>1. \A x : x \in Spread(s, keys) <=> x \in Spread(st, keys)
  BY SpreadMember
<1>2. Spread(s, keys) = Spread(st, keys)
  BY <1>1
<1> QED BY <1>2 DEF Spread, Bytes

LEMMA BytesNone == ASSUME NEW st PROVE Bytes(st, {}) = 0
<1>1. Spread(st, {}) = {}
  BY DEF Spread
<1> QED BY <1>1, FS_EmptySet DEF Spread, Bytes

-----------------------------------------------------------------------------
(* remove_internal, and the insertion of store_with_options *)

\* Any part of the store's entries has known sizes.
LEMMA StoreSizes ==
  ASSUME NEW st, StoreOK(st), NEW keys \in SUBSET Keys(st)
  PROVE  SizesKnown(st, keys)
<1>1. IsFiniteSet(keys)
  BY FS_Subset DEF StoreOK
<1> QED BY <1>1 DEF SizesKnown, StoreOK, StoreAccounts, Entry

\* remove_internal leaves the books exact and the other entries alone.
LEMMA RemovedOK ==
  ASSUME NEW st, StoreOK(st), NEW keys
  PROVE  /\ StoreOK(Removed(st, keys))
         /\ Keys(Removed(st, keys)) = Keys(st) \ keys
         /\ \A k \in Keys(st) \ keys : Removed(st, keys).entries[k] = st.entries[k]
         /\ Removed(st, keys).bytes = Bytes(st, Keys(st) \ keys)
         /\ Removed(st, keys).bytes <= st.bytes
         /\ \A c \in Category :
              /\ Removed(st, keys).catBytes[c] = Bytes(st, OfCategory(st, Keys(st) \ keys, c))
              /\ Removed(st, keys).catBytes[c] <= st.catBytes[c]
<1> DEFINE gone == keys \cap Keys(st)
           stay == Keys(st) \ gone
           r == Removed(st, keys)
<1>1. /\ r.entries = [k \in stay |-> st.entries[k]]
      /\ r.bytes = SaturatingSub(st.bytes, Bytes(st, gone))
      /\ r.catBytes = [c \in Category |-> SaturatingSub(st.catBytes[c], Bytes(st, OfCategory(st, gone, c)))]
      /\ r.byCat = [c \in Category |-> st.byCat[c] \ OfCategory(st, gone, c)]
      /\ r.byTag = [t \in Tag |-> st.byTag[t] \ WithTag(st, gone, t)]
      /\ r = [entries |-> r.entries, bytes |-> r.bytes, catBytes |-> r.catBytes,
              byCat |-> r.byCat, byTag |-> r.byTag]
  BY DEF Removed
<1>2. Keys(r) = stay /\ Keys(st) \ keys = stay /\ \A k \in stay : r.entries[k] = st.entries[k]
  BY <1>1 DEF Keys
<1> HIDE DEF r
<1>3. \A k \in Keys(st) : st.entries[k] \in Entry
  BY DEF StoreOK, StoreAccounts
<1>4. IsFiniteSet(Keys(r)) /\ Cardinality(Keys(r)) <= Cardinality(Keys(st))
  BY <1>2, FS_Subset DEF StoreOK
<1>5. \A part \in SUBSET stay : Bytes(r, part) = Bytes(st, part)
  <2> TAKE part \in SUBSET stay
  <2>1. \A k \in part : r.entries[k].size = st.entries[k].size
    BY <1>2
  <2> QED BY <2>1, BytesSame
<1>6. r.bytes \in Nat /\ r.bytes = Bytes(r, stay) /\ r.bytes <= st.bytes
  <2>1. /\ Bytes(st, gone) \in Nat /\ Bytes(st, stay) \in Nat
        /\ Bytes(st, Keys(st)) = Bytes(st, gone) + Bytes(st, stay)
    <3>1. SizesKnown(st, Keys(st)) /\ gone \in SUBSET Keys(st)
      BY StoreSizes
    <3> HIDE DEF gone
    <3> QED BY <3>1, BytesSplit
  <2>2. st.bytes = Bytes(st, Keys(st))
    BY DEF StoreOK, StoreAccounts
  <2>3. r.bytes = Bytes(st, stay)
    BY <1>1, <2>1, <2>2 DEF SaturatingSub
  <2> QED BY <2>1, <2>2, <2>3, <1>5
<1>7. ASSUME NEW c \in Category
      PROVE  /\ r.byCat[c] = {k \in Keys(r) : r.entries[k].cat = c}
             /\ r.catBytes[c] \in Nat /\ r.catBytes[c] = Bytes(r, r.byCat[c])
             /\ r.catBytes[c] <= st.catBytes[c]
             /\ r.catBytes[c] = Bytes(st, OfCategory(st, Keys(st) \ keys, c))
  <2> DEFINE all == OfCategory(st, Keys(st), c)
             out == OfCategory(st, gone, c)
  <2>1. st.byCat[c] = all /\ st.catBytes[c] = Bytes(st, all)
    BY DEF StoreOK, StoreAccounts, OfCategory
  <2>2. r.byCat[c] = all \ out /\ r.byCat[c] \in SUBSET stay
    BY <1>1, <2>1 DEF OfCategory
  <2>3. all \ out = {k \in Keys(r) : r.entries[k].cat = c}
    BY <1>2 DEF OfCategory
  <2>4. /\ Bytes(st, out) \in Nat /\ Bytes(st, all \ out) \in Nat
        /\ Bytes(st, all) = Bytes(st, out) + Bytes(st, all \ out)
    <3>1. all \in SUBSET Keys(st) /\ out \in SUBSET all
      BY DEF OfCategory
    <3>2. SizesKnown(st, all)
      BY <3>1, StoreSizes
    <3> HIDE DEF all, out
    <3> QED BY <3>1, <3>2, BytesSplit
  <2>5. r.catBytes[c] = SaturatingSub(st.catBytes[c], Bytes(st, out))
    BY <1>1
  <2>6. r.catBytes[c] = Bytes(st, all \ out)
    BY <2>1, <2>4, <2>5 DEF SaturatingSub
  <2>7. Bytes(r, r.byCat[c]) = Bytes(st, all \ out)
    BY <2>2, <1>5
  <2>8. r.catBytes[c] \in Nat /\ r.catBytes[c] <= st.catBytes[c]
    <3> HIDE DEF all, out
    <3> QED BY <2>1, <2>4, <2>6
  <2>9. all \ out = OfCategory(st, Keys(st) \ keys, c)
    BY DEF OfCategory
  <2> QED BY <2>2, <2>3, <2>6, <2>7, <2>8, <2>9
<1>8. ASSUME NEW t \in Tag
      PROVE  r.byTag[t] = {k \in Keys(r) : t \in r.entries[k].tags}
  <2>1. st.byTag[t] = WithTag(st, Keys(st), t)
    BY DEF StoreOK, StoreAccounts, WithTag
  <2>2. r.byTag[t] = st.byTag[t] \ WithTag(st, gone, t)
    BY <1>1
  <2> QED BY <1>2, <2>1, <2>2 DEF WithTag
<1>9. StoreTypeOK(r)
  <2>1. Keys(r) \subseteq Key /\ r.entries \in [Keys(r) -> Entry]
    BY <1>1, <1>2, <1>3 DEF StoreOK, StoreTypeOK
  <2>2. r.catBytes \in [Category -> Nat]
    BY <1>1, <1>7
  <2>3. r.byCat \in [Category -> SUBSET Key] /\ r.byTag \in [Tag -> SUBSET Key]
    BY <1>1 DEF StoreOK, StoreTypeOK
  <2> QED BY <1>1, <1>6, <2>1, <2>2, <2>3 DEF StoreTypeOK
<1>10. StoreAccounts(r)
  <2>1. \A k \in Keys(r) : r.entries[k] \in Entry
    BY <1>2, <1>3
  <2>2. r.bytes = Bytes(r, Keys(r)) /\ r.bytes <= ByteBudget
    BY <1>2, <1>6, MemoryAssumption DEF StoreOK, StoreAccounts, StoreTypeOK
  <2>3. \A c \in Category : r.catBytes[c] <= CategoryBudget[c]
    BY <1>7, MemoryAssumption DEF StoreOK, StoreAccounts, StoreTypeOK
  <2>4. Cardinality(Keys(r)) <= MaxEntries
    <3>1. /\ Cardinality(Keys(st)) <= MaxEntries
          /\ Cardinality(Keys(st)) \in Nat /\ Cardinality(Keys(r)) \in Nat
      BY <1>4, FS_CardinalityType DEF StoreOK, StoreAccounts
    <3> QED BY <3>1, <1>4, MemoryAssumption
  <2> QED BY <1>7, <1>8, <2>1, <2>2, <2>3, <2>4 DEF StoreAccounts
<1>11. r.bytes = Bytes(st, Keys(st) \ keys)
  BY <1>2, <1>5, <1>6
<1> QED
  BY <1>2, <1>4, <1>6, <1>7, <1>9, <1>10, <1>11 DEF StoreOK, r

\* A new entry that fits.
LEMMA InsertedOK ==
  ASSUME NEW st, StoreOK(st), NEW key \in Key \ Keys(st), NEW e \in Entry, Fits(st, e)
  PROVE  /\ StoreOK(Inserted(st, key, e))
         /\ Keys(Inserted(st, key, e)) = Keys(st) \cup {key}
         /\ Inserted(st, key, e).entries[key] = e
         /\ \A k \in Keys(st) : Inserted(st, key, e).entries[k] = st.entries[k]
<1> DEFINE r == Inserted(st, key, e)
<1>0. e.size \in Nat /\ e.cat \in Category /\ e.tags \subseteq Tag
  BY DEF Entry
<1>1. /\ r.entries = [k \in Keys(st) \cup {key} |-> IF k = key THEN e ELSE st.entries[k]]
      /\ r.bytes = st.bytes + e.size
      /\ r.catBytes = [st.catBytes EXCEPT ![e.cat] = @ + e.size]
      /\ r.byCat = [st.byCat EXCEPT ![e.cat] = @ \cup {key}]
      /\ r.byTag = [t \in Tag |-> IF t \in e.tags THEN st.byTag[t] \cup {key} ELSE st.byTag[t]]
      /\ r = [entries |-> r.entries, bytes |-> r.bytes, catBytes |-> r.catBytes,
              byCat |-> r.byCat, byTag |-> r.byTag]
  BY DEF Inserted
<1>2. /\ Keys(r) = Keys(st) \cup {key} /\ r.entries[key] = e
      /\ \A k \in Keys(st) : r.entries[k] = st.entries[k]
  BY <1>1 DEF Keys
<1> HIDE DEF r
<1>3. \A k \in Keys(r) : r.entries[k] \in Entry
  BY <1>2 DEF StoreOK, StoreAccounts
<1>4. /\ IsFiniteSet(Keys(r)) /\ Cardinality(Keys(r)) = Cardinality(Keys(st)) + 1
      /\ Cardinality(Keys(st)) \in Nat
  BY <1>2, FS_AddElement, FS_CardinalityType DEF StoreOK
<1>5. ASSUME NEW part \in SUBSET Keys(st)
      PROVE  /\ Bytes(st, part) \in Nat /\ Bytes(r, part) = Bytes(st, part)
             /\ Bytes(r, part \cup {key}) = Bytes(st, part) + e.size
  <2>1. Bytes(r, part) = Bytes(st, part)
    <3>1. \A k \in part : r.entries[k].size = st.entries[k].size
      BY <1>2
    <3> QED BY <3>1, BytesSame
  <2>2. SizesKnown(r, part \cup {key})
    <3>1. IsFiniteSet(part \cup {key})
      BY FS_Subset, FS_AddElement DEF StoreOK
    <3> QED BY <3>1, <1>2, <1>3 DEF SizesKnown, Entry
  <2>3. /\ Bytes(r, part) \in Nat
        /\ Bytes(r, part \cup {key}) = Bytes(r, {key}) + Bytes(r, (part \cup {key}) \ {key})
    <3>1. (part \cup {key}) \ {key} = part
      OBVIOUS
    <3>2. {key} \in SUBSET (part \cup {key})
      OBVIOUS
    <3>3. /\ Bytes(r, (part \cup {key}) \ {key}) \in Nat
          /\ Bytes(r, part \cup {key}) = Bytes(r, {key}) + Bytes(r, (part \cup {key}) \ {key})
      <4> DEFINE P == part \cup {key}
      <4> HIDE DEF P
      <4> QED BY <2>2, <3>2, BytesSplit DEF P
    <3> QED BY <3>1, <3>3
  <2>4. (part \cup {key}) \ {key} = part
    OBVIOUS
  <2>5. Bytes(r, {key}) = e.size
    BY <1>0, <1>2, BytesOne
  <2>6. Bytes(r, part \cup {key}) = e.size + Bytes(r, part)
    BY <2>3, <2>4, <2>5
  <2> QED BY <1>0, <2>1, <2>3, <2>6
<1>6. r.bytes \in Nat /\ r.bytes = Bytes(r, Keys(r)) /\ r.bytes <= ByteBudget
  <2>1. st.bytes = Bytes(st, Keys(st)) /\ st.bytes + e.size <= ByteBudget
    BY DEF StoreOK, StoreAccounts, Fits
  <2>2. Bytes(st, Keys(st)) \in Nat /\ Bytes(r, Keys(st) \cup {key}) = Bytes(st, Keys(st)) + e.size
    BY <1>5
  <2> QED BY <1>0, <1>1, <1>2, <2>1, <2>2
<1>7. ASSUME NEW c \in Category
      PROVE  /\ r.byCat[c] = {k \in Keys(r) : r.entries[k].cat = c}
             /\ r.catBytes[c] \in Nat /\ r.catBytes[c] = Bytes(r, r.byCat[c])
             /\ r.catBytes[c] <= CategoryBudget[c]
  <2>1. /\ st.byCat[c] = {k \in Keys(st) : st.entries[k].cat = c}
        /\ st.catBytes[c] = Bytes(st, st.byCat[c]) /\ st.catBytes[c] <= CategoryBudget[c]
        /\ st.catBytes \in [Category -> Nat] /\ st.byCat \in [Category -> SUBSET Key]
    BY DEF StoreOK, StoreAccounts, StoreTypeOK
  <2>2. st.byCat[c] \in SUBSET Keys(st)
    BY <2>1
  <2>3. CASE c = e.cat
    <3>1. r.byCat[c] = st.byCat[c] \cup {key} /\ r.catBytes[c] = st.catBytes[c] + e.size
      BY <1>1, <2>1, <2>3
    <3>2. r.byCat[c] = {k \in Keys(r) : r.entries[k].cat = c}
      BY <1>2, <2>1, <2>3, <3>1
    <3>3. st.catBytes[c] + e.size <= CategoryBudget[c]
      BY <2>3 DEF Fits
    <3>4. Bytes(r, st.byCat[c] \cup {key}) = Bytes(st, st.byCat[c]) + e.size
      BY <1>5, <2>2
    <3> QED BY <1>0, <2>1, <3>1, <3>2, <3>3, <3>4
  <2>4. CASE c # e.cat
    <3>1. r.byCat[c] = st.byCat[c] /\ r.catBytes[c] = st.catBytes[c]
      BY <1>1, <2>1, <2>4
    <3>2. r.byCat[c] = {k \in Keys(r) : r.entries[k].cat = c}
      BY <1>2, <2>1, <2>4, <3>1
    <3>3. Bytes(r, st.byCat[c]) = Bytes(st, st.byCat[c])
      BY <1>5, <2>2
    <3> QED BY <2>1, <3>1, <3>2, <3>3
  <2> QED BY <2>3, <2>4
<1>8. ASSUME NEW t \in Tag
      PROVE  r.byTag[t] = {k \in Keys(r) : t \in r.entries[k].tags}
  <2>1. st.byTag[t] = {k \in Keys(st) : t \in st.entries[k].tags}
    BY DEF StoreOK, StoreAccounts
  <2> QED BY <1>1, <1>2, <2>1
<1>9. StoreTypeOK(r)
  <2>1. Keys(r) \subseteq Key /\ r.entries \in [Keys(r) -> Entry]
    <3>1. Keys(r) \subseteq Key
      BY <1>2 DEF StoreOK, StoreTypeOK
    <3>2. r.entries = [k \in Keys(r) |-> r.entries[k]]
      BY <1>1, <1>2
    <3> QED BY <3>1, <3>2, <1>3
  <2>2. r.catBytes \in [Category -> Nat]
    BY <1>1, <1>7 DEF StoreOK, StoreTypeOK
  <2>3. r.byCat \in [Category -> SUBSET Key]
    <3>1. st.byCat \in [Category -> SUBSET Key]
      BY DEF StoreOK, StoreTypeOK
    <3> QED BY <1>0, <1>1, <3>1
  <2>4. r.byTag \in [Tag -> SUBSET Key]
    <3>1. st.byTag \in [Tag -> SUBSET Key]
      BY DEF StoreOK, StoreTypeOK
    <3>2. \A t \in Tag : st.byTag[t] \subseteq Key /\ st.byTag[t] \cup {key} \subseteq Key
      BY <3>1
    <3>3. \A t \in Tag : r.byTag[t] \subseteq Key
      BY <1>1, <3>2
    <3> QED BY <1>1, <3>3
  <2> QED BY <1>1, <1>6, <2>1, <2>2, <2>3, <2>4 DEF StoreTypeOK
<1>10. Cardinality(Keys(r)) <= MaxEntries
  BY <1>4, MemoryAssumption DEF Fits
<1>11. StoreAccounts(r)
  BY <1>3, <1>6, <1>7, <1>8, <1>10 DEF StoreAccounts
<1> QED
  BY <1>2, <1>4, <1>9, <1>11 DEF StoreOK, r

-----------------------------------------------------------------------------
(* store_with_options *)

\* What fits goes on fitting when entries are removed.
LEMMA FitsMore ==
  ASSUME NEW st, StoreOK(st), NEW e \in Entry, Fits(st, e), NEW keys
  PROVE  Fits(Removed(st, keys), e)
<1> DEFINE r == Removed(st, keys)
<1>1. /\ StoreOK(r) /\ Keys(r) = Keys(st) \ keys
      /\ r.bytes <= st.bytes /\ \A c \in Category : r.catBytes[c] <= st.catBytes[c]
  BY RemovedOK
<1>2. Cardinality(Keys(r)) <= Cardinality(Keys(st))
      /\ Cardinality(Keys(r)) \in Nat /\ Cardinality(Keys(st)) \in Nat
  BY <1>1, FS_Subset, FS_CardinalityType DEF StoreOK
<1>3. /\ r.bytes \in Nat /\ st.bytes \in Nat /\ e.size \in Nat /\ e.cat \in Category
      /\ \A c \in Category : r.catBytes[c] \in Nat /\ st.catBytes[c] \in Nat
  BY <1>1 DEF StoreOK, StoreTypeOK, Entry
<1> HIDE DEF r
<1>4. r.catBytes[e.cat] + e.size <= CategoryBudget[e.cat]
  BY <1>1, <1>3, MemoryAssumption DEF Fits
<1> QED
  BY <1>1, <1>2, <1>3, <1>4, MemoryAssumption DEF Fits, r

\* store_with_options keeps the books exact.  It touches no entry but the one stored,
\* which loses its old value or keeps it, and those that are evicted.
LEMMA StoredOK ==
  ASSUME NEW st, StoreOK(st), NEW key \in Key, NEW e \in Entry, NEW s \in Stored(st, key, e)
  PROVE  /\ StoreOK(s) /\ Keys(s) \subseteq Keys(st) \cup {key}
         /\ \A k \in Keys(s) \ {key} : s.entries[k] = st.entries[k]
         /\ key \in Keys(s) => s.entries[key] = e \/ (key \in Keys(st) /\ s.entries[key] = st.entries[key])
         /\ \A k \in Keys(st) \ Keys(s) : k = key \/ k \in Evictable(st)
<1>1. CASE e.size > CategoryBudget[e.cat] \/ e.size > ByteBudget
  BY <1>1 DEF Stored
<1>2. CASE ~(e.size > CategoryBudget[e.cat] \/ e.size > ByteBudget)
  <2> DEFINE rest == Removed(st, {key})
  <2>1. PICK gone \in Evicted(rest, e) :
          s = IF Fits(Removed(st, {key} \cup gone), e)
              THEN Inserted(Removed(st, {key} \cup gone), key, e) ELSE Removed(st, {key} \cup gone)
    BY <1>2 DEF Stored
  <2> DEFINE left == Removed(st, {key} \cup gone)
  <2>2. /\ Keys(rest) = Keys(st) \ {key}
        /\ \A k \in Keys(st) \ {key} : rest.entries[k] = st.entries[k]
    BY RemovedOK
  <2>3. gone \subseteq Evictable(st)
    <3>1. gone \subseteq Evictable(rest)
      BY DEF Evicted
    <3> QED BY <2>2, <3>1 DEF Evictable
  <2>4. /\ StoreOK(left) /\ Keys(left) = Keys(st) \ ({key} \cup gone)
        /\ \A k \in Keys(st) \ ({key} \cup gone) : left.entries[k] = st.entries[k]
    BY RemovedOK
  <2>5. CASE Fits(left, e)
    <3>1. s = Inserted(left, key, e) /\ key \in Key \ Keys(left)
      BY <2>1, <2>4, <2>5
    <3> HIDE DEF left
    <3>2. /\ StoreOK(s) /\ Keys(s) = Keys(left) \cup {key} /\ s.entries[key] = e
          /\ \A k \in Keys(left) : s.entries[k] = left.entries[k]
      BY <2>4, <2>5, <3>1, InsertedOK
    <3> QED BY <2>3, <2>4, <3>2
  <2>6. CASE ~Fits(left, e)
    <3>1. s = left
      BY <2>1, <2>6
    <3> QED BY <2>3, <2>4, <3>1
  <2> QED BY <2>5, <2>6
<1> QED BY <1>1, <1>2

\* An entry put back with its own size and category fits: nothing is evicted.
LEMMA PutBack ==
  ASSUME NEW st, StoreOK(st), NEW key \in Keys(st), NEW e \in Entry,
         e.size = st.entries[key].size, e.cat = st.entries[key].cat
  PROVE  /\ Stored(st, key, e) = {Inserted(Removed(st, {key}), key, e)}
         /\ Fits(Removed(st, {key}), e)
<1> DEFINE r == Removed(st, {key})
           all == OfCategory(st, Keys(st), e.cat)
<1>1. /\ StoreOK(r) /\ Keys(r) = Keys(st) \ {key}
      /\ r.bytes = Bytes(st, Keys(st) \ {key})
      /\ \A c \in Category : r.catBytes[c] = Bytes(st, OfCategory(st, Keys(st) \ {key}, c))
  <2> DEFINE keys == {key}
  <2> HIDE DEF keys
  <2>1. StoreOK(Removed(st, keys)) /\ Keys(Removed(st, keys)) = Keys(st) \ keys
    BY RemovedOK
  <2>2. Removed(st, keys).bytes = Bytes(st, Keys(st) \ keys)
    BY RemovedOK
  <2>3. \A c \in Category :
          /\ Removed(st, keys).catBytes[c] = Bytes(st, OfCategory(st, Keys(st) \ keys, c))
          /\ Removed(st, keys).catBytes[c] <= st.catBytes[c]
    BY RemovedOK
  <2> QED BY <2>1, <2>2, <2>3 DEF keys
<1>2. e.size \in Nat /\ e.cat \in Category
  BY DEF Entry
<1>3. Bytes(st, {key}) = e.size
  BY <1>2, BytesOne
<1>4. r.bytes \in Nat /\ r.bytes + e.size = st.bytes
  <2>1. SizesKnown(st, Keys(st)) /\ {key} \in SUBSET Keys(st)
    BY StoreSizes
  <2>2. /\ Bytes(st, Keys(st) \ {key}) \in Nat
        /\ Bytes(st, Keys(st)) = Bytes(st, {key}) + Bytes(st, Keys(st) \ {key})
    BY <2>1, BytesSplit
  <2>3. st.bytes = Bytes(st, Keys(st))
    BY DEF StoreOK, StoreAccounts
  <2> QED BY <1>1, <1>2, <1>3, <2>2, <2>3
<1>5. r.catBytes[e.cat] \in Nat /\ r.catBytes[e.cat] + e.size = st.catBytes[e.cat]
  <2>1. all \in SUBSET Keys(st) /\ {key} \in SUBSET all
    BY DEF OfCategory
  <2>2. SizesKnown(st, all)
    BY <2>1, StoreSizes
  <2>3. OfCategory(st, Keys(st) \ {key}, e.cat) = all \ {key}
    BY DEF OfCategory
  <2>4. st.byCat[e.cat] = all /\ st.catBytes[e.cat] = Bytes(st, st.byCat[e.cat])
    BY <1>2 DEF StoreOK, StoreAccounts, OfCategory
  <2> HIDE DEF all
  <2>5. /\ Bytes(st, all \ {key}) \in Nat
        /\ Bytes(st, all) = Bytes(st, {key}) + Bytes(st, all \ {key})
    BY <2>1, <2>2, BytesSplit
  <2>6. r.catBytes[e.cat] = Bytes(st, all \ {key})
    BY <1>1, <1>2, <2>3
  <2> HIDE DEF r
  <2> QED BY <1>2, <1>3, <2>4, <2>5, <2>6
<1>6. st.bytes <= ByteBudget /\ st.catBytes[e.cat] <= CategoryBudget[e.cat]
  BY <1>2 DEF StoreOK, StoreAccounts
<1>7. Cardinality(Keys(r)) < MaxEntries
  <2>1. IsFiniteSet(Keys(st)) /\ Cardinality(Keys(st)) <= MaxEntries
    BY DEF StoreOK, StoreAccounts
  <2>2. Cardinality(Keys(st) \ {key}) = Cardinality(Keys(st)) - 1 /\ Cardinality(Keys(st)) \in Nat
    BY <2>1, FS_RemoveElement, FS_CardinalityType
  <2>3. Cardinality(Keys(r)) = Cardinality(Keys(st)) - 1
    BY <1>1, <2>2
  <2> HIDE DEF r
  <2> QED BY <2>1, <2>2, <2>3, MemoryAssumption
<1> HIDE DEF r
<1>8. Fits(r, e)
  BY <1>4, <1>5, <1>6, <1>7 DEF Fits
<1>9. ~(e.size > CategoryBudget[e.cat] \/ e.size > ByteBudget)
  BY <1>2, <1>4, <1>5, <1>6, MemoryAssumption
<1>10. Evicted(r, e) = {{}}
  <2>1. \A keys : Fits(Removed(r, keys), e)
    BY <1>1, <1>8, FitsMore
  <2>2. {} \in Evicted(r, e)
    BY <2>1 DEF Evicted
  <2>3. \A gone \in Evicted(r, e) : gone = {}
    BY <2>1 DEF Evicted
  <2> QED BY <2>2, <2>3
<1>11. Stored(st, key, e) =
         {IF Fits(Removed(st, {key} \cup gone), e)
          THEN Inserted(Removed(st, {key} \cup gone), key, e)
          ELSE Removed(st, {key} \cup gone) : gone \in {{}}}
  BY <1>9, <1>10 DEF Stored, r
<1>12. {key} \cup {} = {key}
  OBVIOUS
<1> QED BY <1>8, <1>11, <1>12 DEF r

-----------------------------------------------------------------------------
(* Goals, tasks, status and captures as entries *)

\* The four kinds of keys.
LEMMA KeyKinds ==
  /\ GoalId \subseteq Key /\ TaskId \subseteq Key /\ CaptureId \subseteq Key /\ StatusKey \in Key
  /\ \A k \in Key : k \in GoalId \/ k \in TaskId \/ k \in CaptureId \/ k = StatusKey
  /\ \A k \in GoalId : k \notin TaskId /\ k \notin CaptureId /\ k # StatusKey
  /\ \A k \in TaskId : k \notin CaptureId /\ k # StatusKey
  /\ StatusKey \notin CaptureId
  BY GoalAssumption

\* The tags of different kinds.
LEMMA TagKinds ==
  /\ \A g \in GoalId \cup {NoGoal} : g \in Tag /\ g # "current" /\ g \notin TaskStatus
  /\ "current" \in Tag /\ "current" \notin TaskStatus
  /\ TaskStatus \subseteq Tag
  BY GoalAssumption DEF TaskStatus

\* What the handlers store are entries.
LEMMA GoalEntryOK ==
  ASSUME NEW g \in GoalId, NEW isCurrent \in BOOLEAN, NEW size \in Width
  PROVE  GoalEntry(g, isCurrent, size) \in Entry /\ Shaped(g, GoalEntry(g, isCurrent, size))
<1>1. GoalEntry(g, isCurrent, size) \in Entry
  BY TagKinds, GoalAssumption DEF GoalEntry, Entry
<1> QED BY <1>1, KeyKinds DEF Shaped

LEMMA TaskEntryOK ==
  ASSUME NEW t \in TaskId, NEW g \in GoalId, NEW status \in TaskStatus, NEW size \in Width
  PROVE  TaskEntry(g, status, size) \in Entry /\ Shaped(t, TaskEntry(g, status, size))
<1>1. TaskEntry(g, status, size) \in Entry
  BY TagKinds, GoalAssumption DEF TaskEntry, Entry
<1> QED BY <1>1, KeyKinds DEF Shaped

LEMMA StatusEntryOK ==
  ASSUME NEW g \in GoalId \cup {NoGoal}, NEW size \in Width, NEW ttl \in {"live", "expired"}
  PROVE  LET e == [StatusEntry(g, size) EXCEPT !.ttl = ttl]
         IN  e \in Entry /\ Shaped(StatusKey, e)
<1> DEFINE e == [StatusEntry(g, size) EXCEPT !.ttl = ttl]
<1>1. e \in Entry
  BY TagKinds, GoalAssumption DEF StatusEntry, Entry
<1> QED BY <1>1, KeyKinds DEF Shaped

LEMMA CaptureEntryOK ==
  ASSUME NEW k \in CaptureId, NEW size \in Width
  PROVE  CaptureEntry(size) \in Entry /\ Shaped(k, CaptureEntry(size))
<1>1. CaptureEntry(size) \in Entry
  BY GoalAssumption DEF CaptureEntry, Entry
<1> QED BY <1>1, KeyKinds DEF Shaped

\* What is read back of a task and of the status.
LEMMA ReadBack ==
  /\ \A g \in GoalId, status \in TaskStatus, size \in Width :
       /\ GoalOf(TaskEntry(g, status, size)) = g
       /\ StatusOf(TaskEntry(g, status, size)) = status
       /\ TaskEntry(g, status, size).tags = {g, status}
  /\ \A g \in GoalId \cup {NoGoal}, size \in Width, ttl \in {"live", "expired"} :
       GoalOf([StatusEntry(g, size) EXCEPT !.ttl = ttl]) = g
<1>1. ASSUME NEW g \in GoalId, NEW status \in TaskStatus, NEW size \in Width
      PROVE  /\ GoalOf(TaskEntry(g, status, size)) = g
             /\ StatusOf(TaskEntry(g, status, size)) = status
             /\ TaskEntry(g, status, size).tags = {g, status}
  <2>1. TaskEntry(g, status, size).tags = {g, status}
    BY DEF TaskEntry
  <2>2. g \notin TaskStatus /\ status \notin GoalId \cup {NoGoal}
    BY TagKinds
  <2>3. (CHOOSE h \in {g, status} : h \in GoalId \cup {NoGoal}) = g
    BY <2>2
  <2>4. (CHOOSE t \in {g, status} : t \in TaskStatus) = status
    BY <2>2
  <2> QED BY <2>1, <2>3, <2>4 DEF GoalOf, StatusOf
<1>2. ASSUME NEW g \in GoalId \cup {NoGoal}, NEW size \in Width, NEW ttl \in {"live", "expired"}
      PROVE  GoalOf([StatusEntry(g, size) EXCEPT !.ttl = ttl]) = g
  <2>1. [StatusEntry(g, size) EXCEPT !.ttl = ttl].tags = {g}
    BY DEF StatusEntry
  <2>2. (CHOOSE h \in {g} : h \in GoalId \cup {NoGoal}) = g
    OBVIOUS
  <2> QED BY <2>1, <2>2 DEF GoalOf
<1> QED BY <1>1, <1>2

\* What kind of entry is pinned, of which category, and can expire.
LEMMA ShapeFacts ==
  ASSUME NEW k \in Key, NEW e, Shaped(k, e)
  PROVE  /\ k \in GoalId <=> e.cat = "goal"
         /\ k \in TaskId <=> e.cat = "task"
         /\ k \in CaptureId <=> e.cat = "context"
         /\ k = StatusKey <=> e.cat = "status"
         /\ e.ttl # "none" => k = StatusKey
         /\ e.pinned => k \in GoalId \cup TaskId
         /\ k \in GoalId => e.pinned /\ k \in e.tags /\ e.size \in Width
         /\ k \in TaskId => e.size \in Width
<1>1. CASE k \in GoalId
  BY <1>1, KeyKinds DEF Shaped, GoalEntry
<1>2. CASE k \in TaskId
  BY <1>2, KeyKinds DEF Shaped, TaskEntry
<1>3. CASE k \in CaptureId
  BY <1>3, KeyKinds DEF Shaped, CaptureEntry
<1>4. CASE k = StatusKey
  <2>1. PICK g \in GoalId \cup {NoGoal}, size \in Width, ttl \in {"live", "expired"} :
          e = [StatusEntry(g, size) EXCEPT !.ttl = ttl]
    BY <1>4 DEF Shaped
  <2>2. e.cat = "status" /\ e.pinned = FALSE
    BY <2>1 DEF StatusEntry
  <2> QED BY <1>4, <2>2, KeyKinds
<1> QED BY <1>1, <1>2, <1>3, <1>4, KeyKinds

\* The queries, by kind of key.
LEMMA CategoryKeys ==
  ASSUME NEW st, StoreOK(st), EntriesShaped(st)
  PROVE  /\ ByCategory(st, "goal") = Keys(st) \cap GoalId
         /\ ByCategory(st, "task") = Keys(st) \cap TaskId
         /\ ByCategory(st, "context") = Keys(st) \cap CaptureId
         /\ ByCategory(st, "status") \subseteq Keys(st) \cap {StatusKey}
         /\ CurrentGoals(st) = {k \in Keys(st) \cap GoalId : "current" \in st.entries[k].tags}
<1>1. \A c \in Category : st.byCat[c] = {k \in Keys(st) : st.entries[k].cat = c}
  BY DEF StoreOK, StoreAccounts
<1>2. Category = {"goal", "task", "status", "context"}
  BY GoalAssumption
<1>3. \A k \in Keys(st) : k \in Key /\ Shaped(k, st.entries[k])
  BY DEF StoreOK, StoreTypeOK, EntriesShaped
<1>4. \A k \in Keys(st) :
        /\ k \in GoalId <=> st.entries[k].cat = "goal"
        /\ k \in TaskId <=> st.entries[k].cat = "task"
        /\ k \in CaptureId <=> st.entries[k].cat = "context"
        /\ k = StatusKey <=> st.entries[k].cat = "status"
        /\ st.entries[k].ttl # "none" => k = StatusKey
  BY <1>3, ShapeFacts
<1>5. ByCategory(st, "goal") = Keys(st) \cap GoalId
  BY <1>1, <1>2, <1>4, KeyKinds DEF ByCategory, Live
<1>6. ByCategory(st, "task") = Keys(st) \cap TaskId
  BY <1>1, <1>2, <1>4, KeyKinds DEF ByCategory, Live
<1>7. ByCategory(st, "context") = Keys(st) \cap CaptureId
  BY <1>1, <1>2, <1>4, KeyKinds DEF ByCategory, Live
<1>8. ByCategory(st, "status") \subseteq Keys(st) \cap {StatusKey}
  BY <1>1, <1>2, <1>4 DEF ByCategory, Live
<1> QED BY <1>5, <1>6, <1>7, <1>8 DEF CurrentGoals

-----------------------------------------------------------------------------
(* Clearing the tag of the current goals: set_goal, set_current *)

\* A goal's entry, and what becomes of it under other tags.
LEMMA GoalRetagged ==
  ASSUME NEW g \in GoalId, NEW e, Shaped(g, e)
  PROVE  /\ e.size \in Width /\ e.cat = "goal"
         /\ "current" \in e.tags => e = GoalEntry(g, TRUE, e.size)
         /\ "current" \notin e.tags => e = GoalEntry(g, FALSE, e.size)
         /\ Retagged(e, e.tags \ {"current"}) = GoalEntry(g, FALSE, e.size)
         /\ Retagged(e, e.tags \cup {"current"}) = GoalEntry(g, TRUE, e.size)
<1>1. PICK c \in BOOLEAN, size \in Width : e = GoalEntry(g, c, size)
  BY DEF Shaped
<1>2. /\ e.cat = "goal" /\ e.size = size
      /\ e.tags = {g} \cup (IF c THEN {"current"} ELSE {})
  BY <1>1 DEF GoalEntry
<1>3. g # "current"
  BY TagKinds
<1>4. e.tags \ {"current"} = {g} \cup {} /\ e.tags \cup {"current"} = {g} \cup {"current"}
  BY <1>2, <1>3
<1>5. /\ GoalEntry(g, FALSE, size) = [cat |-> "goal", tags |-> {g} \cup {}, size |-> size, pinned |-> TRUE, ttl |-> "none"]
      /\ GoalEntry(g, TRUE, size) = [cat |-> "goal", tags |-> {g} \cup {"current"}, size |-> size, pinned |-> TRUE, ttl |-> "none"]
  BY DEF GoalEntry
<1>6. /\ Retagged(e, e.tags \ {"current"}) = GoalEntry(g, FALSE, e.size)
      /\ Retagged(e, e.tags \cup {"current"}) = GoalEntry(g, TRUE, e.size)
  BY <1>2, <1>4, <1>5 DEF Retagged
<1>7. CASE c
  <2>1. e = GoalEntry(g, TRUE, e.size) /\ "current" \in e.tags
    BY <1>1, <1>2, <1>5, <1>7 DEF GoalEntry
  <2> QED BY <2>1, <1>2, <1>6
<1>8. CASE ~c
  <2>1. e = GoalEntry(g, FALSE, e.size) /\ "current" \notin e.tags
    BY <1>1, <1>2, <1>3, <1>5, <1>8 DEF GoalEntry
  <2> QED BY <2>1, <1>2, <1>6
<1> QED BY <1>7, <1>8

\* Nothing but the tag of the current goals changes.
LEMMA UncurrentOK ==
  ASSUME NEW st, StoreOK(st), EntriesShaped(st), NEW u, u = Uncurrent(st)
  PROVE  /\ StoreOK(u) /\ EntriesShaped(u) /\ Keys(u) = Keys(st)
         /\ \A k \in Keys(st) : u.entries[k] = IF k \in CurrentGoals(st)
                                                 THEN GoalEntry(k, FALSE, st.entries[k].size)
                                                 ELSE st.entries[k]
         /\ CurrentGoals(u) = {}
<1> DEFINE old == CurrentGoals(st)
           entry(k) == IF k \in old THEN GoalEntry(k, FALSE, st.entries[k].size) ELSE st.entries[k]
<1>1. /\ Keys(st) \subseteq Key /\ st.entries \in [Keys(st) -> Entry]
      /\ st.byTag \in [Tag -> SUBSET Key]
  BY DEF StoreOK, StoreTypeOK
<1>2. \A k \in Keys(st) : k \in Key /\ Shaped(k, st.entries[k])
  BY <1>1 DEF EntriesShaped
<1>3. \A k \in old : k \in Keys(st) /\ k \in GoalId /\ "current" \in st.entries[k].tags
  BY CategoryKeys
<1>4. ASSUME NEW k \in old
      PROVE  /\ st.entries[k].size \in Width
             /\ st.entries[k] = GoalEntry(k, TRUE, st.entries[k].size)
             /\ Retagged(st.entries[k], st.entries[k].tags \ {"current"}) = entry(k)
  <2>1. k \in GoalId /\ Shaped(k, st.entries[k]) /\ "current" \in st.entries[k].tags
    BY <1>2, <1>3
  <2> QED BY <2>1, GoalRetagged
<1>5. /\ u.entries = [k \in Keys(st) |-> entry(k)]
      /\ u.bytes = st.bytes /\ u.catBytes = st.catBytes /\ u.byCat = st.byCat
      /\ u.byTag = [st.byTag EXCEPT !["current"] = @ \ old]
      /\ u = [entries |-> u.entries, bytes |-> u.bytes, catBytes |-> u.catBytes,
              byCat |-> u.byCat, byTag |-> u.byTag]
  <2> DEFINE en == [k \in Keys(st) |-> IF k \in old
                      THEN Retagged(st.entries[k], st.entries[k].tags \ {"current"}) ELSE st.entries[k]]
             bt == [st.byTag EXCEPT !["current"] = @ \ old]
  <2>1. en = [k \in Keys(st) |-> entry(k)]
    BY <1>4
  <2>2. u = [entries |-> en, bytes |-> st.bytes, catBytes |-> st.catBytes, byCat |-> st.byCat, byTag |-> bt]
    BY DEF Uncurrent
  <2> HIDE DEF en, bt
  <2>3. /\ u.entries = en /\ u.bytes = st.bytes /\ u.catBytes = st.catBytes
        /\ u.byCat = st.byCat /\ u.byTag = bt
    BY <2>2
  <2> QED BY <2>1, <2>2, <2>3 DEF bt
<1>6. Keys(u) = Keys(st) /\ \A k \in Keys(st) : u.entries[k] = entry(k)
  BY <1>5 DEF Keys
<1>7. ASSUME NEW k \in Keys(st)
      PROVE  /\ u.entries[k] \in Entry /\ Shaped(k, u.entries[k])
             /\ u.entries[k].cat = st.entries[k].cat /\ u.entries[k].size = st.entries[k].size
             /\ u.entries[k].tags = IF k \in old THEN st.entries[k].tags \ {"current"}
                                    ELSE st.entries[k].tags
  <2>1. CASE k \in old
    <3>1. u.entries[k] = GoalEntry(k, FALSE, st.entries[k].size)
      BY <1>6, <2>1
    <3>2. u.entries[k] \in Entry /\ Shaped(k, u.entries[k])
      BY <3>1, <2>1, <1>3, <1>4, GoalEntryOK, FALSE \in BOOLEAN
    <3>3. st.entries[k].cat = "goal" /\ st.entries[k].tags = {k} \cup {"current"}
      <4>1. st.entries[k] = GoalEntry(k, TRUE, st.entries[k].size)
        BY <2>1, <1>4
      <4> DEFINE z == st.entries[k].size
      <4> HIDE DEF z
      <4>2. st.entries[k] = [cat |-> "goal", tags |-> {k} \cup {"current"}, size |-> z, pinned |-> TRUE, ttl |-> "none"]
        BY <4>1 DEF GoalEntry, z
      <4> QED BY <4>2
    <3>4. k # "current"
      BY <1>3, <2>1, TagKinds
    <3>5. u.entries[k].cat = "goal" /\ u.entries[k].tags = {k} /\ u.entries[k].size = st.entries[k].size
      BY <3>1 DEF GoalEntry
    <3> QED BY <2>1, <3>2, <3>3, <3>4, <3>5
  <2>2. CASE k \notin old
    BY <2>2, <1>1, <1>2, <1>6
  <2> QED BY <2>1, <2>2
<1>8. \A keys \in SUBSET Keys(st) : Bytes(u, keys) = Bytes(st, keys)
  <2> TAKE keys \in SUBSET Keys(st)
  <2>1. \A k \in keys : u.entries[k].size = st.entries[k].size
    BY <1>7
  <2> QED BY <2>1, BytesSame
<1>9. StoreTypeOK(u)
  <2>1. u.entries \in [Keys(u) -> Entry] /\ Keys(u) \subseteq Key
    <3>1. u.entries = [k \in Keys(u) |-> u.entries[k]]
      BY <1>5, <1>6
    <3> QED BY <1>1, <1>6, <1>7, <3>1
  <2>2. u.byTag \in [Tag -> SUBSET Key]
    BY <1>1, <1>5
  <2> QED BY <1>5, <2>1, <2>2 DEF StoreTypeOK, StoreOK
<1>10. StoreAccounts(u)
  <2>1. \A k \in Keys(u) : u.entries[k] \in Entry
    BY <1>6, <1>7
  <2>2. u.bytes = Bytes(u, Keys(u)) /\ u.bytes <= ByteBudget
    BY <1>5, <1>6, <1>8 DEF StoreOK, StoreAccounts
  <2>3. ASSUME NEW c \in Category
        PROVE  /\ u.byCat[c] = {k \in Keys(u) : u.entries[k].cat = c}
               /\ u.catBytes[c] = Bytes(u, u.byCat[c]) /\ u.catBytes[c] <= CategoryBudget[c]
    <3>1. /\ st.byCat[c] = {k \in Keys(st) : st.entries[k].cat = c}
          /\ st.catBytes[c] = Bytes(st, st.byCat[c]) /\ st.catBytes[c] <= CategoryBudget[c]
      BY DEF StoreOK, StoreAccounts
    <3>2. st.byCat[c] \in SUBSET Keys(st)
      BY <3>1
    <3>3. u.byCat[c] = {k \in Keys(u) : u.entries[k].cat = c}
      <4>1. \A k \in Keys(st) : u.entries[k].cat = st.entries[k].cat
        BY <1>7
      <4>2. u.byCat[c] = st.byCat[c] /\ Keys(u) = Keys(st)
        BY <1>5, <1>6
      <4> QED BY <3>1, <4>1, <4>2
    <3>4. Bytes(u, st.byCat[c]) = Bytes(st, st.byCat[c])
      BY <3>2, <1>8
    <3> QED BY <3>1, <3>3, <3>4, <1>5
  <2>4. ASSUME NEW t \in Tag
        PROVE  u.byTag[t] = {k \in Keys(u) : t \in u.entries[k].tags}
    <3>1. st.byTag[t] = {k \in Keys(st) : t \in st.entries[k].tags}
      BY DEF StoreOK, StoreAccounts
    <3>2. u.byTag[t] = IF t = "current" THEN st.byTag[t] \ old ELSE st.byTag[t]
      BY <1>1, <1>5
    <3>3. \A k \in Keys(st) : t \in u.entries[k].tags <=>
             t \in st.entries[k].tags /\ ~(t = "current" /\ k \in old)
      BY <1>7
    <3> QED BY <3>1, <3>2, <3>3, <1>6
  <2>5. Cardinality(Keys(u)) <= MaxEntries
    BY <1>6 DEF StoreOK, StoreAccounts
  <2> QED BY <2>1, <2>2, <2>3, <2>4, <2>5 DEF StoreAccounts
<1>11. StoreOK(u) /\ EntriesShaped(u)
  BY <1>6, <1>7, <1>9, <1>10 DEF StoreOK, EntriesShaped
<1>12. CurrentGoals(u) = {}
  <2>1. CurrentGoals(u) = {k \in Keys(u) \cap GoalId : "current" \in u.entries[k].tags}
    BY <1>11, CategoryKeys
  <2>2. CurrentGoals(st) = {k \in Keys(st) \cap GoalId : "current" \in st.entries[k].tags}
    BY CategoryKeys
  <2>3. ASSUME NEW k \in CurrentGoals(u) PROVE FALSE
    <3>1. k \in Keys(st) /\ k \in GoalId /\ "current" \in u.entries[k].tags
      BY <1>6, <2>1, <2>3
    <3>2. u.entries[k].tags = IF k \in old THEN st.entries[k].tags \ {"current"} ELSE st.entries[k].tags
      BY <1>7, <3>1
    <3> QED BY <2>2, <3>1, <3>2
  <2> QED BY <2>3
<1> QED
  BY <1>6, <1>11, <1>12

\* A store the handlers' entries go to keeps to their shapes.
LEMMA ShapedStored ==
  ASSUME NEW st, StoreOK(st), EntriesShaped(st), NEW key \in Key, NEW e \in Entry, Shaped(key, e),
         NEW s \in Stored(st, key, e)
  PROVE  StoreOK(s) /\ EntriesShaped(s)
<1>1. /\ StoreOK(s) /\ Keys(s) \subseteq Keys(st) \cup {key}
      /\ \A k \in Keys(s) \ {key} : s.entries[k] = st.entries[k]
      /\ key \in Keys(s) => s.entries[key] = e \/ (key \in Keys(st) /\ s.entries[key] = st.entries[key])
  BY StoredOK
<1>2. ASSUME NEW k \in Keys(s) PROVE Shaped(k, s.entries[k])
  <2>1. CASE k = key
    BY <1>1, <2>1 DEF EntriesShaped
  <2>2. CASE k # key
    BY <1>1, <2>2 DEF EntriesShaped
  <2> QED BY <2>1, <2>2
<1> QED BY <1>1, <1>2 DEF EntriesShaped

-----------------------------------------------------------------------------
(* Snapshots *)

\* What a snapshot is made of.
LEMMA SnapshotParts ==
  ASSUME NEW d \in GoalSnapshots
  PROVE  /\ DOMAIN d.goal \subseteq GoalId /\ \A g \in DOMAIN d.goal : d.goal[g] \in BOOLEAN
         /\ DOMAIN d.task \subseteq TaskId
         /\ \A t \in DOMAIN d.task : /\ d.task[t].goal \in GoalId /\ d.task[t].status \in TaskStatus
                                     /\ d.task[t] = [goal |-> d.task[t].goal, status |-> d.task[t].status]
         /\ d.status \subseteq GoalId \cup {NoGoal}
         /\ d.goal \in [DOMAIN d.goal -> BOOLEAN]
         /\ d.task \in [DOMAIN d.task -> [goal : GoalId, status : TaskStatus]]
         /\ d = [goal |-> d.goal, task |-> d.task, status |-> d.status]
<1>1. /\ d.goal \in UNION {[S -> BOOLEAN] : S \in SUBSET GoalId}
      /\ d.task \in UNION {[S -> [goal : GoalId, status : TaskStatus]] : S \in SUBSET TaskId}
      /\ d.status \subseteq GoalId \cup {NoGoal}
      /\ d = [goal |-> d.goal, task |-> d.task, status |-> d.status]
  BY DEF GoalSnapshots
<1>2. PICK S \in SUBSET GoalId : d.goal \in [S -> BOOLEAN]
  BY <1>1
<1>3. PICK T \in SUBSET TaskId : d.task \in [T -> [goal : GoalId, status : TaskStatus]]
  BY <1>1
<1>4. DOMAIN d.goal = S /\ DOMAIN d.task = T
  BY <1>2, <1>3
<1>5. ASSUME NEW t \in T
      PROVE  /\ d.task[t].goal \in GoalId /\ d.task[t].status \in TaskStatus
             /\ d.task[t] = [goal |-> d.task[t].goal, status |-> d.task[t].status]
  <2>1. d.task[t] \in [goal : GoalId, status : TaskStatus]
    BY <1>3
  <2> QED BY <2>1
<1> QED BY <1>1, <1>2, <1>3, <1>4, <1>5

\* A snapshot without some of the goals and tasks of another.
LEMMA SnapshotMade ==
  ASSUME NEW S \in SUBSET GoalId, NEW goal \in [S -> BOOLEAN],
         NEW T \in SUBSET TaskId, NEW task \in [T -> [goal : GoalId, status : TaskStatus]],
         NEW status \in SUBSET (GoalId \cup {NoGoal})
  PROVE  [goal |-> goal, task |-> task, status |-> status] \in GoalSnapshots
<1>1. goal \in UNION {[R -> BOOLEAN] : R \in SUBSET GoalId}
  OBVIOUS
<1>2. task \in UNION {[R -> [goal : GoalId, status : TaskStatus]] : R \in SUBSET TaskId}
  OBVIOUS
<1> QED BY <1>1, <1>2 DEF GoalSnapshots

LEMMA NoSnapshotOK ==
  /\ NoSnapshot \in GoalSnapshots
  /\ DOMAIN NoSnapshot.goal = {} /\ DOMAIN NoSnapshot.task = {} /\ Listed(NoSnapshot) = {}
<1>1. <<>> \in [{} -> BOOLEAN] /\ <<>> \in [{} -> [goal : GoalId, status : TaskStatus]]
  OBVIOUS
<1>2. {} \in SUBSET GoalId /\ {} \in SUBSET TaskId /\ {} \in SUBSET (GoalId \cup {NoGoal})
  OBVIOUS
<1>3. NoSnapshot \in GoalSnapshots
  BY <1>1, <1>2, SnapshotMade DEF NoSnapshot
<1> QED BY <1>3 DEF NoSnapshot, Listed

\* snapshot_for_save has every goal and every task of the store, as they are.
LEMMA SnapshotOfOK ==
  ASSUME NEW st, StoreOK(st), EntriesShaped(st)
  PROVE  /\ SnapshotOf(st) \in GoalSnapshots
         /\ DOMAIN SnapshotOf(st).goal = Keys(st) \cap GoalId
         /\ DOMAIN SnapshotOf(st).task = Keys(st) \cap TaskId
         /\ Listed(SnapshotOf(st)) = CurrentGoals(st)
         /\ Covers(SnapshotOf(st), st)
         /\ \A d \in GoalSnapshots : Covers(d, st) => Includes(d, SnapshotOf(st))
<1> DEFINE d == SnapshotOf(st)
           G == Keys(st) \cap GoalId
           T == Keys(st) \cap TaskId
           goal == [g \in G |-> "current" \in st.entries[g].tags]
           task == [t \in T |-> [goal |-> GoalOf(st.entries[t]), status |-> StatusOf(st.entries[t])]]
           status == {GoalOf(st.entries[k]) : k \in ByCategory(st, "status")}
<1>1. /\ ByCategory(st, "goal") = G /\ ByCategory(st, "task") = T
      /\ ByCategory(st, "status") \subseteq Keys(st) \cap {StatusKey}
      /\ CurrentGoals(st) = {k \in G : "current" \in st.entries[k].tags}
  BY CategoryKeys
<1>2. d = [goal |-> goal, task |-> task, status |-> status]
  BY <1>1 DEF SnapshotOf
<1>3. ASSUME NEW t \in T
      PROVE  /\ GoalOf(st.entries[t]) \in GoalId /\ StatusOf(st.entries[t]) \in TaskStatus
             /\ st.entries[t].tags = {GoalOf(st.entries[t]), StatusOf(st.entries[t])}
  <2>1. PICK g \in GoalId, s \in TaskStatus, size \in Width : st.entries[t] = TaskEntry(g, s, size)
    BY DEF EntriesShaped, Shaped
  <2> QED BY <2>1, ReadBack
<1>4. ASSUME NEW k \in ByCategory(st, "status") PROVE GoalOf(st.entries[k]) \in GoalId \cup {NoGoal}
  <2>1. k \in Keys(st) /\ k = StatusKey
    BY <1>1
  <2>2. PICK g \in GoalId \cup {NoGoal}, size \in Width, ttl \in {"live", "expired"} :
          st.entries[k] = [StatusEntry(g, size) EXCEPT !.ttl = ttl]
    BY <2>1 DEF EntriesShaped, Shaped
  <2>3. GoalOf([StatusEntry(g, size) EXCEPT !.ttl = ttl]) = g
    BY ReadBack
  <2> QED BY <2>2, <2>3
<1>5. goal \in [G -> BOOLEAN] /\ task \in [T -> [goal : GoalId, status : TaskStatus]]
      /\ status \in SUBSET (GoalId \cup {NoGoal}) /\ G \in SUBSET GoalId /\ T \in SUBSET TaskId
  BY <1>3, <1>4
<1> HIDE DEF goal, task, status
<1>6. d \in GoalSnapshots
  BY <1>2, <1>5, SnapshotMade
<1>7. d.goal = goal /\ d.task = task
  BY <1>2
<1> HIDE DEF d
<1>8. DOMAIN d.goal = G /\ \A g \in G : d.goal[g] = ("current" \in st.entries[g].tags)
  BY <1>7 DEF goal
<1>9. DOMAIN d.task = T /\ \A t \in T : d.task[t] = [goal |-> GoalOf(st.entries[t]), status |-> StatusOf(st.entries[t])]
  BY <1>7 DEF task
<1>10. Listed(d) = CurrentGoals(st)
  BY <1>1, <1>8 DEF Listed
<1>11. \A t \in T : d.task[t].goal = GoalOf(st.entries[t]) /\ d.task[t].status = StatusOf(st.entries[t])
  <2> TAKE t \in T
  <2> DEFINE g == GoalOf(st.entries[t])
             s == StatusOf(st.entries[t])
             r == d.task[t]
  <2>1. r = [goal |-> g, status |-> s]
    BY <1>9
  <2> HIDE DEF g, s, r
  <2>2. r.goal = g /\ r.status = s
    BY <2>1
  <2> QED BY <2>2 DEF g, s, r
<1>12. Covers(d, st)
  <2>1. \A t \in T : /\ t \in DOMAIN d.task /\ d.task[t].status \in st.entries[t].tags
                     /\ d.task[t].goal \in st.entries[t].tags
    BY <1>3, <1>9, <1>11
  <2>2. \A g \in G : g \in DOMAIN d.goal /\ d.goal[g] = (g \in CurrentGoals(st))
    BY <1>1, <1>8
  <2> QED BY <1>1, <2>1, <2>2 DEF Covers
<1>13. ASSUME NEW f \in GoalSnapshots, Covers(f, st) PROVE Includes(f, d)
  <2>1. \A g \in G : g \in DOMAIN f.goal /\ f.goal[g] = (g \in CurrentGoals(st))
    BY <1>1, <1>13 DEF Covers
  <2>2. \A g \in DOMAIN d.goal : g \in DOMAIN f.goal /\ f.goal[g] = d.goal[g]
    BY <1>1, <1>8, <2>1
  <2>3. ASSUME NEW t \in DOMAIN d.task PROVE t \in DOMAIN f.task /\ f.task[t] = d.task[t]
    <3>1. /\ t \in T /\ t \in DOMAIN f.task /\ f.task[t].status \in st.entries[t].tags
          /\ f.task[t].goal \in st.entries[t].tags
      BY <1>1, <1>9, <1>13 DEF Covers
    <3>2. /\ f.task[t].goal \in GoalId /\ f.task[t].status \in TaskStatus
          /\ f.task[t] = [goal |-> f.task[t].goal, status |-> f.task[t].status]
      BY <3>1, SnapshotParts
    <3>3. /\ GoalOf(st.entries[t]) \in GoalId /\ StatusOf(st.entries[t]) \in TaskStatus
          /\ st.entries[t].tags = {GoalOf(st.entries[t]), StatusOf(st.entries[t])}
      BY <1>3, <3>1
    <3>4. f.task[t].goal = GoalOf(st.entries[t]) /\ f.task[t].status = StatusOf(st.entries[t])
      BY <3>1, <3>2, <3>3, TagKinds
    <3> QED BY <1>9, <3>1, <3>2, <3>4
  <2> QED BY <2>2, <2>3 DEF Includes
<1> QED BY <1>6, <1>8, <1>9, <1>10, <1>12, <1>13 DEF d

-----------------------------------------------------------------------------
(* The steps preserve the invariant *)

LEMMA SnapshotsOK ==
  ASSUME GoalTypeOK, FileInv
  PROVE  /\ Snapshots \subseteq GoalSnapshots
         /\ \A s \in Saver : todo[s] \in Snapshots
         /\ \A s \in Saver : Saving(s) => copy[s] \in Snapshots /\ copy[s] \in GoalSnapshots
         /\ ~overlapped => Disk \in GoalSnapshots
<1>1. Snapshot = GoalSnapshots /\ Torn \notin GoalSnapshots
  BY GoalAssumption, GoalFileAssumption
<1>2. Snapshots \subseteq GoalSnapshots /\ \A s \in Saver : todo[s] \in Snapshots
  BY <1>1 DEF Snapshots, GoalTypeOK, FileInv, FileTypeOK
<1>3. ASSUME NEW s \in Saver, Saving(s) PROVE copy[s] \in Snapshots /\ copy[s] \in GoalSnapshots
  BY <1>1, <1>3 DEF Snapshots, FileInv, CopiesWhole
<1>4. ~overlapped => Disk \in GoalSnapshots
  BY <1>1, NoSnapshotOK, GoalFileAssumption DEF Disk, FileInv, FileTypeOK, NamesApart, FileWhole
<1> QED BY <1>2, <1>3, <1>4

\* A snapshot of a store has what is left of it.
LEMMA StillCovers ==
  ASSUME NEW st, StoreOK(st), EntriesShaped(st), NEW new, StoreOK(new), EntriesShaped(new),
         \A k \in Keys(new) : k \in GoalId \cup TaskId => k \in Keys(st) /\ new.entries[k] = st.entries[k]
  PROVE  /\ CurrentGoals(new) \subseteq CurrentGoals(st)
         /\ \A d : Covers(d, st) => Covers(d, new)
<1>1. /\ ByCategory(st, "goal") = Keys(st) \cap GoalId /\ ByCategory(st, "task") = Keys(st) \cap TaskId
      /\ CurrentGoals(st) = {k \in Keys(st) \cap GoalId : "current" \in st.entries[k].tags}
  BY CategoryKeys
<1>2. /\ ByCategory(new, "goal") = Keys(new) \cap GoalId /\ ByCategory(new, "task") = Keys(new) \cap TaskId
      /\ CurrentGoals(new) = {k \in Keys(new) \cap GoalId : "current" \in new.entries[k].tags}
  BY CategoryKeys
<1>3. CurrentGoals(new) \subseteq CurrentGoals(st)
  BY <1>1, <1>2
<1>4. ASSUME NEW d, Covers(d, st) PROVE Covers(d, new)
  <2>1. ASSUME NEW g \in ByCategory(new, "goal")
        PROVE  g \in DOMAIN d.goal /\ d.goal[g] = (g \in CurrentGoals(new))
    <3>1. g \in ByCategory(st, "goal") /\ new.entries[g] = st.entries[g]
      BY <1>1, <1>2
    <3>2. (g \in CurrentGoals(st)) = (g \in CurrentGoals(new))
      BY <3>1, <1>1, <1>2
    <3>3. g \in DOMAIN d.goal /\ d.goal[g] = (g \in CurrentGoals(st))
      BY <3>1, <1>4 DEF Covers
    <3> QED BY <3>2, <3>3
  <2>2. ASSUME NEW t \in ByCategory(new, "task")
        PROVE  /\ t \in DOMAIN d.task
               /\ d.task[t].status \in new.entries[t].tags
               /\ d.task[t].goal \in new.entries[t].tags
    <3>1. t \in ByCategory(st, "task") /\ new.entries[t] = st.entries[t]
      BY <1>1, <1>2
    <3> QED BY <3>1, <1>4 DEF Covers
  <2> QED BY <2>1, <2>2 DEF Covers
<1> QED BY <1>3, <1>4

\* A step that stores and restores no goal and no task, and begins no re-encoding.
LEMMA QuietStepInv ==
  ASSUME GoalInv, StoreOK(mem'), EntriesShaped(mem'),
         \A k \in Keys(mem') : k \in GoalId \cup TaskId => k \in Keys(mem) /\ mem'.entries[k] = mem.entries[k],
         GoalTypeOK',
         \A s \in Saver : /\ step'[s] = "restore" => step[s] = "restore"
                          /\ step[s] = "save" => step'[s] = "save",
         UNCHANGED <<todo, fresh, raced>>, UNCHANGED fileVars
  PROVE  GoalInv'
<1>1. FileInv'
  BY FileStep DEF GoalInv
<1>2. /\ CurrentGoals(mem') \subseteq CurrentGoals(mem)
      /\ \A d : Covers(d, mem) => Covers(d, mem')
  BY StillCovers DEF GoalInv
<1>3. Snapshots' = Snapshots /\ Disk' = Disk
  BY DEF Snapshots, Disk, fileVars
<1>4. FreshUnknown'
  <2>1. fresh' \cap Keys(mem') = {}
    BY DEF GoalInv, GoalTypeOK, FreshUnknown
  <2> QED BY <2>1, <1>3 DEF GoalInv, FreshUnknown, Keys
<1>5. OneCurrentInv'
  <2>1. ToBeCurrent' \subseteq ToBeCurrent
    BY <1>2 DEF ToBeCurrent
  <2> QED BY <1>3, <2>1 DEF GoalInv, OneCurrentInv
<1>6. SavedInv'
  <2>1. \A d : Records(d) => Records(d)'
    BY <1>2 DEF Records
  <2>2. \A s \in Saver : copy'[s] = copy[s] /\ saving'[s] = saving[s]
    BY DEF fileVars
  <2>3. raced' = raced /\ overlapped' = overlapped /\ failed' = failed
    BY DEF fileVars
  <2>4. \A s \in Saver : Saving(s)' = Saving(s)
    BY <2>2 DEF Saving
  <2>5. ASSUME raced' = {}, ~overlapped', \A s \in Saver : step'[s] # "save"
        PROVE  /\ \A s \in Saver : Saving(s) => Records(copy[s])
               /\ (~failed /\ \A s \in Saver : ~Saving(s)) => Records(Disk)
    BY <2>3, <2>5 DEF GoalInv, SavedInv
  <2>6. ASSUME raced' = {}, ~overlapped', \A s \in Saver : step'[s] # "save"
        PROVE  /\ \A s \in Saver : Saving(s)' => Records(copy[s])'
               /\ (~failed' /\ \A s \in Saver : ~Saving(s)') => Records(Disk)'
    BY <1>3, <2>1, <2>2, <2>3, <2>4, <2>5, <2>6 DEF Records
  <2> QED BY <2>6 DEF SavedInv
<1> QED BY <1>1, <1>4, <1>5, <1>6 DEF GoalInv

\* A change of the store, which a save is going to follow.
LEMMA ChangeInv ==
  ASSUME GoalInv, NEW s \in Saver, NEW stores, Changes(s, stores),
         StoreOK(mem'), EntriesShaped(mem'), changes' \in Nat,
         fresh' \subseteq fresh, fresh' \cap Keys(mem') = {},
         (\A g, h \in CurrentGoals(mem) : g = h) => \A g, h \in CurrentGoals(mem') : g = h
  PROVE  GoalInv'
<1>1. FileInv'
  BY FileStep DEF GoalInv, Changes
<1>2. Snapshots' = Snapshots
  BY DEF Snapshots, fileVars, Changes
<1>3. GoalTypeOK'
  BY DEF GoalInv, GoalTypeOK, Changes, Notes
<1>4. FreshUnknown'
  BY <1>2 DEF GoalInv, FreshUnknown, Keys
<1>5. OneCurrentInv'
  <2>1. SUFFICES ASSUME "change" \notin raced' PROVE OneCurrentInv'
    BY DEF OneCurrentInv
  <2>2. "change" \notin raced /\ ~Reencoding
    BY <2>1 DEF Changes, Notes
  <2>3. \A r \in Saver : step[r] # "restore" /\ step'[r] # "restore"
    BY <2>2 DEF Reencoding, Changes, GoalInv, GoalTypeOK
  <2>4. ToBeCurrent = CurrentGoals(mem) /\ ToBeCurrent' = CurrentGoals(mem')
    BY <2>3 DEF ToBeCurrent
  <2> QED BY <1>2, <2>2, <2>4 DEF GoalInv, OneCurrentInv
<1>6. SavedInv'
  <2>1. step'[s] = "save"
    BY DEF Changes, GoalInv, GoalTypeOK
  <2> QED BY <2>1 DEF SavedInv
<1> QED BY <1>1, <1>3, <1>4, <1>5, <1>6 DEF GoalInv

\* What handlers have before they begin and what they store.
LEMMA BeginsOK ==
  ASSUME GoalInv
  PROVE  /\ StoreOK(mem) /\ EntriesShaped(mem) /\ Keys(mem) \subseteq Key
         /\ EncodedSizes \subseteq Width /\ width \in Width
         /\ fresh \cap Keys(mem) = {} /\ fresh \subseteq GoalId \cup TaskId
         /\ changes \in Nat /\ step \in [Saver -> {"idle", "save", "forget", "encode", "restore"}]
  BY DEF GoalInv, GoalTypeOK, EncodedSizes, FreshUnknown, StoreOK, StoreTypeOK

LEMMA SetGoalInv ==
  ASSUME GoalInv, NEW s \in Saver, SetGoal(s)
  PROVE  GoalInv'
<1>1. PICK g \in fresh \cap GoalId, size \in EncodedSizes :
        /\ fresh' = fresh \ {g}
        /\ Changes(s, Stored(Uncurrent(mem), g, GoalEntry(g, TRUE, size)))
  BY DEF SetGoal
<1> DEFINE u == Uncurrent(mem)
           e == GoalEntry(g, TRUE, size)
<1>2. /\ StoreOK(u) /\ EntriesShaped(u) /\ Keys(u) = Keys(mem) /\ CurrentGoals(u) = {}
      /\ \A k \in Keys(mem) : k \notin CurrentGoals(mem) => u.entries[k] = mem.entries[k]
  BY UncurrentOK, BeginsOK
<1>3. e \in Entry /\ Shaped(g, e) /\ g \in Key
  BY GoalEntryOK, BeginsOK, KeyKinds, TRUE \in BOOLEAN
<1>4. mem' \in Stored(u, g, e)
  BY <1>1 DEF Changes
<1> HIDE DEF u, e
<1>5. StoreOK(mem') /\ EntriesShaped(mem')
  BY <1>2, <1>3, <1>4, ShapedStored
<1>6. /\ Keys(mem') \subseteq Keys(u) \cup {g}
      /\ \A k \in Keys(mem') \ {g} : mem'.entries[k] = u.entries[k]
  BY <1>2, <1>3, <1>4, StoredOK
<1>7. CurrentGoals(mem') \subseteq {g}
  BY <1>2, <1>5, <1>6, CategoryKeys
<1>8. fresh' \subseteq fresh /\ fresh' \cap Keys(mem') = {}
  BY <1>1, <1>2, <1>6, BeginsOK
<1>9. changes' \in Nat
  BY BeginsOK DEF SetGoal, Begins
<1> QED BY <1>1, <1>5, <1>7, <1>8, <1>9, ChangeInv

\* A handler that finds nothing to change.
LEMMA RefusedInv ==
  ASSUME GoalInv, NEW s \in Saver, Refused(s), changes' \in Nat
  PROVE  GoalInv'
<1>1. StoreOK(mem') /\ EntriesShaped(mem')
  BY BeginsOK DEF Refused
<1>2. GoalTypeOK'
  BY DEF Refused, GoalInv, GoalTypeOK
<1> QED BY <1>1, <1>2, QuietStepInv DEF Refused

\* The goals that were current lose the tag, the target gets it; nothing is lost.
LEMMA CurrentAfterOK ==
  ASSUME NEW st, StoreOK(st), EntriesShaped(st), NEW g \in GoalId, g \in Keys(st),
         NEW s \in CurrentAfter(st, g)
  PROVE  StoreOK(s) /\ EntriesShaped(s) /\ Keys(s) = Keys(st) /\ CurrentGoals(s) \subseteq {g}
<1> DEFINE u == Uncurrent(st)
           e == Retagged(u.entries[g], u.entries[g].tags \cup {"current"})
<1>1. /\ StoreOK(u) /\ EntriesShaped(u) /\ Keys(u) = Keys(st) /\ CurrentGoals(u) = {}
  BY UncurrentOK
<1>2. s \in Stored(u, g, e)
  BY DEF CurrentAfter
<1>3. Shaped(g, u.entries[g])
  BY <1>1 DEF EntriesShaped
<1>4. /\ e = GoalEntry(g, TRUE, u.entries[g].size) /\ u.entries[g].size \in Width
      /\ u.entries[g].cat = "goal"
  BY <1>3, GoalRetagged
<1>5. e \in Entry /\ Shaped(g, e)
  BY <1>4, GoalEntryOK, TRUE \in BOOLEAN
<1>6. e.size = u.entries[g].size /\ e.cat = u.entries[g].cat
  BY DEF Retagged
<1>7. g \in Key
  BY KeyKinds
<1> HIDE DEF u, e
<1>8. s = Inserted(Removed(u, {g}), g, e) /\ Fits(Removed(u, {g}), e)
  BY <1>1, <1>2, <1>5, <1>6, PutBack
<1>9. StoreOK(s) /\ EntriesShaped(s)
  BY <1>1, <1>2, <1>5, <1>7, ShapedStored
<1>10. Keys(s) = Keys(u) /\ \A k \in Keys(u) \ {g} : s.entries[k] = u.entries[k]
  <2> DEFINE keys == {g}
             r == Removed(u, keys)
  <2> HIDE DEF keys
  <2>1. /\ StoreOK(r) /\ Keys(r) = Keys(u) \ keys
        /\ \A k \in Keys(u) \ keys : r.entries[k] = u.entries[k]
    BY <1>1, RemovedOK
  <2>2. s = Inserted(r, g, e) /\ Fits(r, e) /\ g \in Key \ Keys(r)
    BY <1>7, <1>8, <2>1 DEF keys
  <2> HIDE DEF r
  <2>3. Keys(s) = Keys(r) \cup {g} /\ \A k \in Keys(r) : s.entries[k] = r.entries[k]
    BY <1>5, <2>1, <2>2, InsertedOK
  <2> QED BY <1>1, <2>1, <2>3 DEF keys
<1>11. CurrentGoals(s) \subseteq {g}
  BY <1>1, <1>9, <1>10, CategoryKeys
<1> QED BY <1>1, <1>9, <1>10, <1>11

LEMMA SetCurrentInv ==
  ASSUME GoalInv, NEW s \in Saver, SetCurrent(s)
  PROVE  GoalInv'
<1>1. changes' \in Nat
  BY BeginsOK DEF SetCurrent, Begins
<1>2. PICK g \in GoalId :
        IF Live(mem, g) THEN Changes(s, CurrentAfter(mem, g)) /\ UNCHANGED fresh ELSE Refused(s)
  BY DEF SetCurrent
<1>3. CASE ~Live(mem, g)
  BY <1>1, <1>2, <1>3, RefusedInv
<1>4. CASE Live(mem, g)
  <2>1. g \in Keys(mem) /\ mem' \in CurrentAfter(mem, g) /\ fresh' = fresh
    BY <1>2, <1>4 DEF Changes, Live
  <2>2. /\ StoreOK(mem') /\ EntriesShaped(mem') /\ Keys(mem') = Keys(mem)
        /\ CurrentGoals(mem') \subseteq {g}
    BY <2>1, BeginsOK, CurrentAfterOK
  <2>3. fresh' \subseteq fresh /\ fresh' \cap Keys(mem') = {}
    BY <2>1, <2>2, BeginsOK
  <2> QED BY <1>1, <1>2, <1>4, <2>2, <2>3, ChangeInv
<1> QED BY <1>3, <1>4

\* What is stored under another key leaves the goals alone.
LEMMA GoalsAlone ==
  ASSUME NEW st, StoreOK(st), EntriesShaped(st), NEW key \in Key \ GoalId, NEW e \in Entry, Shaped(key, e),
         NEW s \in Stored(st, key, e)
  PROVE  CurrentGoals(s) \subseteq CurrentGoals(st)
<1>1. /\ Keys(s) \subseteq Keys(st) \cup {key}
      /\ \A k \in Keys(s) \ {key} : s.entries[k] = st.entries[k]
  BY StoredOK
<1>2. StoreOK(s) /\ EntriesShaped(s)
  BY ShapedStored
<1>3. CurrentGoals(s) = {k \in Keys(s) \cap GoalId : "current" \in s.entries[k].tags}
  BY <1>2, CategoryKeys
<1>4. CurrentGoals(st) = {k \in Keys(st) \cap GoalId : "current" \in st.entries[k].tags}
  BY CategoryKeys
<1> QED BY <1>1, <1>3, <1>4

LEMMA AddTaskInv ==
  ASSUME GoalInv, NEW s \in Saver, AddTask(s)
  PROVE  GoalInv'
<1>1. PICK t \in fresh \cap TaskId, g \in GoalId, size \in EncodedSizes :
        /\ fresh' = fresh \ {t}
        /\ Changes(s, Stored(mem, t, TaskEntry(g, "active", size)))
  BY DEF AddTask
<1> DEFINE e == TaskEntry(g, "active", size)
<1>2. e \in Entry /\ Shaped(t, e) /\ t \in Key \ GoalId
  BY TaskEntryOK, BeginsOK, KeyKinds DEF TaskStatus
<1>3. mem' \in Stored(mem, t, e)
  BY <1>1 DEF Changes
<1> HIDE DEF e
<1>4. StoreOK(mem') /\ EntriesShaped(mem') /\ CurrentGoals(mem') \subseteq CurrentGoals(mem)
  BY <1>2, <1>3, BeginsOK, ShapedStored, GoalsAlone
<1>5. Keys(mem') \subseteq Keys(mem) \cup {t}
  BY <1>2, <1>3, BeginsOK, StoredOK
<1>6. fresh' \subseteq fresh /\ fresh' \cap Keys(mem') = {}
  BY <1>1, <1>5, BeginsOK
<1>7. changes' \in Nat
  BY BeginsOK DEF AddTask, Begins
<1> QED BY <1>1, <1>4, <1>6, <1>7, ChangeInv

\* A task is stored again with its goal and its size.
LEMMA TaskAgainOK ==
  ASSUME NEW st, StoreOK(st), EntriesShaped(st), NEW t \in TaskId, t \in Keys(st), NEW status \in TaskStatus
  PROVE  LET e == TaskEntry(GoalOf(st.entries[t]), status, st.entries[t].size)
         IN  e \in Entry /\ Shaped(t, e) /\ e.size = st.entries[t].size /\ e.cat = st.entries[t].cat
<1>1. PICK g \in GoalId, old \in TaskStatus, size \in Width : st.entries[t] = TaskEntry(g, old, size)
  BY DEF EntriesShaped, Shaped
<1>2. GoalOf(st.entries[t]) = g /\ st.entries[t].size = size /\ st.entries[t].cat = "task"
  <2>1. GoalOf(TaskEntry(g, old, size)) = g
    BY ReadBack
  <2>2. TaskEntry(g, old, size).size = size /\ TaskEntry(g, old, size).cat = "task"
    BY DEF TaskEntry
  <2> QED BY <1>1, <2>1, <2>2
<1>3. TaskEntry(g, status, size) \in Entry /\ Shaped(t, TaskEntry(g, status, size))
  BY TaskEntryOK
<1>4. TaskEntry(g, status, size).size = size /\ TaskEntry(g, status, size).cat = "task"
  BY DEF TaskEntry
<1> QED BY <1>2, <1>3, <1>4

LEMMA UpdateTaskInv ==
  ASSUME GoalInv, NEW s \in Saver, UpdateTask(s)
  PROVE  GoalInv'
<1>1. changes' \in Nat
  BY BeginsOK DEF UpdateTask, Begins
<1>2. PICK t \in TaskId, status \in TaskStatus :
        IF Live(mem, t)
        THEN /\ Changes(s, Stored(mem, t, TaskEntry(GoalOf(mem.entries[t]), status, mem.entries[t].size)))
             /\ UNCHANGED fresh
        ELSE Refused(s)
  BY DEF UpdateTask
<1>3. CASE ~Live(mem, t)
  BY <1>1, <1>2, <1>3, RefusedInv
<1>4. CASE Live(mem, t)
  <2> DEFINE e == TaskEntry(GoalOf(mem.entries[t]), status, mem.entries[t].size)
  <2>1. t \in Keys(mem) /\ mem' \in Stored(mem, t, e) /\ fresh' = fresh
    BY <1>2, <1>4 DEF Changes, Live
  <2>2. e \in Entry /\ Shaped(t, e) /\ t \in Key \ GoalId
    BY <2>1, BeginsOK, TaskAgainOK, KeyKinds
  <2>3. Changes(s, Stored(mem, t, e))
    BY <1>2, <1>4
  <2> HIDE DEF e
  <2>4. StoreOK(mem') /\ EntriesShaped(mem') /\ CurrentGoals(mem') \subseteq CurrentGoals(mem)
    BY <2>1, <2>2, BeginsOK, ShapedStored, GoalsAlone
  <2>5. Keys(mem') \subseteq Keys(mem)
    BY <2>1, <2>2, BeginsOK, StoredOK
  <2>6. fresh' \subseteq fresh /\ fresh' \cap Keys(mem') = {}
    BY <2>1, <2>5, BeginsOK
  <2> QED BY <1>1, <2>3, <2>4, <2>6, ChangeInv
<1> QED BY <1>3, <1>4

\* The status' entry as it is stored.
LEMMA StatusLive ==
  ASSUME NEW g \in GoalId \cup {NoGoal}, NEW size \in Width
  PROVE  StatusEntry(g, size) \in Entry /\ Shaped(StatusKey, StatusEntry(g, size))
<1>1. [StatusEntry(g, size) EXCEPT !.ttl = "live"] = StatusEntry(g, size)
  <2> DEFINE r == StatusEntry(g, size)
             tags == {g}
  <2>1. r = [cat |-> "status", tags |-> tags, size |-> size, pinned |-> FALSE, ttl |-> "live"]
    BY DEF StatusEntry
  <2> HIDE DEF r, tags
  <2>2. r \in [cat : {"status"}, tags : {tags}, size : {size}, pinned : {FALSE}, ttl : {"live"}]
    BY <2>1
  <2> DEFINE f == [r EXCEPT !.ttl = "live"]
  <2>3. f \in [cat : {"status"}, tags : {tags}, size : {size}, pinned : {FALSE}, ttl : {"live"}]
    BY <2>2
  <2> HIDE DEF f
  <2>4. f = [cat |-> "status", tags |-> tags, size |-> size, pinned |-> FALSE, ttl |-> "live"]
    BY <2>3
  <2> QED BY <2>1, <2>4 DEF f, r
<1> QED BY <1>1, StatusEntryOK

LEMMA SetStatusInv ==
  ASSUME GoalInv, NEW s \in Saver, SetStatus(s)
  PROVE  GoalInv'
<1>1. PICK g \in (IF CurrentGoals(mem) = {} THEN {NoGoal} ELSE CurrentGoals(mem)), size \in EncodedSizes :
        Changes(s, Stored(mem, StatusKey, StatusEntry(g, size)))
  BY DEF SetStatus
<1> DEFINE e == StatusEntry(g, size)
<1>2. g \in GoalId \cup {NoGoal}
  BY BeginsOK, CategoryKeys
<1>3. e \in Entry /\ Shaped(StatusKey, e) /\ StatusKey \in Key \ GoalId
  BY <1>2, StatusLive, BeginsOK, KeyKinds
<1>4. mem' \in Stored(mem, StatusKey, e)
  BY <1>1 DEF Changes
<1> HIDE DEF e
<1>5. StoreOK(mem') /\ EntriesShaped(mem') /\ CurrentGoals(mem') \subseteq CurrentGoals(mem)
  BY <1>3, <1>4, BeginsOK, ShapedStored, GoalsAlone
<1>6. Keys(mem') \subseteq Keys(mem) \cup {StatusKey}
  BY <1>3, <1>4, BeginsOK, StoredOK
<1>7. fresh' \subseteq fresh /\ fresh' \cap Keys(mem') = {}
  BY <1>6, BeginsOK, KeyKinds DEF SetStatus
<1>8. changes' \in Nat
  BY BeginsOK DEF SetStatus, Begins
<1> QED BY <1>1, <1>5, <1>7, <1>8, ChangeInv

\* What is stored under a key of no goal and no task leaves the others as they are.
LEMMA OthersAlone ==
  ASSUME NEW st, StoreOK(st), NEW key \in Key \ (GoalId \cup TaskId), NEW e \in Entry,
         NEW s \in Stored(st, key, e)
  PROVE  \A k \in Keys(s) : k \in GoalId \cup TaskId => k \in Keys(st) /\ s.entries[k] = st.entries[k]
<1>1. /\ Keys(s) \subseteq Keys(st) \cup {key}
      /\ \A k \in Keys(s) \ {key} : s.entries[k] = st.entries[k]
  BY StoredOK
<1> QED BY <1>1

LEMMA CaptureInv ==
  ASSUME GoalInv, Capture
  PROVE  GoalInv'
<1>1. PICK k \in CaptureId : mem' \in Stored(mem, k, CaptureEntry(width))
  BY DEF Capture
<1>2. CaptureEntry(width) \in Entry /\ Shaped(k, CaptureEntry(width)) /\ k \in Key \ (GoalId \cup TaskId)
  BY CaptureEntryOK, BeginsOK, KeyKinds
<1>3. StoreOK(mem') /\ EntriesShaped(mem')
  BY <1>1, <1>2, BeginsOK, ShapedStored
<1>4. \A l \in Keys(mem') : l \in GoalId \cup TaskId => l \in Keys(mem) /\ mem'.entries[l] = mem.entries[l]
  BY <1>1, <1>2, BeginsOK, OthersAlone
<1>5. GoalTypeOK'
  BY DEF Capture, GoalInv, GoalTypeOK
<1> QED BY <1>3, <1>4, <1>5, QuietStepInv DEF Capture

\* Time passes for the status only.
LEMMA ExpireInv ==
  ASSUME GoalInv, Expire
  PROVE  GoalInv'
<1>1. PICK k \in Keys(mem) : mem.entries[k].ttl = "live" /\ mem' = [mem EXCEPT !.entries[k].ttl = "expired"]
  BY DEF Expire
<1>2. /\ StoreOK(mem) /\ EntriesShaped(mem) /\ Keys(mem) \subseteq Key
  BY BeginsOK
<1>3. Shaped(k, mem.entries[k]) /\ k \in Key
  BY <1>2 DEF EntriesShaped
<1>4. k = StatusKey
  BY <1>1, <1>3, ShapeFacts
<1> DEFINE e == [mem.entries[k] EXCEPT !.ttl = "expired"]
           en == [mem.entries EXCEPT ![k] = e]
<1>5. e \in Entry /\ Shaped(k, e) /\ e.size = mem.entries[k].size /\ e.cat = mem.entries[k].cat
      /\ e.tags = mem.entries[k].tags
  <2>1. PICK g \in GoalId \cup {NoGoal}, size \in Width, ttl \in {"live", "expired"} :
          mem.entries[k] = [StatusEntry(g, size) EXCEPT !.ttl = ttl]
    BY <1>3, <1>4 DEF Shaped
  <2> DEFINE f == [StatusEntry(g, size) EXCEPT !.ttl = "expired"]
  <2>2. e = f
    BY <2>1 DEF StatusEntry
  <2>3. f \in Entry /\ Shaped(StatusKey, f)
    BY StatusEntryOK
  <2>4. e.size = mem.entries[k].size /\ e.cat = mem.entries[k].cat /\ e.tags = mem.entries[k].tags
    BY <2>1 DEF StatusEntry
  <2> HIDE DEF e, f
  <2> QED BY <1>4, <2>2, <2>3, <2>4
<1>6. /\ mem'.entries = en
      /\ mem'.bytes = mem.bytes /\ mem'.catBytes = mem.catBytes /\ mem'.byCat = mem.byCat
      /\ mem'.byTag = mem.byTag
      /\ mem' = [entries |-> mem'.entries, bytes |-> mem'.bytes, catBytes |-> mem'.catBytes,
                 byCat |-> mem'.byCat, byTag |-> mem'.byTag]
  <2>1. /\ mem = [entries |-> mem.entries, bytes |-> mem.bytes, catBytes |-> mem.catBytes,
                  byCat |-> mem.byCat, byTag |-> mem.byTag]
    BY <1>2 DEF StoreOK, StoreTypeOK
  <2>2. mem' = [mem EXCEPT !.entries = en]
    BY <1>1
  <2> HIDE DEF en
  <2> QED BY <2>1, <2>2
<1>7. /\ Keys(mem') = Keys(mem) /\ mem'.entries[k] = e
      /\ \A l \in Keys(mem) \ {k} : mem'.entries[l] = mem.entries[l]
  <2> HIDE DEF e
  <2>1. mem.entries \in [Keys(mem) -> Entry]
    BY <1>2 DEF StoreOK, StoreTypeOK
  <2> QED BY <1>6, <2>1 DEF Keys
<1> HIDE DEF e, en
<1>8. \A l \in Keys(mem) : /\ mem'.entries[l] \in Entry /\ Shaped(l, mem'.entries[l])
                           /\ mem'.entries[l].size = mem.entries[l].size
                           /\ mem'.entries[l].cat = mem.entries[l].cat
                           /\ mem'.entries[l].tags = mem.entries[l].tags
  <2> TAKE l \in Keys(mem)
  <2>1. CASE l = k
    BY <2>1, <1>5, <1>7
  <2>2. CASE l # k
    BY <2>2, <1>2, <1>7 DEF EntriesShaped, StoreOK, StoreAccounts
  <2> QED BY <2>1, <2>2
<1>9. StoreOK(mem') /\ EntriesShaped(mem')
  <2>1. EntriesShaped(mem')
    BY <1>7, <1>8 DEF EntriesShaped
  <2>2. StoreTypeOK(mem')
    <3>1. mem'.entries \in [Keys(mem') -> Entry]
      <4>1. mem.entries \in [Keys(mem) -> Entry]
        BY <1>2 DEF StoreOK, StoreTypeOK
      <4>2. mem'.entries \in [Keys(mem) -> Entry]
        BY <1>5, <1>6, <4>1 DEF en
      <4> QED BY <1>7, <4>2
    <3> QED BY <1>2, <1>6, <1>7, <3>1 DEF StoreOK, StoreTypeOK
  <2>3. \A keys \in SUBSET Keys(mem) : Bytes(mem', keys) = Bytes(mem, keys)
    <3> TAKE keys \in SUBSET Keys(mem)
    <3>1. \A l \in keys : mem'.entries[l].size = mem.entries[l].size
      BY <1>8
    <3> QED BY <3>1, BytesSame
  <2>4. StoreAccounts(mem')
    <3>1. mem'.bytes = Bytes(mem', Keys(mem')) /\ mem'.bytes <= ByteBudget
      BY <1>2, <1>6, <1>7, <2>3 DEF StoreOK, StoreAccounts
    <3>2. ASSUME NEW c \in Category
          PROVE  /\ mem'.byCat[c] = {l \in Keys(mem') : mem'.entries[l].cat = c}
                 /\ mem'.catBytes[c] = Bytes(mem', mem'.byCat[c]) /\ mem'.catBytes[c] <= CategoryBudget[c]
      <4>1. /\ mem.byCat[c] = {l \in Keys(mem) : mem.entries[l].cat = c}
            /\ mem.catBytes[c] = Bytes(mem, mem.byCat[c]) /\ mem.catBytes[c] <= CategoryBudget[c]
        BY <1>2 DEF StoreOK, StoreAccounts
      <4>2. Bytes(mem', mem.byCat[c]) = Bytes(mem, mem.byCat[c])
        BY <2>3, <4>1
      <4>3. mem'.byCat[c] = {l \in Keys(mem') : mem'.entries[l].cat = c}
        <5>1. \A l \in Keys(mem) : mem'.entries[l].cat = mem.entries[l].cat
          BY <1>8
        <5> QED BY <4>1, <5>1, <1>6, <1>7
      <4> QED BY <4>1, <4>2, <4>3, <1>6
    <3>3. ASSUME NEW t \in Tag
          PROVE  mem'.byTag[t] = {l \in Keys(mem') : t \in mem'.entries[l].tags}
      <4>1. mem.byTag[t] = {l \in Keys(mem) : t \in mem.entries[l].tags}
        BY <1>2 DEF StoreOK, StoreAccounts
      <4>2. \A l \in Keys(mem) : mem'.entries[l].tags = mem.entries[l].tags
        BY <1>8
      <4> QED BY <4>1, <4>2, <1>6, <1>7
    <3>4. \A l \in Keys(mem') : mem'.entries[l] \in Entry
      BY <1>7, <1>8
    <3>5. Cardinality(Keys(mem')) <= MaxEntries
      BY <1>2, <1>7 DEF StoreOK, StoreAccounts
    <3> QED BY <3>1, <3>2, <3>3, <3>4, <3>5 DEF StoreAccounts
  <2> QED BY <1>2, <1>7, <2>1, <2>2, <2>4 DEF StoreOK
<1>10. \A l \in Keys(mem') : l \in GoalId \cup TaskId => l \in Keys(mem) /\ mem'.entries[l] = mem.entries[l]
  BY <1>4, <1>7, KeyKinds
<1>11. GoalTypeOK'
  BY DEF Expire, GoalInv, GoalTypeOK
<1> QED BY <1>9, <1>10, <1>11, QuietStepInv DEF Expire

LEMMA SelectModelInv ==
  ASSUME GoalInv, NEW s \in Saver, SelectModel(s)
  PROVE  GoalInv'
<1>1. StoreOK(mem') /\ EntriesShaped(mem')
  BY BeginsOK DEF SelectModel
<1>2. GoalTypeOK'
  BY DEF SelectModel, Begins, GoalInv, GoalTypeOK
<1>3. \A r \in Saver : /\ step'[r] = "restore" => step[r] = "restore"
                       /\ step[r] = "save" => step'[r] = "save"
  BY BeginsOK DEF SelectModel, Begins
<1> QED BY <1>1, <1>2, <1>3, QuietStepInv DEF SelectModel

LEMMA ForgetInv ==
  ASSUME GoalInv, NEW s \in Saver, Forget(s)
  PROVE  GoalInv'
<1>1. /\ StoreOK(mem') /\ Keys(mem') = Keys(mem) \ ByCategory(mem, "context")
      /\ \A k \in Keys(mem') : mem'.entries[k] = mem.entries[k]
  <2> DEFINE keys == ByCategory(mem, "context")
  <2>1. mem' = Removed(mem, keys)
    BY DEF Forget, Forgotten
  <2> HIDE DEF keys
  <2>2. /\ StoreOK(Removed(mem, keys)) /\ Keys(Removed(mem, keys)) = Keys(mem) \ keys
        /\ \A k \in Keys(mem) \ keys : Removed(mem, keys).entries[k] = mem.entries[k]
    BY BeginsOK, RemovedOK
  <2> QED BY <2>1, <2>2 DEF keys
<1>2. EntriesShaped(mem')
  BY <1>1, BeginsOK DEF EntriesShaped
<1>3. GoalTypeOK'
  BY DEF Forget, GoalInv, GoalTypeOK
<1>4. \A r \in Saver : /\ step'[r] = "restore" => step[r] = "restore"
                       /\ step[r] = "save" => step'[r] = "save"
  BY BeginsOK DEF Forget
<1> QED BY <1>1, <1>2, <1>3, <1>4, QuietStepInv DEF Forget

LEMMA RestoreEndInv ==
  ASSUME GoalInv, NEW s \in Saver, RestoreEnd(s)
  PROVE  GoalInv'
<1>1. StoreOK(mem') /\ EntriesShaped(mem')
  BY BeginsOK DEF RestoreEnd
<1>2. GoalTypeOK'
  BY DEF RestoreEnd, GoalInv, GoalTypeOK
<1>3. \A r \in Saver : /\ step'[r] = "restore" => step[r] = "restore"
                       /\ step[r] = "save" => step'[r] = "save"
  BY BeginsOK DEF RestoreEnd
<1> QED BY <1>1, <1>2, <1>3, QuietStepInv DEF RestoreEnd

\* What a re-encoding is going to restore is in the store, and in every snapshot that
\* has what is in the store.
LEMMA ReencodeAllInv ==
  ASSUME GoalInv, NEW s \in Saver, ReencodeAll(s)
  PROVE  GoalInv'
<1> DEFINE d == SnapshotOf(mem)
<1>1. /\ d \in GoalSnapshots /\ DOMAIN d.goal = Keys(mem) \cap GoalId
      /\ DOMAIN d.task = Keys(mem) \cap TaskId /\ Listed(d) = CurrentGoals(mem)
      /\ \A f \in GoalSnapshots : Covers(f, mem) => Includes(f, d)
  BY BeginsOK, SnapshotOfOK
<1>2. /\ todo' = [todo EXCEPT ![s] = d] /\ step' = [step EXCEPT ![s] = "restore"] /\ mem' = mem
      /\ fresh' = fresh /\ UNCHANGED fileVars
  BY DEF ReencodeAll
<1> HIDE DEF d
<1>3. /\ todo \in [Saver -> GoalSnapshots]
      /\ step \in [Saver -> {"idle", "save", "forget", "encode", "restore"}]
  BY DEF GoalInv, GoalTypeOK
<1>4. GoalTypeOK'
  BY <1>1, <1>2, <1>3 DEF ReencodeAll, Notes, GoalInv, GoalTypeOK
<1>5. FileInv'
  BY <1>2, FileStep DEF GoalInv
<1>6. StoreOK(mem') /\ EntriesShaped(mem')
  BY <1>2, BeginsOK
<1>7. Snapshots' \subseteq Snapshots \cup {d}
  BY <1>2, <1>3 DEF Snapshots, fileVars
<1>8. FreshUnknown'
  <2>1. fresh \cap (DOMAIN d.goal \cup DOMAIN d.task) = {}
    BY <1>1, BeginsOK
  <2>2. fresh' \cap Keys(mem') = {}
    BY <1>2, BeginsOK
  <2> QED BY <1>2, <1>7, <2>1, <2>2 DEF FreshUnknown, Keys, GoalInv
<1>9. OneCurrentInv'
  <2>1. "change" \notin raced' => "change" \notin raced
    BY DEF ReencodeAll, Notes
  <2>2. ToBeCurrent' \subseteq ToBeCurrent
    <3>1. CurrentGoals(mem') = CurrentGoals(mem)
      BY <1>2
    <3>2. ASSUME NEW r \in Saver, step'[r] = "restore", NEW g \in Listed(todo'[r])
          PROVE  g \in ToBeCurrent
      <4>1. CASE r = s
        BY <4>1, <1>1, <1>2, <1>3, <3>2 DEF ToBeCurrent
      <4>2. CASE r # s
        <5>1. step[r] = "restore" /\ todo'[r] = todo[r]
          BY <4>2, <1>2, <1>3, <3>2
        <5> QED BY <3>2, <5>1 DEF ToBeCurrent
      <4> QED BY <4>1, <4>2
    <3>3. ASSUME NEW g \in ToBeCurrent' PROVE g \in ToBeCurrent
      <4>1. CASE g \in CurrentGoals(mem')
        BY <4>1, <3>1 DEF ToBeCurrent
      <4>2. CASE \E r \in Saver : step'[r] = "restore" /\ g \in Listed(todo'[r])
        BY <4>2, <3>2
      <4> QED BY <3>3, <4>1, <4>2 DEF ToBeCurrent, Listed
    <3> QED BY <3>3
  <2>3. \A g \in Listed(d) : g \in ToBeCurrent
    BY <1>1 DEF ToBeCurrent
  <2> QED BY <1>7, <2>1, <2>2, <2>3 DEF OneCurrentInv, GoalInv, Listed
<1>10. SavedInv'
  <2>1. SUFFICES ASSUME raced' = {}, ~overlapped', \A r \in Saver : step'[r] # "save"
                 PROVE  /\ \A r \in Saver : Saving(r)' => Records(copy[r])'
                        /\ (~failed' /\ \A r \in Saver : ~Saving(r)') => Records(Disk)'
    BY DEF SavedInv
  <2>2. raced = {} /\ ~Reencoding /\ ~overlapped
    BY <1>2, <2>1 DEF ReencodeAll, Notes, fileVars
  <2>3. \A r \in Saver : step[r] # "save" /\ step[r] # "restore"
    BY <1>2, <1>3, <2>1, <2>2 DEF Reencoding, ReencodeAll
  <2>4. /\ \A r \in Saver : Saving(r) => Records(copy[r])
        /\ (~failed /\ \A r \in Saver : ~Saving(r)) => Records(Disk)
    BY <2>2, <2>3 DEF GoalInv, SavedInv
  <2>5. ASSUME NEW f \in GoalSnapshots, Covers(f, mem)
        PROVE  Covers(f, mem') /\ \A r \in Saver : step'[r] = "restore" => Includes(f, todo'[r])
    <3>1. Includes(f, d)
      BY <1>1, <2>5
    <3>2. \A r \in Saver : step'[r] = "restore" => r = s
      BY <1>2, <1>3, <2>3
    <3>3. todo'[s] = d
      BY <1>2, <1>3
    <3> QED BY <1>2, <2>5, <3>1, <3>2, <3>3
  <2>6. \A r \in Saver : Saving(r) => copy[r] \in GoalSnapshots
    BY SnapshotsOK DEF GoalInv
  <2>7. Disk \in GoalSnapshots
    BY <2>2, SnapshotsOK DEF GoalInv
  <2>8. \A r \in Saver : Saving(r)' = Saving(r) /\ copy'[r] = copy[r]
    BY <1>2 DEF fileVars, Saving
  <2>9. Disk' = Disk /\ failed' = failed
    BY <1>2 DEF fileVars, Disk
  <2>10. ASSUME NEW r \in Saver, Saving(r) PROVE Records(copy[r])'
    BY <2>4, <2>5, <2>6, <2>8, <2>10 DEF Records
  <2>11. ASSUME ~failed, \A r \in Saver : ~Saving(r) PROVE Records(Disk)'
    BY <2>4, <2>5, <2>7, <2>9, <2>11 DEF Records
  <2> QED BY <2>8, <2>9, <2>10, <2>11
<1> QED BY <1>4, <1>5, <1>6, <1>8, <1>9, <1>10 DEF GoalInv

\* A goal, a task or the status is restored as it was taken up.
LEMMA RestoredInv ==
  ASSUME GoalInv, NEW s \in Saver, step[s] = "restore",
         NEW k \in Key, k \notin CaptureId, NEW e \in Entry, Shaped(k, e),
         NEW rest \in GoalSnapshots, Restored(s, Stored(mem, k, e), rest),
         k \in GoalId => k \in DOMAIN todo[s].goal /\ ("current" \in e.tags) = todo[s].goal[k],
         k \in TaskId => /\ k \in DOMAIN todo[s].task
                         /\ todo[s].task[k].status \in e.tags /\ todo[s].task[k].goal \in e.tags,
         \A g \in DOMAIN rest.goal : g \in DOMAIN todo[s].goal /\ rest.goal[g] = todo[s].goal[g],
         \A t \in DOMAIN rest.task : t \in DOMAIN todo[s].task /\ rest.task[t] = todo[s].task[t],
         UNCHANGED <<width, firstWidth, step, started, fresh, changes, raced>>,
         UNCHANGED fileVars
  PROVE  GoalInv'
<1>1. mem' \in Stored(mem, k, e) /\ todo' = [todo EXCEPT ![s] = rest]
  BY DEF Restored
<1>2. /\ todo \in [Saver -> GoalSnapshots]
      /\ step \in [Saver -> {"idle", "save", "forget", "encode", "restore"}]
  BY DEF GoalInv, GoalTypeOK
<1>3. StoreOK(mem') /\ EntriesShaped(mem')
  BY <1>1, BeginsOK, ShapedStored
<1>4. /\ Keys(mem') \subseteq Keys(mem) \cup {k}
      /\ \A l \in Keys(mem') \ {k} : mem'.entries[l] = mem.entries[l]
      /\ k \in Keys(mem') => mem'.entries[k] = e \/ (k \in Keys(mem) /\ mem'.entries[k] = mem.entries[k])
  BY <1>1, BeginsOK, StoredOK
<1>5. /\ ByCategory(mem, "goal") = Keys(mem) \cap GoalId /\ ByCategory(mem, "task") = Keys(mem) \cap TaskId
      /\ CurrentGoals(mem) = {g \in Keys(mem) \cap GoalId : "current" \in mem.entries[g].tags}
  BY BeginsOK, CategoryKeys
<1>6. /\ ByCategory(mem', "goal") = Keys(mem') \cap GoalId /\ ByCategory(mem', "task") = Keys(mem') \cap TaskId
      /\ CurrentGoals(mem') = {g \in Keys(mem') \cap GoalId : "current" \in mem'.entries[g].tags}
  BY <1>3, CategoryKeys
<1>7. GoalTypeOK'
  BY <1>1, <1>2 DEF GoalInv, GoalTypeOK
<1>8. FileInv'
  BY FileStep DEF GoalInv
<1>9. Snapshots' \subseteq Snapshots \cup {rest} /\ todo[s] \in Snapshots
  BY <1>1, <1>2 DEF Snapshots, fileVars, GoalInv, FileInv, FileTypeOK
<1>10. todo[s] \in GoalSnapshots
  BY <1>2
<1>11. todo'[s] = rest /\ \A r \in Saver \ {s} : todo'[r] = todo[r]
  BY <1>1, <1>2
<1>12. FreshUnknown'
  <2>1. fresh \cap (DOMAIN todo[s].goal \cup DOMAIN todo[s].task) = {}
    BY <1>9 DEF GoalInv, FreshUnknown
  <2>2. fresh \cap (DOMAIN rest.goal \cup DOMAIN rest.task) = {}
    BY <2>1
  <2>3. k \notin fresh
    BY <2>1, BeginsOK
  <2>4. fresh' \cap Keys(mem') = {}
    BY <1>4, <2>3, BeginsOK
  <2> QED BY <1>9, <2>2, <2>4 DEF FreshUnknown, Keys, GoalInv
<1>13. Listed(rest) \subseteq Listed(todo[s])
  BY DEF Listed
<1>14. CurrentGoals(mem') \subseteq CurrentGoals(mem) \cup Listed(todo[s])
  <2> SUFFICES ASSUME NEW g \in CurrentGoals(mem') PROVE g \in CurrentGoals(mem) \cup Listed(todo[s])
    OBVIOUS
  <2>1. g \in Keys(mem') /\ g \in GoalId /\ "current" \in mem'.entries[g].tags
    BY <1>6
  <2>2. CASE g # k
    BY <1>4, <1>5, <2>1, <2>2
  <2>3. CASE g = k /\ mem'.entries[k] = e
    BY <2>1, <2>3 DEF Listed
  <2>4. CASE g = k /\ k \in Keys(mem) /\ mem'.entries[k] = mem.entries[k]
    BY <1>5, <2>1, <2>4
  <2> QED BY <1>4, <2>1, <2>2, <2>3, <2>4
<1>15. OneCurrentInv'
  <2>1. ASSUME NEW g \in ToBeCurrent' PROVE g \in ToBeCurrent
    <3>1. CASE g \in CurrentGoals(mem')
      BY <1>14, <3>1 DEF ToBeCurrent
    <3>2. CASE \E r \in Saver : step'[r] = "restore" /\ g \in Listed(todo'[r])
      <4>1. PICK r \in Saver : step[r] = "restore" /\ g \in Listed(todo'[r])
        BY <3>2
      <4>2. g \in Listed(todo[r])
        BY <1>11, <1>13, <4>1
      <4> QED BY <4>1, <4>2 DEF ToBeCurrent
    <3> QED BY <2>1, <3>1, <3>2 DEF ToBeCurrent, Listed
  <2>2. \A d \in Snapshots' : \E f \in Snapshots : Listed(d) \subseteq Listed(f)
    BY <1>9, <1>13
  <2>3. ASSUME "change" \notin raced, NEW d \in Snapshots', NEW g \in Listed(d), NEW h \in Listed(d)
        PROVE  g = h
    <3>1. PICK f \in Snapshots : Listed(d) \subseteq Listed(f)
      BY <2>2
    <3> QED BY <3>1, <2>3 DEF GoalInv, OneCurrentInv
  <2> QED BY <2>1, <2>3 DEF GoalInv, OneCurrentInv, Listed
<1>16. SavedInv'
  <2>1. ASSUME NEW d, Records(d) PROVE Records(d)'
    <3>1. Covers(d, mem) /\ Includes(d, todo[s])
      BY <2>1 DEF Records
    <3>2. ASSUME NEW g \in ByCategory(mem', "goal")
          PROVE  g \in DOMAIN d.goal /\ d.goal[g] = (g \in CurrentGoals(mem'))
      <4>1. g \in Keys(mem') /\ g \in GoalId
        BY <1>6
      <4>2. (g \in CurrentGoals(mem')) = ("current" \in mem'.entries[g].tags)
        BY <1>6, <4>1
      <4>3. CASE g \in Keys(mem) /\ mem'.entries[g] = mem.entries[g]
        <5>1. (g \in CurrentGoals(mem)) = ("current" \in mem.entries[g].tags)
          BY <1>5, <4>1, <4>3
        <5>2. g \in DOMAIN d.goal /\ d.goal[g] = (g \in CurrentGoals(mem))
          BY <1>5, <3>1, <4>1, <4>3 DEF Covers
        <5> QED BY <4>2, <4>3, <5>1, <5>2
      <4>4. CASE g = k /\ mem'.entries[k] = e
        <5>1. g \in DOMAIN d.goal /\ d.goal[g] = todo[s].goal[g]
          BY <3>1, <4>1, <4>4 DEF Includes
        <5> QED BY <4>1, <4>2, <4>4, <5>1
      <4> QED BY <1>4, <4>1, <4>3, <4>4
    <3>3. ASSUME NEW t \in ByCategory(mem', "task")
          PROVE  /\ t \in DOMAIN d.task
                 /\ d.task[t].status \in mem'.entries[t].tags
                 /\ d.task[t].goal \in mem'.entries[t].tags
      <4>1. t \in Keys(mem') /\ t \in TaskId
        BY <1>6
      <4>2. CASE t \in Keys(mem) /\ mem'.entries[t] = mem.entries[t]
        BY <1>5, <3>1, <4>1, <4>2 DEF Covers
      <4>3. CASE t = k /\ mem'.entries[k] = e
        <5>1. t \in DOMAIN d.task /\ d.task[t] = todo[s].task[t]
          BY <3>1, <4>1, <4>3 DEF Includes
        <5> QED BY <4>1, <4>3, <5>1
      <4> QED BY <1>4, <4>1, <4>2, <4>3
    <3>4. Covers(d, mem')
      BY <3>2, <3>3 DEF Covers
    <3>5. ASSUME NEW r \in Saver, step'[r] = "restore" PROVE Includes(d, todo'[r])
      <4>1. Includes(d, todo[r])
        BY <2>1, <3>5 DEF Records
      <4>2. CASE r = s
        BY <1>11, <3>1, <4>2 DEF Includes
      <4>3. CASE r # s
        BY <1>11, <4>1, <4>3
      <4> QED BY <4>2, <4>3
    <3> QED BY <3>4, <3>5 DEF Records
  <2>2. \A r \in Saver : Saving(r)' = Saving(r) /\ copy'[r] = copy[r]
    BY DEF fileVars, Saving
  <2>3. Disk' = Disk /\ overlapped' = overlapped /\ failed' = failed
    BY DEF fileVars, Disk
  <2>4. ASSUME raced' = {}, ~overlapped', \A r \in Saver : step'[r] # "save"
        PROVE  /\ \A r \in Saver : Saving(r) => Records(copy[r])
               /\ (~failed /\ \A r \in Saver : ~Saving(r)) => Records(Disk)
    BY <2>3, <2>4 DEF GoalInv, SavedInv
  <2>5. ASSUME raced' = {}, ~overlapped', \A r \in Saver : step'[r] # "save"
        PROVE  /\ \A r \in Saver : Saving(r)' => Records(copy[r])'
               /\ (~failed' /\ \A r \in Saver : ~Saving(r)') => Records(Disk)'
    BY <2>1, <2>2, <2>3, <2>4, <2>5 DEF Records
  <2> QED BY <2>5 DEF SavedInv
<1> QED BY <1>3, <1>7, <1>8, <1>12, <1>15, <1>16 DEF GoalInv

\* What is left to restore.
WithoutGoal(d, g) == [d EXCEPT !.goal = Restrict(d.goal, DOMAIN d.goal \ {g})]
WithoutTask(d, t) == [d EXCEPT !.task = Restrict(d.task, DOMAIN d.task \ {t})]

LEMMA RestGoals ==
  ASSUME NEW d \in GoalSnapshots, NEW g,
         NEW rest, rest = WithoutGoal(d, g)
  PROVE  /\ rest \in GoalSnapshots /\ rest.task = d.task
         /\ DOMAIN rest.goal = DOMAIN d.goal \ {g}
         /\ \A h \in DOMAIN rest.goal : h \in DOMAIN d.goal /\ rest.goal[h] = d.goal[h]
<1> DEFINE goal == [h \in DOMAIN d.goal \ {g} |-> d.goal[h]]
<1>1. /\ DOMAIN d.goal \subseteq GoalId /\ DOMAIN d.task \subseteq TaskId
      /\ d.goal \in [DOMAIN d.goal -> BOOLEAN]
      /\ d.task \in [DOMAIN d.task -> [goal : GoalId, status : TaskStatus]]
      /\ d.status \subseteq GoalId \cup {NoGoal}
      /\ d = [goal |-> d.goal, task |-> d.task, status |-> d.status]
  BY SnapshotParts
<1>2. rest = [d EXCEPT !.goal = goal]
  BY DEF Restrict, WithoutGoal
<1>3. goal \in [DOMAIN d.goal \ {g} -> BOOLEAN]
  BY <1>1
<1>4. DOMAIN goal = DOMAIN d.goal \ {g} /\ \A h \in DOMAIN goal : goal[h] = d.goal[h]
  OBVIOUS
<1> HIDE DEF goal
<1>5. rest = [goal |-> goal, task |-> d.task, status |-> d.status]
  BY <1>1, <1>2
<1>6. rest \in GoalSnapshots
  BY <1>1, <1>3, <1>5, SnapshotMade
<1> QED BY <1>4, <1>5, <1>6

LEMMA RestTasks ==
  ASSUME NEW d \in GoalSnapshots, NEW t,
         NEW rest, rest = WithoutTask(d, t)
  PROVE  /\ rest \in GoalSnapshots /\ rest.goal = d.goal
         /\ DOMAIN rest.task = DOMAIN d.task \ {t}
         /\ \A h \in DOMAIN rest.task : h \in DOMAIN d.task /\ rest.task[h] = d.task[h]
<1> DEFINE task == [h \in DOMAIN d.task \ {t} |-> d.task[h]]
<1>1. /\ DOMAIN d.goal \subseteq GoalId /\ DOMAIN d.task \subseteq TaskId
      /\ d.goal \in [DOMAIN d.goal -> BOOLEAN]
      /\ d.task \in [DOMAIN d.task -> [goal : GoalId, status : TaskStatus]]
      /\ d.status \subseteq GoalId \cup {NoGoal}
      /\ d = [goal |-> d.goal, task |-> d.task, status |-> d.status]
  BY SnapshotParts
<1>2. rest = [d EXCEPT !.task = task]
  BY DEF Restrict, WithoutTask
<1>3. task \in [DOMAIN d.task \ {t} -> [goal : GoalId, status : TaskStatus]]
  BY <1>1
<1>4. DOMAIN task = DOMAIN d.task \ {t} /\ \A h \in DOMAIN task : task[h] = d.task[h]
  OBVIOUS
<1> HIDE DEF task
<1>5. rest = [goal |-> d.goal, task |-> task, status |-> d.status]
  BY <1>1, <1>2
<1>6. rest \in GoalSnapshots
  <2>1. /\ DOMAIN d.goal \in SUBSET GoalId /\ DOMAIN d.task \ {t} \in SUBSET TaskId
        /\ d.status \in SUBSET (GoalId \cup {NoGoal})
    BY <1>1
  <2>2. [goal |-> d.goal, task |-> task, status |-> d.status] \in GoalSnapshots
    BY ONLY <1>1, <1>3, <2>1, SnapshotMade
  <2> QED BY <1>5, <2>2
<1> QED BY <1>4, <1>5, <1>6

LEMMA RestStatus ==
  ASSUME NEW d \in GoalSnapshots, NEW rest, rest = [d EXCEPT !.status = {}]
  PROVE  rest \in GoalSnapshots /\ rest.goal = d.goal /\ rest.task = d.task
<1>1. /\ DOMAIN d.goal \subseteq GoalId /\ DOMAIN d.task \subseteq TaskId
      /\ d.goal \in [DOMAIN d.goal -> BOOLEAN]
      /\ d.task \in [DOMAIN d.task -> [goal : GoalId, status : TaskStatus]]
      /\ d = [goal |-> d.goal, task |-> d.task, status |-> d.status]
  BY SnapshotParts
<1>2. rest = [goal |-> d.goal, task |-> d.task, status |-> {}]
  BY <1>1
<1>3. {} \in SUBSET (GoalId \cup {NoGoal})
  OBVIOUS
<1>4. rest \in GoalSnapshots
  BY <1>1, <1>2, <1>3, SnapshotMade
<1> QED BY <1>2, <1>4

\* What a step of a restoration takes up: an entry of its kind, and what is left.
LEMMA RestoreEntryTakes ==
  ASSUME GoalInv, NEW s \in Saver, RestoreEntry(s)
  PROVE  \E k \in Key, e \in Entry, rest \in GoalSnapshots :
           /\ k \notin CaptureId /\ Shaped(k, e)
           /\ Restored(s, Stored(mem, k, e), rest)
           /\ k \in GoalId => /\ k \in DOMAIN todo[s].goal \ DOMAIN rest.goal
                              /\ ("current" \in e.tags) = todo[s].goal[k]
           /\ k \in TaskId => /\ k \in DOMAIN todo[s].task \ DOMAIN rest.task
                              /\ todo[s].task[k].status \in e.tags /\ todo[s].task[k].goal \in e.tags
           /\ \A g \in DOMAIN rest.goal : g \in DOMAIN todo[s].goal /\ rest.goal[g] = todo[s].goal[g]
           /\ \A t \in DOMAIN rest.task : t \in DOMAIN todo[s].task /\ rest.task[t] = todo[s].task[t]
<1> DEFINE left == todo[s]
<1>1. left \in GoalSnapshots
  BY DEF GoalInv, GoalTypeOK
<1> HIDE DEF left
<1>2. PICK size \in EncodedSizes :
       \/ \E g \in DOMAIN left.goal :
            Restored(s, Stored(mem, g, GoalEntry(g, left.goal[g], size)),
                     [left EXCEPT !.goal = Restrict(left.goal, DOMAIN left.goal \ {g})])
       \/ /\ left.goal = <<>>
          /\ \E t \in DOMAIN left.task :
               Restored(s, Stored(mem, t, TaskEntry(left.task[t].goal, left.task[t].status, size)),
                        [left EXCEPT !.task = Restrict(left.task, DOMAIN left.task \ {t})])
       \/ /\ left.goal = <<>> /\ left.task = <<>>
          /\ \E g \in left.status :
               Restored(s, Stored(mem, StatusKey, StatusEntry(g, size)),
                        [left EXCEPT !.status = {}])
  BY DEF RestoreEntry, left
<1>3. size \in Width
  BY BeginsOK
<1>4. /\ DOMAIN left.goal \subseteq GoalId /\ \A g \in DOMAIN left.goal : left.goal[g] \in BOOLEAN
      /\ DOMAIN left.task \subseteq TaskId
      /\ \A t \in DOMAIN left.task : left.task[t].goal \in GoalId /\ left.task[t].status \in TaskStatus
      /\ left.status \subseteq GoalId \cup {NoGoal}
  BY <1>1, SnapshotParts
<1>5. ASSUME NEW g \in DOMAIN left.goal,
             Restored(s, Stored(mem, g, GoalEntry(g, left.goal[g], size)),
                      [left EXCEPT !.goal = Restrict(left.goal, DOMAIN left.goal \ {g})])
      PROVE  \E k \in Key, e \in Entry, rest \in GoalSnapshots :
               /\ k \notin CaptureId /\ Shaped(k, e)
               /\ Restored(s, Stored(mem, k, e), rest)
               /\ k \in GoalId => /\ k \in DOMAIN left.goal \ DOMAIN rest.goal
                                  /\ ("current" \in e.tags) = left.goal[k]
               /\ k \in TaskId => /\ k \in DOMAIN left.task \ DOMAIN rest.task
                                  /\ left.task[k].status \in e.tags /\ left.task[k].goal \in e.tags
               /\ \A h \in DOMAIN rest.goal : h \in DOMAIN left.goal /\ rest.goal[h] = left.goal[h]
               /\ \A t \in DOMAIN rest.task : t \in DOMAIN left.task /\ rest.task[t] = left.task[t]
  <2> DEFINE c == left.goal[g]
             e == GoalEntry(g, c, size)
             rest == [left EXCEPT !.goal = Restrict(left.goal, DOMAIN left.goal \ {g})]
  <2>1. g \in GoalId /\ g \in Key /\ g \notin CaptureId /\ g \notin TaskId /\ c \in BOOLEAN
    BY <1>4, KeyKinds
  <2>2. ("current" \in e.tags) = c
    <3>1. e.tags = {g} \cup (IF c THEN {"current"} ELSE {})
      BY DEF GoalEntry
    <3>2. g # "current"
      BY <2>1, TagKinds
    <3> HIDE DEF e, c
    <3> QED BY <2>1, <3>1, <3>2
  <2>3. e \in Entry /\ Shaped(g, e)
    <3> HIDE DEF c
    <3> QED BY <1>3, <2>1, GoalEntryOK
  <2>4. /\ rest \in GoalSnapshots /\ rest.task = left.task
        /\ DOMAIN rest.goal = DOMAIN left.goal \ {g}
        /\ \A h \in DOMAIN rest.goal : h \in DOMAIN left.goal /\ rest.goal[h] = left.goal[h]
    <3>1. rest = WithoutGoal(left, g)
      BY DEF WithoutGoal
    <3> HIDE DEF rest
    <3> QED BY <1>1, <3>1, RestGoals
  <2>5. Restored(s, Stored(mem, g, e), rest)
    BY <1>5
  <2> HIDE DEF e, rest
  <2> QED BY <2>1, <2>2, <2>3, <2>4, <2>5 DEF c
<1>6. ASSUME NEW t \in DOMAIN left.task,
             Restored(s, Stored(mem, t, TaskEntry(left.task[t].goal, left.task[t].status, size)),
                      [left EXCEPT !.task = Restrict(left.task, DOMAIN left.task \ {t})])
      PROVE  \E k \in Key, e \in Entry, rest \in GoalSnapshots :
               /\ k \notin CaptureId /\ Shaped(k, e)
               /\ Restored(s, Stored(mem, k, e), rest)
               /\ k \in GoalId => /\ k \in DOMAIN left.goal \ DOMAIN rest.goal
                                  /\ ("current" \in e.tags) = left.goal[k]
               /\ k \in TaskId => /\ k \in DOMAIN left.task \ DOMAIN rest.task
                                  /\ left.task[k].status \in e.tags /\ left.task[k].goal \in e.tags
               /\ \A h \in DOMAIN rest.goal : h \in DOMAIN left.goal /\ rest.goal[h] = left.goal[h]
               /\ \A h \in DOMAIN rest.task : h \in DOMAIN left.task /\ rest.task[h] = left.task[h]
  <2> DEFINE g == left.task[t].goal
             status == left.task[t].status
             e == TaskEntry(g, status, size)
             rest == [left EXCEPT !.task = Restrict(left.task, DOMAIN left.task \ {t})]
  <2>1. t \in TaskId /\ t \in Key /\ t \notin CaptureId /\ t \notin GoalId /\ g \in GoalId /\ status \in TaskStatus
    BY <1>4, KeyKinds
  <2>2. status \in e.tags /\ g \in e.tags
    BY DEF TaskEntry
  <2>3. e \in Entry /\ Shaped(t, e)
    <3> HIDE DEF g, status
    <3> QED BY <1>3, <2>1, TaskEntryOK
  <2>4. /\ rest \in GoalSnapshots /\ rest.goal = left.goal
        /\ DOMAIN rest.task = DOMAIN left.task \ {t}
        /\ \A h \in DOMAIN rest.task : h \in DOMAIN left.task /\ rest.task[h] = left.task[h]
    <3>1. rest = WithoutTask(left, t)
      BY DEF WithoutTask
    <3> HIDE DEF rest
    <3> QED BY <1>1, <3>1, RestTasks
  <2>5. Restored(s, Stored(mem, t, e), rest)
    BY <1>6
  <2> HIDE DEF e, rest
  <2> QED BY <2>1, <2>2, <2>3, <2>4, <2>5
<1>7. ASSUME NEW g \in left.status,
             Restored(s, Stored(mem, StatusKey, StatusEntry(g, size)), [left EXCEPT !.status = {}])
      PROVE  \E k \in Key, e \in Entry, rest \in GoalSnapshots :
               /\ k \notin CaptureId /\ Shaped(k, e)
               /\ Restored(s, Stored(mem, k, e), rest)
               /\ k \in GoalId => /\ k \in DOMAIN left.goal \ DOMAIN rest.goal
                                  /\ ("current" \in e.tags) = left.goal[k]
               /\ k \in TaskId => /\ k \in DOMAIN left.task \ DOMAIN rest.task
                                  /\ left.task[k].status \in e.tags /\ left.task[k].goal \in e.tags
               /\ \A h \in DOMAIN rest.goal : h \in DOMAIN left.goal /\ rest.goal[h] = left.goal[h]
               /\ \A t \in DOMAIN rest.task : t \in DOMAIN left.task /\ rest.task[t] = left.task[t]
  <2> DEFINE e == StatusEntry(g, size)
             rest == [left EXCEPT !.status = {}]
  <2>1. StatusKey \in Key /\ StatusKey \notin CaptureId /\ StatusKey \notin GoalId /\ StatusKey \notin TaskId
    BY KeyKinds
  <2>2. e \in Entry /\ Shaped(StatusKey, e)
    BY <1>3, <1>4, StatusLive
  <2>3. rest \in GoalSnapshots /\ rest.goal = left.goal /\ rest.task = left.task
    BY <1>1, RestStatus
  <2>4. Restored(s, Stored(mem, StatusKey, e), rest)
    BY <1>7
  <2> HIDE DEF e, rest
  <2> QED BY <2>1, <2>2, <2>3, <2>4
<1> QED BY <1>2, <1>5, <1>6, <1>7 DEF left

LEMMA RestoreEntryInv ==
  ASSUME GoalInv, NEW s \in Saver, RestoreEntry(s)
  PROVE  GoalInv'
<1>1. PICK k \in Key, e \in Entry, rest \in GoalSnapshots :
           /\ k \notin CaptureId /\ Shaped(k, e)
           /\ Restored(s, Stored(mem, k, e), rest)
           /\ k \in GoalId => /\ k \in DOMAIN todo[s].goal \ DOMAIN rest.goal
                              /\ ("current" \in e.tags) = todo[s].goal[k]
           /\ k \in TaskId => /\ k \in DOMAIN todo[s].task \ DOMAIN rest.task
                              /\ todo[s].task[k].status \in e.tags /\ todo[s].task[k].goal \in e.tags
           /\ \A g \in DOMAIN rest.goal : g \in DOMAIN todo[s].goal /\ rest.goal[g] = todo[s].goal[g]
           /\ \A t \in DOMAIN rest.task : t \in DOMAIN todo[s].task /\ rest.task[t] = todo[s].task[t]
  BY RestoreEntryTakes
<1>2. /\ step[s] = "restore"
      /\ UNCHANGED <<width, firstWidth, step, started, fresh, changes, raced>>
      /\ UNCHANGED fileVars
  BY DEF RestoreEntry
<1> QED BY <1>1, <1>2, RestoredInv

\* A save takes a snapshot of what is there.
LEMMA SaveInv ==
  ASSUME GoalInv, NEW s \in Saver, Save(s)
  PROVE  GoalInv'
<1> DEFINE d == SnapshotOf(mem)
<1>1. /\ d \in GoalSnapshots /\ DOMAIN d.goal = Keys(mem) \cap GoalId
      /\ DOMAIN d.task = Keys(mem) \cap TaskId /\ Listed(d) = CurrentGoals(mem)
      /\ Covers(d, mem)
  BY BeginsOK, SnapshotOfOK
<1>2. /\ TakeSnapshot(s, d) /\ step' = [step EXCEPT ![s] = "idle"] /\ step[s] = "save"
      /\ UNCHANGED <<mem, width, firstWidth, todo, started, fresh, changes>>
  BY DEF Save
<1> HIDE DEF d
<1>3. /\ step \in [Saver -> {"idle", "save", "forget", "encode", "restore"}]
      /\ copy \in [Saver -> Snapshot \cup {Torn}] /\ saving \in [Saver -> {"no", "open", "write", "rename"}]
  BY DEF GoalInv, GoalTypeOK, FileInv, FileTypeOK
<1>4. FileInv'
  BY <1>1, <1>2, TakeSnapshotInv, GoalAssumption DEF GoalInv
<1>5. GoalTypeOK'
  BY <1>2 DEF Save, Notes, GoalInv, GoalTypeOK
<1>6. StoreOK(mem') /\ EntriesShaped(mem')
  BY <1>2, BeginsOK
<1>7. Snapshots' \subseteq Snapshots \cup {d}
  BY <1>2, <1>3 DEF Snapshots, TakeSnapshot
<1>8. FreshUnknown'
  <2>1. fresh \cap (DOMAIN d.goal \cup DOMAIN d.task) = {}
    BY <1>1, BeginsOK
  <2>2. fresh' \cap Keys(mem') = {}
    BY <1>2, BeginsOK
  <2> QED BY <1>2, <1>7, <2>1, <2>2 DEF FreshUnknown, Keys, GoalInv
<1>9. OneCurrentInv'
  <2>1. "change" \notin raced' => "change" \notin raced
    BY DEF Save, Notes
  <2>2. ToBeCurrent' \subseteq ToBeCurrent
    <3>1. CurrentGoals(mem') = CurrentGoals(mem)
      BY <1>2
    <3>2. \A r \in Saver : step'[r] = "restore" => step[r] = "restore" /\ todo'[r] = todo[r]
      BY <1>2, <1>3
    <3>3. ASSUME NEW g \in ToBeCurrent' PROVE g \in ToBeCurrent
      <4>1. CASE g \in CurrentGoals(mem')
        BY <4>1, <3>1 DEF ToBeCurrent
      <4>2. CASE \E r \in Saver : step'[r] = "restore" /\ g \in Listed(todo'[r])
        BY <4>2, <3>2 DEF ToBeCurrent
      <4> QED BY <3>3, <4>1, <4>2 DEF ToBeCurrent, Listed
    <3> QED BY <3>3
  <2>3. \A g \in Listed(d) : g \in ToBeCurrent
    BY <1>1 DEF ToBeCurrent
  <2> QED BY <1>7, <2>1, <2>2, <2>3 DEF OneCurrentInv, GoalInv, Listed
<1>10. SavedInv'
  <2>1. SUFFICES ASSUME raced' = {}, ~overlapped'
                 PROVE  /\ \A r \in Saver : Saving(r)' => Records(copy[r])'
                        /\ (~failed' /\ \A r \in Saver : ~Saving(r)') => Records(Disk)'
    BY DEF SavedInv
  <2>2. ~Reencoding
    BY <2>1 DEF Save, Notes
  <2>3. \A r \in Saver : step'[r] # "restore"
    BY <1>2, <1>3, <2>2 DEF Reencoding
  <2>4. Saving(s)' /\ copy'[s] = d
    BY <1>2, <1>3 DEF TakeSnapshot, Saving
  <2>5. \A r \in Saver : Saving(r)' => r = s
    BY <1>2, <1>3, <2>1 DEF TakeSnapshot, Saving
  <2>6. ASSUME NEW r \in Saver, Saving(r)' PROVE Records(copy[r])'
    <3>1. copy'[r] = d
      BY <2>4, <2>5, <2>6
    <3> QED BY <1>1, <1>2, <2>3, <3>1 DEF Records
  <2> QED BY <2>4, <2>6
<1> QED BY <1>4, <1>5, <1>6, <1>8, <1>9, <1>10 DEF GoalInv

\* A save goes on: the snapshot in hand comes to be the file, or the save has failed.
LEMMA SaveStepInv ==
  ASSUME GoalInv, NEW s \in Saver, SaveStep(s)
  PROVE  GoalInv'
<1>1. (Open(s) \/ Write(s) \/ Rename(s) \/ SaveFails(s)) /\ UNCHANGED memVars
  BY DEF SaveStep
<1>2. /\ mem' = mem /\ fresh' = fresh /\ step' = step /\ todo' = todo /\ raced' = raced
      /\ UNCHANGED <<width, firstWidth, started, changes>>
  BY <1>1 DEF memVars
<1>3. /\ FileInv /\ FileTypeOK /\ overlapped' = overlapped
      /\ \A r \in Saver : copy'[r] = copy[r] \/ (copy'[r] = Torn /\ saving'[r] = "no")
  <2>1. FileInv /\ FileTypeOK
    BY DEF GoalInv, FileInv
  <2> QED BY <1>1, <2>1 DEF Open, Write, Rename, SaveFails, EndSave, FileTypeOK
<1>4. FileInv'
  BY <1>1, <1>3, FileStep DEF FileNext
<1>5. GoalTypeOK' /\ StoreOK(mem') /\ EntriesShaped(mem')
  <2>1. GoalTypeOK'
    BY <1>2 DEF GoalInv, GoalTypeOK
  <2> QED BY <1>2, <2>1, BeginsOK
<1>6. Snapshots' \subseteq Snapshots
  <2>1. ASSUME NEW o \in Object, contents'[o] # Torn
        PROVE  contents'[o] = contents[o] \/ contents'[o] = copy[s]
    BY <1>1, <1>3, <2>1 DEF Open, Write, Rename, SaveFails, EndSave, FileTypeOK
  <2> QED BY <1>2, <1>3, <2>1 DEF Snapshots
<1>7. FreshUnknown'
  <2>1. fresh' \cap Keys(mem') = {}
    BY <1>2, BeginsOK
  <2> QED BY <1>2, <1>6, <2>1 DEF FreshUnknown, Keys, GoalInv
<1>8. OneCurrentInv'
  <2>1. ToBeCurrent' = ToBeCurrent
    BY <1>2 DEF ToBeCurrent
  <2> QED BY <1>2, <1>6, <2>1 DEF OneCurrentInv, GoalInv, Listed
<1>9. \A d : Records(d)' = Records(d)
  BY <1>2 DEF Records
<1>10. SavedInv'
  <2>1. SUFFICES ASSUME raced' = {}, ~overlapped', \A r \in Saver : step'[r] # "save"
                 PROVE  /\ \A r \in Saver : Saving(r)' => Records(copy'[r])
                        /\ (~failed' /\ \A r \in Saver : ~Saving(r)') => Records(Disk')
    BY <1>9 DEF SavedInv, Records
  <2>2. \A r \in Saver : Saving(r) => Records(copy[r])
    BY <1>2, <1>3, <2>1 DEF GoalInv, SavedInv
  <2>3. /\ Saving(s) /\ NamesApart /\ OneSaver /\ SaverAlone
    BY <1>1, <1>3, <2>1 DEF Open, Write, Rename, SaveFails, EndSave, Saving, GoalInv, FileInv
  <2>4. \A r \in Saver : Saving(r)' => Saving(r) /\ copy'[r] = copy[r]
    BY <1>1, <1>3 DEF Open, Write, Rename, SaveFails, EndSave, Saving, FileTypeOK
  <2>5. CASE Open(s) \/ Write(s)
    <3>1. Saving(s)'
      BY <1>3, <2>5 DEF Open, Write, Saving, FileTypeOK
    <3> QED BY <1>3, <2>2, <2>4, <3>1
  <2>6. CASE Rename(s)
    <3>1. tmp \in Object /\ contents[tmp] = copy[s] /\ contents' = contents
      BY <2>3, <2>6 DEF Rename, EndSave, SaverAlone
    <3>2. goals' = tmp
      BY <2>6, <3>1, GoalFileAssumption DEF Rename, EndSave
    <3>3. Disk' = copy[s]
      BY <3>1, <3>2, GoalFileAssumption DEF Disk
    <3> QED BY <1>3, <2>2, <2>3, <2>4, <3>3
  <2>7. CASE SaveFails(s)
    BY <1>3, <2>2, <2>4, <2>7 DEF SaveFails, EndSave
  <2> QED BY <1>1, <2>5, <2>6, <2>7
<1> QED BY <1>4, <1>5, <1>7, <1>8, <1>10 DEF GoalInv

\* An empty store.
LEMMA EmptyOK == StoreOK(EmptyStore) /\ EntriesShaped(EmptyStore) /\ Keys(EmptyStore) = {}
                 /\ ByCategory(EmptyStore, "goal") = {} /\ ByCategory(EmptyStore, "task") = {}
                 /\ CurrentGoals(EmptyStore) = {}
<1> DEFINE st == EmptyStore
<1>1. /\ st.entries = <<>> /\ st.bytes = 0 /\ st.catBytes = [c \in Category |-> 0]
      /\ st.byCat = [c \in Category |-> {}] /\ st.byTag = [t \in Tag |-> {}]
      /\ st = [entries |-> st.entries, bytes |-> st.bytes, catBytes |-> st.catBytes,
               byCat |-> st.byCat, byTag |-> st.byTag]
  BY DEF EmptyStore
<1> HIDE DEF st
<1>2. Keys(st) = {} /\ st.entries \in [Keys(st) -> Entry]
  BY <1>1 DEF Keys
<1>3. StoreTypeOK(st)
  BY <1>1, <1>2 DEF StoreTypeOK
<1>4. IsFiniteSet({}) /\ Cardinality({}) = 0 /\ Bytes(st, {}) = 0
  BY FS_EmptySet, BytesNone
<1>5. StoreAccounts(st)
  BY <1>1, <1>2, <1>4, MemoryAssumption DEF StoreAccounts
<1>6. StoreOK(st) /\ EntriesShaped(st)
  BY <1>2, <1>3, <1>4, <1>5 DEF StoreOK, EntriesShaped
<1> QED BY <1>2, <1>6, CategoryKeys DEF st

\* The file, or nothing, is going to be restored to an empty store.
LEMMA RestartInv ==
  ASSUME GoalInv, Restart
  PROVE  GoalInv'
<1>1. PICK s \in Saver :
        /\ todo' = [r \in Saver |-> IF r = s /\ goals # Nowhere /\ contents[goals] # Torn
                                    THEN contents[goals] ELSE NoSnapshot]
        /\ step' = [r \in Saver |-> IF r = s THEN "restore" ELSE "idle"]
  BY DEF Restart
<1>2. /\ Killed /\ mem' = EmptyStore /\ fresh' = fresh /\ raced' = raced
      /\ changes' = changes + 1 /\ started' = FALSE /\ width' \in Width /\ firstWidth' = width'
  BY DEF Restart
<1>3. FileTypeOK /\ Snapshot = GoalSnapshots
  BY GoalAssumption DEF GoalInv, FileInv
<1>4. FileInv'
  BY <1>2, KilledInv DEF GoalInv
<1>5. \A r \in Saver : todo'[r] = NoSnapshot \/ (todo'[r] \in Snapshots /\ todo'[r] \in GoalSnapshots)
  <2> TAKE r \in Saver
  <2>1. CASE r = s /\ goals # Nowhere /\ contents[goals] # Torn
    BY <1>1, <1>3, <2>1 DEF FileTypeOK, Snapshots
  <2>2. CASE ~(r = s /\ goals # Nowhere /\ contents[goals] # Torn)
    BY <1>1, <2>2
  <2> QED BY <2>1, <2>2
<1>6. GoalTypeOK'
  <2>1. todo' \in [Saver -> GoalSnapshots]
    BY <1>1, <1>5, NoSnapshotOK
  <2>2. step' \in [Saver -> {"idle", "save", "forget", "encode", "restore"}]
    BY <1>1
  <2>3. changes' \in Nat /\ started' \in BOOLEAN /\ raced' \subseteq {"change", "snapshot"}
        /\ fresh' \subseteq GoalId \cup TaskId /\ width' \in Width /\ firstWidth' \in Width
    <3>1. changes \in Nat /\ raced \subseteq {"change", "snapshot"} /\ fresh \subseteq GoalId \cup TaskId
      BY DEF GoalInv, GoalTypeOK
    <3>2. changes' \in Nat
      BY <1>2, <3>1
    <3>3. raced' \subseteq {"change", "snapshot"} /\ fresh' \subseteq GoalId \cup TaskId
      BY <1>2, <3>1
    <3>4. width' \in Width /\ firstWidth' \in Width /\ started' \in BOOLEAN
      BY <1>2
    <3> QED BY <3>2, <3>3, <3>4
  <2> QED BY <2>1, <2>2, <2>3 DEF GoalTypeOK
<1>7. StoreOK(mem') /\ EntriesShaped(mem') /\ Keys(mem') = {} /\ CurrentGoals(mem') = {}
      /\ ByCategory(mem', "goal") = {} /\ ByCategory(mem', "task") = {}
  BY <1>2, EmptyOK
<1>8. Snapshots' \subseteq Snapshots \cup {NoSnapshot}
  BY <1>2, <1>5 DEF Snapshots, Killed
<1>9. FreshUnknown'
  BY <1>2, <1>7, <1>8, NoSnapshotOK DEF FreshUnknown, Keys, GoalInv
<1>10. OneCurrentInv'
  <2>1. SUFFICES ASSUME "change" \notin raced PROVE OneCurrentInv'
    BY <1>2 DEF OneCurrentInv
  <2>2. \A d \in Snapshots' : \A g, h \in Listed(d) : g = h
    BY <1>8, <2>1, NoSnapshotOK DEF GoalInv, OneCurrentInv
  <2>3. ASSUME NEW g \in ToBeCurrent' PROVE g \in Listed(todo'[s])
    <3>1. \E r \in Saver : step'[r] = "restore" /\ g \in Listed(todo'[r])
      BY <1>7, <2>3 DEF ToBeCurrent, Listed
    <3> QED BY <1>1, <3>1
  <2>4. todo'[s] \in Snapshots'
    BY <1>5, <1>6 DEF Snapshots, GoalTypeOK
  <2> QED BY <2>2, <2>3, <2>4 DEF OneCurrentInv, Listed
<1>11. SavedInv'
  <2>1. SUFFICES ASSUME ~overlapped
                 PROVE  /\ \A r \in Saver : Saving(r)' => Records(copy[r])'
                        /\ (~failed' /\ \A r \in Saver : ~Saving(r)') => Records(Disk)'
    BY <1>2 DEF SavedInv, Killed
  <2>2. \A r \in Saver : ~Saving(r)'
    BY <1>2 DEF Killed, Saving
  <2>3. \A d : Covers(d, mem')
    BY <1>7 DEF Covers
  <2>4. Disk' = Disk
    BY <1>2 DEF Disk, Killed
  <2>5. Includes(Disk, todo'[s])
    <3>1. CASE goals # Nowhere /\ contents[goals] # Torn
      BY <1>1, <3>1 DEF Includes, Disk
    <3>2. CASE ~(goals # Nowhere /\ contents[goals] # Torn)
      BY <1>1, <3>2, NoSnapshotOK DEF Includes
    <3> QED BY <3>1, <3>2
  <2>6. \A r \in Saver : step'[r] = "restore" => r = s
    BY <1>1
  <2>7. Records(Disk)'
    BY <2>3, <2>4, <2>5, <2>6 DEF Records
  <2> QED BY <2>2, <2>7
<1> QED BY <1>4, <1>6, <1>7, <1>9, <1>10, <1>11 DEF GoalInv

LEMMA GoalInitInv == GoalInit => GoalInv
<1> SUFFICES ASSUME GoalInit PROVE GoalInv
  OBVIOUS
<1>1. FileInv
  BY FileInitInv DEF GoalInit
<1>2. /\ mem = EmptyStore /\ \A s \in Saver : step[s] = "idle" /\ todo[s] = NoSnapshot
      /\ \A s \in Saver : saving[s] = "no" /\ copy[s] = Torn
      /\ goals = Nowhere /\ \A o \in Object : contents[o] = Torn
  BY DEF GoalInit, FileInit
<1>3. StoreOK(mem) /\ EntriesShaped(mem) /\ Keys(mem) = {} /\ CurrentGoals(mem) = {}
      /\ ByCategory(mem, "goal") = {} /\ ByCategory(mem, "task") = {}
  BY <1>2, EmptyOK
<1>4. GoalTypeOK
  BY NoSnapshotOK DEF GoalInit, GoalTypeOK
<1>5. Snapshots \subseteq {NoSnapshot}
  BY <1>2 DEF Snapshots
<1>6. FreshUnknown
  BY <1>3, <1>5, NoSnapshotOK DEF FreshUnknown
<1>7. OneCurrentInv
  BY <1>2, <1>3, <1>5, NoSnapshotOK DEF OneCurrentInv, ToBeCurrent
<1>8. SavedInv
  BY <1>2, <1>3 DEF SavedInv, Saving, Records, Covers
<1> QED BY <1>1, <1>3, <1>4, <1>6, <1>7, <1>8 DEF GoalInv

-----------------------------------------------------------------------------
(* The theorems *)

LEMMA GoalStep == GoalInv /\ [GoalNext]_goalVars => GoalInv'
<1> SUFFICES ASSUME GoalInv, [GoalNext]_goalVars PROVE GoalInv'
  OBVIOUS
<1>1. ASSUME NEW s \in Saver, SetGoal(s) PROVE GoalInv'
  BY <1>1, SetGoalInv
<1>2. ASSUME NEW s \in Saver, SetCurrent(s) PROVE GoalInv'
  BY <1>2, SetCurrentInv
<1>3. ASSUME NEW s \in Saver, AddTask(s) PROVE GoalInv'
  BY <1>3, AddTaskInv
<1>4. ASSUME NEW s \in Saver, UpdateTask(s) PROVE GoalInv'
  BY <1>4, UpdateTaskInv
<1>5. ASSUME NEW s \in Saver, SetStatus(s) PROVE GoalInv'
  BY <1>5, SetStatusInv
<1>6. ASSUME NEW s \in Saver, Save(s) PROVE GoalInv'
  BY <1>6, SaveInv
<1>7. ASSUME NEW s \in Saver, SaveStep(s) PROVE GoalInv'
  BY <1>7, SaveStepInv
<1>8. ASSUME NEW s \in Saver, SelectModel(s) PROVE GoalInv'
  BY <1>8, SelectModelInv
<1>9. ASSUME NEW s \in Saver, Forget(s) PROVE GoalInv'
  BY <1>9, ForgetInv
<1>10. ASSUME NEW s \in Saver, ReencodeAll(s) PROVE GoalInv'
  BY <1>10, ReencodeAllInv
<1>11. ASSUME NEW s \in Saver, RestoreEntry(s) PROVE GoalInv'
  BY <1>11, RestoreEntryInv
<1>12. ASSUME NEW s \in Saver, RestoreEnd(s) PROVE GoalInv'
  BY <1>12, RestoreEndInv
<1>13. CASE Capture
  BY <1>13, CaptureInv
<1>14. CASE Expire
  BY <1>14, ExpireInv
<1>15. CASE Restart
  BY <1>15, RestartInv
<1>16. CASE UNCHANGED goalVars
  <2>1. StoreOK(mem') /\ EntriesShaped(mem') /\ mem' = mem
    BY <1>16, BeginsOK DEF goalVars, memVars
  <2>2. GoalTypeOK'
    BY <1>16 DEF goalVars, memVars, GoalInv, GoalTypeOK
  <2> QED BY <1>16, <2>1, <2>2, QuietStepInv DEF goalVars, memVars
<1> QED
  BY <1>1, <1>2, <1>3, <1>4, <1>5, <1>6, <1>7, <1>8, <1>9, <1>10, <1>11, <1>12, <1>13, <1>14,
     <1>15, <1>16 DEF GoalNext

\* The store, the goals, their file and the handlers stay as GoalInv says.
THEOREM GoalInvariant == GoalSpec => []GoalInv
  BY GoalInitInv, GoalStep, PTL DEF GoalSpec

\* memory_store.rs: whatever is stored, replaced, expired, evicted, forgotten and restored,
\* total_bytes, the bytes of each category and both indexes agree with the entries, and no
\* budget is exceeded.
THEOREM BooksAreExact == GoalSpec => []MemoryAccounts
<1>1. GoalInv => MemoryAccounts
  BY DEF GoalInv, StoreOK, MemoryAccounts
<1> QED BY <1>1, GoalInvariant, PTL

\* goal_manager.rs, set_goal and set_current: one goal is current, whatever is saved,
\* re-encoded or loaded again, as long as no goal changes during a re-encoding.
THEOREM OneGoalIsCurrent == GoalSpec => []OneCurrentGoal
<1>1. GoalInv => OneCurrentGoal
  <2> SUFFICES ASSUME GoalInv, "change" \notin raced
               PROVE  Cardinality(CurrentGoals(mem)) <= 1
    BY DEF OneCurrentGoal
  <2>1. \A g, h \in CurrentGoals(mem) : g = h
    BY DEF GoalInv, OneCurrentInv, ToBeCurrent
  <2>2. CASE CurrentGoals(mem) = {}
    BY <2>2, FS_EmptySet
  <2>3. CASE CurrentGoals(mem) # {}
    <3>1. PICK g : g \in CurrentGoals(mem)
      BY <2>3
    <3>2. CurrentGoals(mem) = {g}
      BY <2>1, <3>1
    <3>3. Cardinality({g}) = 1
      BY FS_Singleton
    <3> QED BY <3>2, <3>3
  <2> QED BY <2>2, <2>3
<1> QED BY <1>1, GoalInvariant, PTL

\* GoalManager::save after every change: once the handlers are done, the file has every goal
\* and every task of the store as it is, unless the last save failed, saves overlapped or
\* something raced a re-encoding.
THEOREM FileHasWhatIsThere == GoalSpec => []SavedWhenQuiet
<1>1. GoalInv => SavedWhenQuiet
  <2> SUFFICES ASSUME GoalInv, Quiet, ~failed, ~overlapped, raced = {}
               PROVE  Covers(Disk, mem)
    BY DEF SavedWhenQuiet, Covers, Disk
  <2>1. \A s \in Saver : step[s] # "save" /\ ~Saving(s)
    BY DEF Quiet
  <2>2. Records(Disk)
    BY <2>1 DEF GoalInv, SavedInv
  <2> QED BY <2>2 DEF Records
<1> QED BY <1>1, GoalInvariant, PTL

-----------------------------------------------------------------------------
(* What is pinned stays *)

\* Eviction leaves what is pinned.
LEMMA StoredKeeps ==
  ASSUME NEW st, StoreOK(st), EntriesShaped(st), NEW key \in Key, NEW e \in Entry,
         NEW s \in Stored(st, key, e), NEW k \in Keys(st) \ Keys(s), st.entries[k].pinned
  PROVE  k = key
<1>1. k = key \/ k \in Evictable(st)
  BY StoredOK
<1>2. k \in Key /\ Shaped(k, st.entries[k])
  BY DEF StoreOK, StoreTypeOK, EntriesShaped
<1>3. st.entries[k].ttl = "expired" => k = StatusKey
  BY <1>2, ShapeFacts
<1>4. k \in GoalId \cup TaskId
  BY <1>2, ShapeFacts
<1> QED BY <1>1, <1>3, <1>4, KeyKinds DEF Evictable

\* An entry stored again as large as it was is still there.
LEMMA PutBackKeeps ==
  ASSUME NEW st, StoreOK(st), NEW key \in Keys(st), NEW e \in Entry,
         e.size = st.entries[key].size, e.cat = st.entries[key].cat, NEW s \in Stored(st, key, e)
  PROVE  key \in Keys(s)
<1>1. s = Inserted(Removed(st, {key}), key, e)
  BY PutBack
<1> DEFINE r == Removed(st, {key})
<1> HIDE DEF r
<1>2. s = Inserted(r, key, e)
  BY <1>1 DEF r
<1> QED BY <1>2 DEF Inserted, Keys

\* Pinned goals are shaped goals: so are those whose tag is cleared.
LEMMA SetGoalKeeps ==
  ASSUME GoalInv, NEW s \in Saver, SetGoal(s), NEW k \in Keys(mem) \ Keys(mem'), mem.entries[k].pinned
  PROVE  FALSE
<1>1. PICK g \in fresh \cap GoalId, size \in EncodedSizes :
        mem' \in Stored(Uncurrent(mem), g, GoalEntry(g, TRUE, size))
  BY DEF SetGoal, Changes
<1> DEFINE u == Uncurrent(mem)
           e == GoalEntry(g, TRUE, size)
<1>2. /\ StoreOK(u) /\ EntriesShaped(u) /\ Keys(u) = Keys(mem) /\ CurrentGoals(u) = {}
      /\ \A l \in Keys(mem) : l \notin CurrentGoals(mem) => u.entries[l] = mem.entries[l]
  <2>1. StoreOK(mem) /\ EntriesShaped(mem)
    BY ONLY GoalInv, BeginsOK
  <2>2. /\ StoreOK(u) /\ EntriesShaped(u) /\ Keys(u) = Keys(mem) /\ CurrentGoals(u) = {}
        /\ \A l \in Keys(mem) : u.entries[l] = IF l \in CurrentGoals(mem)
                                                THEN GoalEntry(l, FALSE, mem.entries[l].size)
                                                ELSE mem.entries[l]
    BY ONLY <2>1, UncurrentOK
  <2> QED BY ONLY <2>2
<1>3. e \in Entry /\ Shaped(g, e) /\ g \in Key /\ g \notin Keys(mem)
  BY GoalEntryOK, BeginsOK, KeyKinds, TRUE \in BOOLEAN
<1>4. mem' \in Stored(u, g, e)
  BY <1>1
<1> HIDE DEF u, e
<1>5. u.entries[k].pinned
  <2>1. CASE k \in GoalId
    <3>1. Shaped(k, u.entries[k]) /\ k \in Key
      BY <1>2, <2>1, KeyKinds DEF EntriesShaped
    <3> QED BY <2>1, <3>1, ShapeFacts
  <2>2. CASE k \notin GoalId
    <3>1. k \notin CurrentGoals(mem)
      BY <2>2, BeginsOK, CategoryKeys
    <3> QED BY <1>2, <3>1
  <2> QED BY <2>1, <2>2
<1>6. k = g
  BY <1>2, <1>3, <1>4, <1>5, StoredKeeps
<1> QED BY <1>3, <1>6

LEMMA UpdateTaskKeeps ==
  ASSUME GoalInv, NEW s \in Saver, UpdateTask(s), NEW k \in Keys(mem) \ Keys(mem'), mem.entries[k].pinned
  PROVE  FALSE
<1>1. PICK t \in TaskId, status \in TaskStatus :
        IF Live(mem, t)
        THEN mem' \in Stored(mem, t, TaskEntry(GoalOf(mem.entries[t]), status, mem.entries[t].size))
        ELSE mem' = mem
  BY DEF UpdateTask, Changes, Refused
<1>2. Live(mem, t) /\ t \in Keys(mem)
  BY <1>1 DEF Live
<1> DEFINE e == TaskEntry(GoalOf(mem.entries[t]), status, mem.entries[t].size)
<1>3. e \in Entry /\ Shaped(t, e) /\ e.size = mem.entries[t].size /\ e.cat = mem.entries[t].cat /\ t \in Key
  BY <1>2, BeginsOK, TaskAgainOK, KeyKinds
<1>4. mem' \in Stored(mem, t, e)
  BY <1>1, <1>2
<1> HIDE DEF e
<1>5. k = t
  BY <1>3, <1>4, BeginsOK, StoredKeeps
<1>6. t \in Keys(mem')
  BY <1>2, <1>3, <1>4, BeginsOK, PutBackKeeps
<1> QED BY <1>5, <1>6

\* What is stored under a key that was not there, or under the key of the status.
LEMMA NewcomerKeeps ==
  ASSUME GoalInv, NEW key \in Key, NEW e \in Entry, mem' \in Stored(mem, key, e),
         key \notin Keys(mem) \/ key = StatusKey,
         NEW k \in Keys(mem) \ Keys(mem'), mem.entries[k].pinned
  PROVE  FALSE
<1>1. k = key
  BY BeginsOK, StoredKeeps
<1>2. k \in Key /\ Shaped(k, mem.entries[k])
  BY BeginsOK DEF EntriesShaped
<1> QED BY <1>1, <1>2, ShapeFacts, KeyKinds

LEMMA PinnedKept ==
  ASSUME GoalInv, GoalNext, NEW k \in Keys(mem) \ Keys(mem'), mem.entries[k].pinned
  PROVE  \/ ~started'
         \/ \E s \in Saver : \/ k \in DOMAIN todo[s].goal \ DOMAIN todo'[s].goal
                             \/ k \in DOMAIN todo[s].task \ DOMAIN todo'[s].task
<1>1. ASSUME NEW s \in Saver, SetGoal(s) PROVE FALSE
  BY <1>1, SetGoalKeeps
<1>2. ASSUME NEW s \in Saver, SetCurrent(s) PROVE FALSE
  <2>1. PICK g \in GoalId : IF Live(mem, g) THEN mem' \in CurrentAfter(mem, g) ELSE mem' = mem
    BY <1>2 DEF SetCurrent, Changes, Refused
  <2>2. g \in Keys(mem) /\ mem' \in CurrentAfter(mem, g)
    BY <2>1 DEF Live
  <2>3. Keys(mem') = Keys(mem)
    BY <2>2, BeginsOK, CurrentAfterOK
  <2> QED BY <2>3
<1>3. ASSUME NEW s \in Saver, AddTask(s) PROVE FALSE
  <2>1. PICK t \in fresh \cap TaskId, g \in GoalId, size \in EncodedSizes :
          mem' \in Stored(mem, t, TaskEntry(g, "active", size))
    BY <1>3 DEF AddTask, Changes
  <2>2. TaskEntry(g, "active", size) \in Entry /\ t \in Key /\ t \notin Keys(mem)
    BY TaskEntryOK, BeginsOK, KeyKinds DEF TaskStatus
  <2> QED BY <2>1, <2>2, NewcomerKeeps
<1>4. ASSUME NEW s \in Saver, UpdateTask(s) PROVE FALSE
  BY <1>4, UpdateTaskKeeps
<1>5. ASSUME NEW s \in Saver, SetStatus(s) PROVE FALSE
  <2>1. PICK g \in (IF CurrentGoals(mem) = {} THEN {NoGoal} ELSE CurrentGoals(mem)), size \in EncodedSizes :
          mem' \in Stored(mem, StatusKey, StatusEntry(g, size))
    BY <1>5 DEF SetStatus, Changes
  <2>2. g \in GoalId \cup {NoGoal}
    BY BeginsOK, CategoryKeys
  <2>3. StatusEntry(g, size) \in Entry /\ StatusKey \in Key
    BY <2>2, StatusLive, BeginsOK, KeyKinds
  <2> QED BY <2>1, <2>3, NewcomerKeeps
<1>6. ASSUME NEW s \in Saver,
             Save(s) \/ SaveStep(s) \/ SelectModel(s) \/ ReencodeAll(s) \/ RestoreEnd(s)
      PROVE  FALSE
  BY <1>6 DEF Save, SaveStep, memVars, SelectModel, ReencodeAll, RestoreEnd
<1>7. ASSUME NEW s \in Saver, Forget(s) PROVE FALSE
  <2> DEFINE keys == ByCategory(mem, "context")
  <2>1. mem' = Removed(mem, keys) /\ keys \subseteq Keys(mem) \cap CaptureId
    BY <1>7, BeginsOK, CategoryKeys DEF Forget, Forgotten
  <2> HIDE DEF keys
  <2>2. Keys(mem') = Keys(mem) \ keys
    BY <2>1, BeginsOK, RemovedOK
  <2>3. k \in CaptureId /\ k \in Key /\ Shaped(k, mem.entries[k])
    BY <2>1, <2>2, BeginsOK DEF EntriesShaped
  <2> QED BY <2>3, ShapeFacts, KeyKinds
<1>8. ASSUME NEW s \in Saver, RestoreEntry(s)
      PROVE  \/ k \in DOMAIN todo[s].goal \ DOMAIN todo'[s].goal
             \/ k \in DOMAIN todo[s].task \ DOMAIN todo'[s].task
  <2>1. PICK key \in Key, e \in Entry, rest \in GoalSnapshots :
           /\ key \notin CaptureId
           /\ Restored(s, Stored(mem, key, e), rest)
           /\ key \in GoalId => key \in DOMAIN todo[s].goal \ DOMAIN rest.goal
           /\ key \in TaskId => key \in DOMAIN todo[s].task \ DOMAIN rest.task
    <3>1. RestoreEntry(s)
      BY <1>8
    <3> QED BY <3>1, RestoreEntryTakes
  <2>2. mem' \in Stored(mem, key, e) /\ todo'[s] = rest
    BY <2>1 DEF Restored, GoalInv, GoalTypeOK
  <2>3. k = key
    BY <2>2, BeginsOK, StoredKeeps
  <2>4. k \in GoalId \cup TaskId
    <3>1. k \in Key /\ Shaped(k, mem.entries[k])
      BY BeginsOK DEF EntriesShaped
    <3> QED BY <3>1, ShapeFacts
  <2> QED BY <2>1, <2>2, <2>3, <2>4
<1>9. CASE Capture
  <2>1. PICK c \in CaptureId : c \notin Keys(mem) /\ mem' \in Stored(mem, c, CaptureEntry(width))
    BY <1>9 DEF Capture
  <2>2. CaptureEntry(width) \in Entry /\ c \in Key
    BY CaptureEntryOK, BeginsOK, KeyKinds
  <2> QED BY <2>1, <2>2, NewcomerKeeps
<1>10. CASE Expire
  <2>1. PICK l \in Keys(mem) : mem' = [mem EXCEPT !.entries[l].ttl = "expired"]
    BY <1>10 DEF Expire
  <2> DEFINE en == [mem.entries EXCEPT ![l] = [mem.entries[l] EXCEPT !.ttl = "expired"]]
  <2>2. DOMAIN en = Keys(mem)
    BY DEF Keys
  <2>3. mem' = [mem EXCEPT !.entries = en]
    BY <2>1
  <2> HIDE DEF en
  <2>4. mem'.entries = en
    BY <2>3, BeginsOK DEF StoreOK, StoreTypeOK
  <2> QED BY <2>2, <2>4 DEF Keys
<1>11. CASE Restart
  BY <1>11 DEF Restart
<1> QED
  BY <1>1, <1>2, <1>3, <1>4, <1>5, <1>6, <1>7, <1>8, <1>9, <1>10, <1>11 DEF GoalNext

\* "Pinned entries are never evicted": one that is gone was itself restored, too wide
\* for its category's budget, or went with the process.
THEOREM PinnedStays == GoalSpec => PinnedSurvives
<1>1. GoalInv /\ [GoalNext]_goalVars =>
        [\A k \in Keys(mem) \ Keys(mem') :
           mem.entries[k].pinned =>
             \/ ~started'
             \/ \E s \in Saver : \/ k \in DOMAIN todo[s].goal \ DOMAIN todo'[s].goal
                                 \/ k \in DOMAIN todo[s].task \ DOMAIN todo'[s].task]_goalVars
  BY PinnedKept
<1> QED BY <1>1, GoalInvariant, PTL DEF GoalSpec, PinnedSurvives

-----------------------------------------------------------------------------
(* The handlers' saves are those of GoalFile *)

\* A save is one of the snapshots GoalFile may save, and nothing else touches the files.
LEMMA FileStepOfGoals ==
  ASSUME GoalInv, [GoalNext]_goalVars
  PROVE  [FileNext]_fileVars
<1>1. ASSUME NEW s \in Saver, Save(s) PROVE FileNext
  <2>1. SnapshotOf(mem) \in Snapshot
    BY BeginsOK, SnapshotOfOK, GoalAssumption
  <2> QED BY <1>1, <2>1 DEF Save, FileNext
<1>2. ASSUME NEW s \in Saver, SaveStep(s) PROVE FileNext
  BY <1>2 DEF SaveStep, FileNext
<1>3. CASE Restart
  BY <1>3 DEF Restart, FileNext
<1>4. ASSUME NEW s \in Saver, SetGoal(s) \/ SetCurrent(s) \/ AddTask(s) \/ UpdateTask(s) \/ SetStatus(s)
      PROVE  UNCHANGED fileVars
  BY <1>4 DEF SetGoal, SetCurrent, AddTask, UpdateTask, SetStatus, Changes, Refused
<1>5. ASSUME NEW s \in Saver, SelectModel(s) \/ Forget(s) \/ ReencodeAll(s) \/ RestoreEntry(s) \/ RestoreEnd(s)
      PROVE  UNCHANGED fileVars
  BY <1>5 DEF SelectModel, Forget, ReencodeAll, RestoreEntry, RestoreEnd
<1>6. CASE Capture \/ Expire
  BY <1>6 DEF Capture, Expire
<1>7. CASE UNCHANGED goalVars
  BY <1>7 DEF goalVars
<1> QED
  BY <1>1, <1>2, <1>3, <1>4, <1>5, <1>6, <1>7 DEF GoalNext

\* The goals, tasks and status, saved by any handlers in any order, save their file as
\* GoalFile says.
THEOREM GoalsSaveTheFile == GoalSpec => FileSpec
<1>1. GoalInit => FileInit
  BY DEF GoalInit
<1> QED BY <1>1, FileStepOfGoals, GoalInvariant, PTL DEF GoalSpec, FileSpec

=============================================================================
