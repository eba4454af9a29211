---------------------------- MODULE DatabaseProofs ---------------------------
(***************************************************************************)
(* The properties of Database for every finite set of keys that size_t can *)
(* count.  KeyCount is inductive together with the type invariant: each    *)
(* operation is a lemma about one database, so that it can be used again   *)
(* for whatever composes operations.                                       *)
(***************************************************************************)
EXTENDS Database, FiniteSetTheorems, TLAPS

\* KeyCount of a database.
Counted(d) == d.key_count = Cardinality(DOMAIN d.h)

LEMMA ModSmall ==
    ASSUME NEW S \in Nat \ {0}, NEW x \in 0 .. (S - 1)
    PROVE  x % S = x
OBVIOUS

\* size_t arithmetic stays in size_t and is exact where it does not wrap.
LEMMA SizeTFacts ==
    /\ \A n \in Int : SizeT(n) \in 0 .. (SizeMod - 1)
    /\ \A n \in 0 .. (SizeMod - 1) : SizeT(n) = n
BY SizeModAssumption, ModSmall DEF SizeT

\* A table over keys is finite and small enough for size_t.
LEMMA TableFinite ==
    ASSUME NEW D \in SUBSET Keys
    PROVE  IsFiniteSet(D) /\ Cardinality(D) \in 0 .. (SizeMod - 1)
<1>1. IsFiniteSet(D) /\ Cardinality(D) <= Cardinality(Keys)
  BY KeysAssumption, FS_Subset, Zenon
<1>2. Cardinality(D) \in Nat /\ Cardinality(Keys) \in Nat
  BY <1>1, KeysAssumption, FS_CardinalityType, Zenon
<1>. QED
  BY <1>1, <1>2, KeysAssumption, SizeModAssumption

\* set keeps the type and the count, whether it inserts or replaces.
LEMMA SetKeeps ==
    ASSUME NEW d, IsDb(d), Counted(d), NEW key \in Keys, NEW v \in Value
    PROVE  IsDb(set(d, key, v)) /\ Counted(set(d, key, v))
<1>1. PICK D \in SUBSET Keys : d \in DbOver(D)
  BY Zenon DEF IsDb
<1> DEFINE E == D \cup {key}
<1>2. D = DOMAIN d.h /\ E \in SUBSET Keys
  BY <1>1, Zenon DEF DbOver
<1>3. /\ IsFiniteSet(D) /\ Cardinality(D) \in 0 .. (SizeMod - 1)
      /\ Cardinality(E) \in 0 .. (SizeMod - 1)
  BY <1>2, TableFinite, Zenon
<1>4. Cardinality(E) = IF key \in D THEN Cardinality(D) ELSE Cardinality(D) + 1
  BY <1>3, FS_AddElement, Zenon
<1>5. /\ set(d, key, v).h \in [E -> Value]
      /\ DOMAIN set(d, key, v).h = E
  BY <1>1, <1>2, Zenon DEF set, DbOver
<1>6. set(d, key, v).key_count = Cardinality(E)
  BY <1>2, <1>3, <1>4, SizeTFacts, Zenon DEF set, Counted
<1>7. set(d, key, v).expiry_count \in 0 .. (SizeMod - 1)
  BY <1>1, SizeTFacts, SizeModAssumption DEF set, DbOver
<1>8. set(d, key, v) \in DbOver(E)
  BY <1>3, <1>5, <1>6, <1>7, Zenon DEF set, DbOver
<1>. QED
  BY <1>2, <1>5, <1>6, <1>8, Zenon DEF Counted, IsDb

\* Taking a present key out of the table leaves one key less to count.
LEMMA WithoutKey ==
    ASSUME NEW d, NEW D \in SUBSET Keys, d \in DbOver(D), Counted(d), NEW key \in D
    PROVE  /\ D \ {key} \in SUBSET Keys
           /\ Without(d.h, key) \in [D \ {key} -> Value]
           /\ SizeT(d.key_count - 1) = Cardinality(D \ {key})
           /\ SizeT(d.key_count - 1) \in 0 .. (SizeMod - 1)
           /\ SizeT(d.expiry_count - 1) \in 0 .. (SizeMod - 1)
<1>1. D = DOMAIN d.h /\ D \ {key} \in SUBSET Keys
  BY Zenon DEF DbOver
<1>2. Without(d.h, key) \in [D \ {key} -> Value]
  BY <1>1, Zenon DEF Without, DbOver
<1>3. Cardinality(D \ {key}) = Cardinality(D) - 1
  BY TableFinite, FS_RemoveElement, Zenon
<1>4. Cardinality(D) \in Int /\ Cardinality(D \ {key}) \in 0 .. (SizeMod - 1)
  BY <1>1, TableFinite
<1>5. d.expiry_count \in Int /\ d.expiry_count - 1 \in Int
  BY DEF DbOver
<1>. QED
  BY <1>1, <1>2, <1>3, <1>4, <1>5, SizeTFacts, Zenon DEF Counted

\* get keeps the type and the count, whether or not the key has expired.
LEMMA GetKeeps ==
    ASSUME NEW d, IsDb(d), Counted(d), NEW key, NEW time
    PROVE  IsDb(get(d, key, time)) /\ Counted(get(d, key, time))
<1>1. PICK D \in SUBSET Keys : d \in DbOver(D)
  BY Zenon DEF IsDb
<1>2. CASE key \in DOMAIN d.h /\ Expired(d.h[key], time)
  <2>1. key \in D
    BY <1>1, <1>2, Zenon DEF DbOver
  <2> DEFINE E == D \ {key}
  <2>2. get(d, key, time) = [h |-> Without(d.h, key),
                             key_count |-> SizeT(d.key_count - 1),
                             expiry_count |-> SizeT(d.expiry_count - 1)]
    BY <1>2, Zenon DEF get
  <2>3. /\ E \in SUBSET Keys
        /\ Without(d.h, key) \in [E -> Value]
        /\ SizeT(d.key_count - 1) = Cardinality(E)
        /\ SizeT(d.key_count - 1) \in 0 .. (SizeMod - 1)
        /\ SizeT(d.expiry_count - 1) \in 0 .. (SizeMod - 1)
    BY <1>1, <2>1, WithoutKey, Zenon
  <2>4. get(d, key, time) \in DbOver(E)
    BY <1>1, <2>2, <2>3 DEF DbOver
  <2>5. Counted(get(d, key, time))
    BY <2>2, <2>3 DEF Counted
  <2>. QED
    BY <2>3, <2>4, <2>5, Zenon DEF IsDb
<1>3. CASE ~ (key \in DOMAIN d.h /\ Expired(d.h[key], time))
  BY <1>3, Zenon DEF get
<1>. QED
  BY <1>2, <1>3, Zenon

\* delete keeps the type and the count, whether or not the key is there.
LEMMA DeleteKeeps ==
    ASSUME NEW d, IsDb(d), Counted(d), NEW key
    PROVE  IsDb(delete(d, key)) /\ Counted(delete(d, key))
<1>1. PICK D \in SUBSET Keys : d \in DbOver(D)
  BY Zenon DEF IsDb
<1>2. CASE key \in DOMAIN d.h
  <2>1. key \in D
    BY <1>1, <1>2, Zenon DEF DbOver
  <2> DEFINE E == D \ {key}
  <2>2. delete(d, key) = [h |-> Without(d.h, key),
                          key_count |-> SizeT(d.key_count - 1),
                          expiry_count |-> d.expiry_count]
    BY <1>2, Zenon DEF delete
  <2>3. /\ E \in SUBSET Keys
        /\ Without(d.h, key) \in [E -> Value]
        /\ SizeT(d.key_count - 1) = Cardinality(E)
        /\ SizeT(d.key_count - 1) \in 0 .. (SizeMod - 1)
        /\ SizeT(d.expiry_count - 1) \in 0 .. (SizeMod - 1)
    BY <1>1, <2>1, WithoutKey, Zenon
  <2>4. delete(d, key) \in DbOver(E)
    BY <1>1, <2>2, <2>3 DEF DbOver
  <2>5. Counted(delete(d, key))
    BY <2>2, <2>3 DEF Counted
  <2>. QED
    BY <2>3, <2>4, <2>5, Zenon DEF IsDb
<1>3. CASE key \notin DOMAIN d.h
  BY <1>3, Zenon DEF delete
<1>. QED
  BY <1>2, <1>3, Zenon

\* A push keeps the type and the count, whether it finds a list, creates one
\* (over nothing or over an expired key), or finds a string.
LEMMA PushKeeps ==
    ASSUME NEW d, IsDb(d), Counted(d), NEW key \in Keys, NEW time,
           NEW end \in {"left", "right"}, NEW item \in Strings
    PROVE  IsDb(push(d, key, end, item, time)) /\ Counted(push(d, key, end, item, time))
<1>1. CASE TypeMismatch(d, key, time)
  BY <1>1, Zenon DEF push
<1>2. CASE ~ TypeMismatch(d, key, time)
  <2> DEFINE e == WithList(d, key, end, time)
             v == [e.h[key] EXCEPT !.data = PushAt(end, @, item)]
             p == push(d, key, end, item, time)
  <2>1. /\ IsDb(e) /\ Counted(e)
        /\ key \in DOMAIN e.h
        /\ e.h[key].type = "list"
    <3>1. CASE Found(d, key, time)
      <4>1. e = d /\ d.h[key].type = "list"
        BY <1>2, <3>1, Zenon DEF WithList, TypeMismatch
      <4>2. key \in DOMAIN d.h
        BY <3>1, Zenon DEF Found, get, Without
      <4>. QED
        BY <4>1, <4>2, Zenon
    <3>2. CASE ~ Found(d, key, time)
      <4> DEFINE g == get(d, key, time)
                 l == List(<<>>, NewListExpiration(end))
      <4>1. e = set(g, key, l)
        BY <3>2, Zenon DEF WithList
      <4>2. IsDb(g) /\ Counted(g)
        BY GetKeeps, Zenon
      <4>3. l \in Value /\ l.type = "list"
        BY DEF Value, List, NewListExpiration
      <4>4. IsDb(e) /\ Counted(e)
        BY <4>1, <4>2, <4>3, SetKeeps, Zenon
      <4>5. key \in DOMAIN e.h /\ e.h[key] = l
        BY <4>1 DEF set
      <4>. QED
        BY <4>3, <4>4, <4>5, Zenon
    <3>. QED
      BY <3>1, <3>2, Zenon
  <2>2. p = [e EXCEPT !.h = [@ EXCEPT ![key] = v]]
    BY <1>2, Zenon DEF push
  <2>3. PICK D \in SUBSET Keys : e \in DbOver(D)
    BY <2>1, Zenon DEF IsDb
  <2>4. key \in D /\ e.h[key] \in Value
    BY <2>1, <2>3, Zenon DEF DbOver
  <2>5. v \in Value
    <3>1. e.h[key].data \in Seq(Strings) /\ e.h[key].expiration \in Int
      BY <2>1, <2>4, Zenon DEF Value
    <3>2. PushAt(end, e.h[key].data, item) \in Seq(Strings)
      BY <3>1 DEF PushAt
    <3>. QED
      BY <2>1, <2>4, <3>1, <3>2, Zenon DEF Value
  <2> HIDE DEF e, v, p
  <2>6. p \in DbOver(D) /\ DOMAIN p.h = DOMAIN e.h /\ p.key_count = e.key_count
    BY <2>2, <2>3, <2>4, <2>5, Zenon DEF DbOver
  <2>7. IsDb(p) /\ Counted(p)
    BY <2>1, <2>6, Zenon DEF IsDb, Counted
  <2>. QED
    BY <2>7, Zenon DEF p
<1>. QED
  BY <1>1, <1>2, Zenon

------------------------------------------------------------------------------

DbInv == DbTypeOK /\ KeyCount

LEMMA DbInvInductive == DbInv /\ [DbNext]_dbvars => DbInv'
<1> SUFFICES ASSUME DbInv, [DbNext]_dbvars
             PROVE  DbInv'
  BY Zenon
<1> USE DEF DbInv, DbTypeOK, KeyCount, Counted
<1>1. ASSUME NEW key \in Keys, NEW s \in Strings, NEW e \in Expirations,
             redis_db_set(key, s, e)
      PROVE  DbInv'
  <2>1. String(s, e) \in Value
    BY ExpirationsAssumption, Zenon DEF Value, String
  <2>. QED
    BY <1>1, <2>1, SetKeeps, Zenon DEF redis_db_set
<1>2. ASSUME NEW key \in Keys, redis_db_get(key)
      PROVE  DbInv'
  BY <1>2, GetKeeps, Zenon DEF redis_db_get
<1>3. ASSUME NEW key \in Keys, redis_db_delete(key)
      PROVE  DbInv'
  BY <1>3, DeleteKeeps, Zenon DEF redis_db_delete
<1>4. ASSUME NEW key \in Keys, NEW end \in {"left", "right"}, NEW s \in Strings,
             redis_db_push(key, end, s)
      PROVE  DbInv'
  <2> HIDE DEF Counted
  <2>1. IsDb(db) /\ Counted(db)
    BY Zenon DEF Counted
  <2>2. IsDb(push(db, key, end, s, now)) /\ Counted(push(db, key, end, s, now))
    BY <2>1, PushKeeps, Zenon
  <2>3. IsDb(db') /\ Counted(db') /\ now' = now
    BY <1>4, <2>2, Zenon DEF redis_db_push
  <2>. QED
    BY <2>3, Zenon DEF Counted
<1>5. CASE Tick
  BY <1>5 DEF Tick
<1>6. CASE UNCHANGED dbvars
  BY <1>6, Zenon DEF dbvars
<1>. QED
  BY <1>1, <1>2, <1>3, <1>4, <1>5, <1>6, Zenon DEF DbNext

LEMMA DbInvCorrect == DbSpec => []DbInv
<1>1. DbInit => DbInv
  <2>1. redis_db_create \in DbOver({})
    BY SizeModAssumption DEF redis_db_create, DbOver
  <2>2. Counted(redis_db_create)
    BY FS_EmptySet, Zenon DEF redis_db_create, Counted
  <2>. QED
    BY <2>1, <2>2 DEF DbInit, DbInv, DbTypeOK, IsDb, KeyCount, Counted
<1>. QED
  BY <1>1, DbInvInductive, PTL DEF DbSpec

\* The database keeps its type, for every finite set of keys.
THEOREM DbTypeCorrect == DbSpec => []DbTypeOK
BY DbInvCorrect, PTL DEF DbInv

\* For every finite set of keys and any sequence of operations, key_count is
\* the number of keys in the table: no path of set, get, delete, lpush and
\* rpush forgets to count or counts twice, and size_t never wraps.
THEOREM KeyCountCorrect == DbSpec => []KeyCount
BY DbInvCorrect, PTL DEF DbInv

------------------------------------------------------------------------------
\* ListsNeverExpire of a database.
Undated(d) == \A k \in DOMAIN d.h : d.h[k].type = "list" => d.h[k].expiration <= 0

\* Taking keys out of the table dates nothing.
LEMMA GetUndated ==
    ASSUME NEW d, Undated(d), NEW key, NEW time
    PROVE  Undated(get(d, key, time))
BY Zenon DEF Undated, get, Without

LEMMA DeleteUndated ==
    ASSUME NEW d, Undated(d), NEW key
    PROVE  Undated(delete(d, key))
BY Zenon DEF Undated, delete, Without

LEMMA SetUndated ==
    ASSUME NEW d, Undated(d), NEW key, NEW v,
           v.type = "list" => v.expiration <= 0
    PROVE  Undated(set(d, key, v))
BY Zenon DEF Undated, set

\* A push creates a list without a deadline, or leaves the one it finds.
LEMMA PushUndated ==
    ASSUME NEW d, IsDb(d), Counted(d), Undated(d), NEW key \in Keys, NEW time,
           NEW end \in {"left", "right"}, NEW item
    PROVE  Undated(push(d, key, end, item, time))
<1> DEFINE e == WithList(d, key, end, time)
           v == [e.h[key] EXCEPT !.data = PushAt(end, @, item)]
           p == push(d, key, end, item, time)
<1>1. IsDb(e) /\ Undated(e) /\ key \in DOMAIN e.h
  <2>1. CASE Found(d, key, time)
    BY <2>1, Zenon DEF WithList, Found, get, Without
  <2>2. CASE ~ Found(d, key, time)
    <3> DEFINE g == get(d, key, time)
               l == List(<<>>, NewListExpiration(end))
    <3>1. e = set(g, key, l)
      BY <2>2, Zenon DEF WithList
    <3>2. l \in Value /\ l.expiration <= 0
      BY DEF Value, List, NewListExpiration
    <3>3. IsDb(g) /\ Counted(g) /\ Undated(g)
      BY GetKeeps, GetUndated, Zenon
    <3>4. key \in DOMAIN e.h
      BY <3>1 DEF set
    <3> HIDE DEF g, l, e
    <3>5. IsDb(e)
      BY <3>1, <3>2, <3>3, SetKeeps, Zenon
    <3>6. Undated(e)
      BY <3>1, <3>2, <3>3, SetUndated, Zenon
    <3>. QED
      BY <3>4, <3>5, <3>6, Zenon
  <2>. QED
    BY <2>1, <2>2, Zenon
<1>2. CASE TypeMismatch(d, key, time)
  BY <1>2, Zenon DEF push
<1>3. CASE ~ TypeMismatch(d, key, time)
  <2>1. p = [e EXCEPT !.h = [@ EXCEPT ![key] = v]]
    BY <1>3, Zenon DEF push
  <2>2. PICK D \in SUBSET Keys : e \in DbOver(D)
    BY <1>1, Zenon DEF IsDb
  <2>3. key \in D /\ e.h \in [D -> Value] /\ DOMAIN e.h = D
    BY <1>1, <2>2, Zenon DEF DbOver
  <2>4. v.type = e.h[key].type /\ v.expiration = e.h[key].expiration
    BY <2>3, Zenon DEF Value
  <2> HIDE DEF e, v, p
  <2>5. p.h = [e.h EXCEPT ![key] = v]
    BY <2>1, <2>2, Zenon DEF DbOver
  <2>6. Undated(p)
    BY <1>1, <2>3, <2>4, <2>5, Zenon DEF Undated
  <2>. QED
    BY <2>6, Zenon DEF p
<1>. QED
  BY <1>2, <1>3, Zenon

LEMMA ListsInductive ==
    DbInv /\ ListsNeverExpire /\ [DbNext]_dbvars => ListsNeverExpire'
<1> SUFFICES ASSUME DbInv, Undated(db), [DbNext]_dbvars
             PROVE  Undated(db')
  BY Zenon DEF ListsNeverExpire, Undated
<1>1. ASSUME NEW key \in Keys, NEW s \in Strings, NEW e \in Expirations,
             redis_db_set(key, s, e)
      PROVE  Undated(db')
  <2>1. String(s, e).type # "list"
    BY Zenon DEF String
  <2>. QED
    BY <1>1, <2>1, SetUndated, Zenon DEF redis_db_set
<1>2. ASSUME NEW key \in Keys, redis_db_get(key)
      PROVE  Undated(db')
  BY <1>2, GetUndated, Zenon DEF redis_db_get
<1>3. ASSUME NEW key \in Keys, redis_db_delete(key)
      PROVE  Undated(db')
  BY <1>3, DeleteUndated, Zenon DEF redis_db_delete
<1>4. ASSUME NEW key \in Keys, NEW end \in {"left", "right"}, NEW s \in Strings,
             redis_db_push(key, end, s)
      PROVE  Undated(db')
  <2>1. IsDb(db) /\ Counted(db)
    BY Zenon DEF DbInv, DbTypeOK, KeyCount, Counted
  <2>2. Undated(push(db, key, end, s, now))
    BY <2>1, PushUndated, Zenon
  <2>. QED
    BY <1>4, <2>2, Zenon DEF redis_db_push
<1>5. CASE Tick \/ UNCHANGED dbvars
  BY <1>5, Zenon DEF Tick, dbvars
<1>. QED
  BY <1>1, <1>2, <1>3, <1>4, <1>5, Zenon DEF DbNext

\* However operations and time interleave, no list ever has a deadline, so the
\* pushes of one command, which look the key up once each, go to one list.
THEOREM ListsNeverExpireCorrect == DbSpec => []ListsNeverExpire
<1>1. DbInit => ListsNeverExpire
  BY DEF DbInit, redis_db_create, ListsNeverExpire
<1>. QED
  BY <1>1, DbInvCorrect, ListsInductive, PTL DEF DbSpec
==============================================================================
