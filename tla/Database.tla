------------------------------- MODULE Database ------------------------------
(***************************************************************************)
(* src/database.c: a hash table from keys to values plus two counters that *)
(* are kept by hand, key_count and expiry_count.  A key expires lazily:    *)
(* only redis_db_get looks at the clock, and it is redis_db_get that takes *)
(* an expired key out of the table.                                        *)
(*                                                                         *)
(* The operations are operators from a database to a database, which       *)
(* Commands composes into handlers; DbSpec is the component on its own,    *)
(* any caller using any operation in any order while time passes.          *)
(***************************************************************************)
EXTENDS Integers, Sequences, FiniteSets

CONSTANTS
    Keys,         \* the keys callers use
    Strings,      \* the string values and list items callers store
    Expirations,  \* the expirations callers of redis_db_set pass, in ms
    SizeMod,      \* 2 to the width of size_t
    MaxTime,      \* bound: the last millisecond modelled
    MaxList       \* bound: the longest list

ASSUME KeysAssumption == IsFiniteSet(Keys) /\ Cardinality(Keys) < SizeMod
ASSUME SizeModAssumption == SizeMod \in Nat \ {0}
ASSUME ExpirationsAssumption == Expirations \subseteq Int
ASSUME TimeAssumption == MaxTime \in Nat
ASSUME ListAssumption == MaxList \in Nat

VARIABLES
    db,    \* redis_db_t: h, key_count, expiry_count
    now    \* what current_time_millis returns

\* Mutant: the counters are plain integers.
SizeT_Int(n) == n

\* Arithmetic on size_t.
SizeT(n) == n % SizeMod

String(s, e) == [type |-> "string", data |-> s, expiration |-> e]
List(s, e) == [type |-> "list", data |-> s, expiration |-> e]

\* RedisValue.  A list pushed into being has expiration -1 (lpush) or 0.
Value ==
    [type : {"string"}, data : Strings, expiration : Int]
        \cup [type : {"list"}, data : Seq(Strings), expiration : Int]

\* redis_db_t with the table over the keys D.
DbOver(D) ==
    [h : [D -> Value],
     key_count : 0 .. (SizeMod - 1),
     expiry_count : 0 .. (SizeMod - 1)]

IsDb(d) == \E D \in SUBSET Keys : d \in DbOver(D)

redis_db_create == [h |-> [k \in {} |-> 0], key_count |-> 0, expiry_count |-> 0]

------------------------------------------------------------------------------
(* The operations. *)

\* set: insert or replace.  The counters move only when the key is new.
set(d, key, value) ==
    LET new == key \notin DOMAIN d.h
    IN  [h |-> [k \in DOMAIN d.h \cup {key} |-> IF k = key THEN value ELSE d.h[k]],
         key_count |-> IF new THEN SizeT(d.key_count + 1) ELSE d.key_count,
         expiry_count |-> IF new /\ value.expiration > 0
                          THEN SizeT(d.expiry_count + 1)
                          ELSE d.expiry_count]

\* The test get makes on a value.
Expired(value, time) == value.expiration > 0 /\ value.expiration < time

\* kh_del: the table without a key.
Without(h, key) == [k \in DOMAIN h \ {key} |-> h[k]]

\* Mutant: an expired key is removed without the count following.
get_NoCount(d, key, time) ==
    IF key \in DOMAIN d.h /\ Expired(d.h[key], time)
    THEN [h |-> Without(d.h, key),
          key_count |-> d.key_count,
          expiry_count |-> SizeT(d.expiry_count - 1)]
    ELSE d

\* What get does to the database: an expired key is removed.
get(d, key, time) ==
    IF key \in DOMAIN d.h /\ Expired(d.h[key], time)
    THEN [h |-> Without(d.h, key),
          key_count |-> SizeT(d.key_count - 1),
          expiry_count |-> SizeT(d.expiry_count - 1)]
    ELSE d

\* get returns a value, and not NULL, when the key is left in the table.
Found(d, key, time) == key \in DOMAIN get(d, key, time).h

\* exist: looks only at the table.
exist(d, key) == key \in DOMAIN d.h

\* delete: expiry_count stays as it is.
delete(d, key) ==
    IF key \in DOMAIN d.h
    THEN [h |-> Without(d.h, key),
          key_count |-> SizeT(d.key_count - 1),
          expiry_count |-> d.expiry_count]
    ELSE d

\* redis_db_lpush and redis_db_rpush: look the key up, create the list if
\* there is none, push.  Push says which end.
PushAt(end, items, item) ==
    IF end = "left" THEN <<item>> \o items ELSE Append(items, item)

TypeMismatch(d, key, time) ==
    Found(d, key, time) /\ d.h[key].type # "list"

\* The expiration of a list created by a push: lpush passes -1, rpush 0.
NewListExpiration(end) == IF end = "left" THEN -1 ELSE 0

\* Mutant: a list created over an expired key takes over its deadline.
WithList_OldDeadline(d, key, end, time) ==
    IF Found(d, key, time)
    THEN d
    ELSE set(get(d, key, time), key,
             List(<<>>, IF key \in DOMAIN d.h
                        THEN d.h[key].expiration
                        ELSE NewListExpiration(end)))

\* The database with its list created if need be (get, then create_list, set).
WithList(d, key, end, time) ==
    IF Found(d, key, time)
    THEN d
    ELSE set(get(d, key, time), key, List(<<>>, NewListExpiration(end)))

push(d, key, end, item, time) ==
    IF TypeMismatch(d, key, time)
    THEN d
    ELSE LET e == WithList(d, key, end, time)
         IN  [e EXCEPT !.h[key].data = PushAt(end, @, item)]

------------------------------------------------------------------------------
(* The component. *)

dbvars == <<db, now>>

DbInit ==
    /\ db = redis_db_create
    /\ now = 1

redis_db_set(key, s, e) ==
    /\ db' = set(db, key, String(s, e))
    /\ UNCHANGED now

\* redis_db_get, and redis_db_lrange, which changes nothing but by get.
redis_db_get(key) ==
    /\ db' = get(db, key, now)
    /\ UNCHANGED now

redis_db_delete(key) ==
    /\ db' = delete(db, key)
    /\ UNCHANGED now

redis_db_push(key, end, item) ==
    /\ Found(db, key, now) /\ db.h[key].type = "list"
           => Len(db.h[key].data) < MaxList
    /\ db' = push(db, key, end, item, now)
    /\ UNCHANGED now

\* The millisecond clock advances.
Tick ==
    /\ now < MaxTime
    /\ now' = now + 1
    /\ UNCHANGED db

DbNext ==
    \/ \E key \in Keys, s \in Strings, e \in Expirations : redis_db_set(key, s, e)
    \/ \E key \in Keys : redis_db_get(key)
    \/ \E key \in Keys : redis_db_delete(key)
    \/ \E key \in Keys, end \in {"left", "right"}, s \in Strings :
           redis_db_push(key, end, s)
    \/ Tick

DbSpec == DbInit /\ [][DbNext]_dbvars

------------------------------------------------------------------------------
(* Properties. *)

\* redis_db_t: a table from keys to values and two size_t counters.
DbTypeOK ==
    /\ IsDb(db)
    /\ now \in Nat

\* key_count, which DBSIZE replies and the RDB file announces, is the number
\* of keys in the table after every sequence of operations: inserting,
\* replacing, pushing, deleting, expiring, expiring a key that is then set
\* again.
KeyCount == db.key_count = Cardinality(DOMAIN db.h)

\* Only a string can carry a deadline: no operation gives a list one, so a
\* list is never removed by the clock and the pushes of one command, which
\* look the key up once each, all go to the same list.
ListsNeverExpire ==
    \A k \in DOMAIN db.h : db.h[k].type = "list" => db.h[k].expiration <= 0
==============================================================================
