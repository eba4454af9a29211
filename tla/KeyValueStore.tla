---------------------------- MODULE KeyValueStore ----------------------------
(***************************************************************************)
(* What the server promises its clients: a store of strings and lists      *)
(* under keys, in which a key is gone the moment its deadline has passed.  *)
(* There is no table of expired keys to be cleaned up and there are no     *)
(* counters; the options of SET mean what the repository's README says.    *)
(* A request and its reply are one step.                                   *)
(***************************************************************************)
EXTENDS Values, ListRange, Filters, FiniteSets

CONSTANTS
    Keys,      \* the keys
    Strings,   \* the strings
    Operand,   \* the number each numeric argument stands for
    Second     \* milliseconds in a second

VARIABLES
    store,     \* from the keys that live to [type, data, deadline]; 0 is never
    now,       \* the clock
    request,   \* the last request: name, args, and whether it is to be replied
    reply      \* the replies to it

svars == <<store, now, request, reply>>

Dead(deadline, time) == deadline > 0 /\ deadline < time

Lives(k) == k \in DOMAIN store

\* The store with a key given a value, or without a key.
Put(k, type, data, deadline) ==
    [l \in {l \in DOMAIN store \cup {k} : l = k => ~ Dead(deadline, now)} |->
        IF l = k THEN [type |-> type, data |-> data, deadline |-> deadline] ELSE store[l]]

Drop(ks) == [l \in DOMAIN store \ ks |-> store[l]]

\* A client that is not to be replied may be replied nevertheless.
Answer(r) == reply' \in IF request'.replies THEN {<<r>>} ELSE {<<>>, <<r>>}

Complain == UNCHANGED store /\ \E e \in {"arity", "syntax", "value", "expiration", "type"} : Answer(Err(e))

SInit ==
    /\ store = <<>>
    /\ now = 1
    /\ request = [name |-> "none", args |-> <<>>, replies |-> TRUE]
    /\ reply = <<>>

------------------------------------------------------------------------------
(* SET key value [NX | XX] [GET] [EX s | PX ms | EXAT s | PXAT ms | KEEPTTL] *)

Expiring == {"EX", "PX", "EXAT", "PXAT"}

\* The positions of the options that are followed by a time.
Timed(opts) == {i \in 1 .. Len(opts) - 1 : opts[i] \in Expiring}

Has(opts, option) == \E i \in 1 .. Len(opts) : opts[i] = option

\* A deadline is a long: one out of its range comes round.
DeadlineOf(opts, i) ==
    LET n == Operand[opts[i + 1]]
    IN  Wrap(CASE opts[i] = "EX" -> now + n * Second
               [] opts[i] = "PX" -> now + n
               [] opts[i] = "EXAT" -> n * Second
               [] opts[i] = "PXAT" -> n, LongMax)

\* The positions of the options that give a deadline: the time 0 gives none.
Deadlines(opts) == {i \in Timed(opts) : DeadlineOf(opts, i) # 0}

\* At most one position, and none where there is also KEEPTTL.
Alone(opts, positions) ==
    /\ \A i, j \in positions : i = j
    /\ positions # {} => ~ Has(opts, "KEEPTTL")

WellFormed(opts) ==
    /\ ~ (Has(opts, "NX") /\ Has(opts, "XX"))
    /\ \A i \in Timed(opts) : opts[i + 1] \in DOMAIN Operand
    /\ Alone(opts, Deadlines(opts))

NewDeadline(opts, k) ==
    IF Deadlines(opts) # {} THEN DeadlineOf(opts, CHOOSE i \in Deadlines(opts) : TRUE)
    ELSE IF Has(opts, "KEEPTTL") /\ Lives(k) THEN store[k].deadline
    ELSE 0

\* GET on a key that holds a list is left open: some text is returned.
OldValue(k) ==
    IF ~ Lives(k) THEN {Null}
    ELSE IF store[k].type = "string" THEN {Bulk(store[k].data)}
    ELSE {Bulk(s) : s \in Strings}

\* Whether a time that gives no deadline goes with other times or KEEPTTL is
\* left open.
Set ==
    /\ request'.name = "SET"
    /\ LET a == request'.args
           opts == SubSeq(a, 3, Len(a))
       IN  IF Len(a) < 2 \/ ~ WellFormed(opts) \/ NewDeadline(opts, a[1]) < 0
           THEN Complain
           ELSE \/ ~ Alone(opts, Timed(opts)) /\ Complain
                \/ IF (Has(opts, "NX") /\ Lives(a[1])) \/ (Has(opts, "XX") /\ ~ Lives(a[1]))
                   THEN UNCHANGED store /\ Answer(Null)
                   ELSE /\ store' = Put(a[1], "string", a[2], NewDeadline(opts, a[1]))
                        /\ \E r \in IF Has(opts, "GET") THEN OldValue(a[1]) ELSE {Ok} :
                              Answer(r)

------------------------------------------------------------------------------
(* The other requests *)

Get ==
    /\ request'.name = "GET"
    /\ LET k == request'.args[1]
       IN  IF Len(request'.args) # 1 THEN Complain
           ELSE /\ UNCHANGED store
                /\ Answer(IF ~ Lives(k) THEN Null
                          ELSE IF store[k].type = "list" THEN Err("type")
                          ELSE Bulk(store[k].data))

\* A key that is dead may still be counted.
Exist ==
    /\ request'.name = "EXIST"
    /\ IF request'.args = <<>> THEN Complain
       ELSE /\ UNCHANGED store
            /\ \E n \in Len(Filter(request'.args, DOMAIN store)) .. Len(request'.args) :
                  Answer(add_integer_reply(n))

Delete ==
    /\ request'.name = "DEL"
    /\ IF request'.args = <<>> THEN Complain
       ELSE /\ store' = Drop(Members(request'.args))
            /\ Answer(Ok)

\* The new number has no deadline.  INCR on a list is left open.
Step(name, by) ==
    /\ request'.name = name
    /\ IF request'.args = <<>> THEN Complain
       ELSE LET k == request'.args[1]
                olds == IF ~ Lives(k) THEN {IntText(0)}
                        ELSE IF store[k].type = "string" THEN {store[k].data} ELSE Strings
            IN  \E old \in olds :
                  IF ~ IsNumber(old) THEN Complain
                  ELSE LET n == Wrap(Number(old) + by, LongMax)
                       IN  /\ store' = Put(k, "string", IntText(n), 0)
                           /\ Answer(add_integer_reply(n))

\* The items arrive at the end they are pushed to one after the other.
Pushed(name, old, items) ==
    LET n == Len(items)
    IN  IF name = "LPUSH" THEN [i \in 1 .. n |-> items[n + 1 - i]] \o old ELSE old \o items

Push ==
    /\ request'.name \in {"LPUSH", "RPUSH"}
    /\ LET a == request'.args
           new == Pushed(request'.name, IF Lives(a[1]) THEN store[a[1]].data ELSE <<>>, Tail(a))
       IN  IF Len(a) < 2 \/ (Lives(a[1]) /\ store[a[1]].type # "list") THEN Complain
           ELSE /\ store' = Put(a[1], "list", new, 0)
                /\ Answer(add_integer_reply(Len(new)))

IndexOf(s) == IF s \in DOMAIN Operand THEN Wrap(Operand[s], IntMax) ELSE 0

Lrange ==
    /\ request'.name = "LRANGE"
    /\ LET a == request'.args
       IN  IF Len(a) < 3 \/ (Lives(a[1]) /\ store[a[1]].type # "list") THEN Complain
           ELSE /\ UNCHANGED store
                /\ Answer(Array(IF Lives(a[1])
                                THEN Slice(store[a[1]].data, IndexOf(a[2]), IndexOf(a[3]))
                                ELSE <<>>))

\* Keys that are dead may still be counted.
Dbsize ==
    /\ request'.name = "DBSIZE"
    /\ UNCHANGED store
    /\ \E n \in Cardinality(DOMAIN store) .. Cardinality(Keys) :
          Answer(add_integer_reply(n))

\* Requests that concern the server and not the keys.
Administer ==
    /\ request'.name \notin {"SET", "GET", "EXIST", "DEL", "INCR", "DECR",
                             "LPUSH", "RPUSH", "LRANGE", "DBSIZE"}
    /\ UNCHANGED store

Request ==
    /\ Set \/ Get \/ Exist \/ Delete \/ Step("INCR", 1) \/ Step("DECR", -1)
           \/ Push \/ Lrange \/ Dbsize \/ Administer
    /\ UNCHANGED now

\* A millisecond passes, and the keys whose deadline it was are gone.
Pass ==
    /\ now' = now + 1
    /\ store' = Drop({k \in DOMAIN store : Dead(store[k].deadline, now')})
    /\ UNCHANGED <<request, reply>>

SNext == Request \/ Pass

SSpec == SInit /\ [][SNext]_svars
==============================================================================
