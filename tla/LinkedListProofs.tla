-------------------------- MODULE LinkedListProofs ---------------------------
(***************************************************************************)
(* LinkedList for every number of nodes, every set of data, every index    *)
(* and every value malloc may leave in the length: the pointers are well   *)
(* typed, the two directions agree and nothing is leaked, and the list is  *)
(* the deque that linked_list.h promises.                                  *)
(*                                                                         *)
(* The inductive invariant names the sequence s of the addresses of the    *)
(* nodes, from which everything a walk along the links finds can be read.  *)
(* Walks are recursive functions; what they compute is shown by induction  *)
(* in the form of a set of numbers that has 0 and every successor.         *)
(***************************************************************************)
EXTENDS LinkedList, SequenceLemmas, FiniteSetTheorems, TLAPS

------------------------------------------------------------------------------
(* Walks *)

\* e starts at a and goes from each node where the link of that node leads.
Walks(e, a, link) ==
    /\ e[0] = a
    /\ \A i \in Nat : e[i + 1] = IF e[i] = NULL THEN NULL ELSE heap[e[i]][link]

\* The loops of lrange and destroy_list get to where such a function does.
LEMMA FollowIs ==
    ASSUME NEW a, NEW link, NEW n \in Nat, NEW e, Walks(e, a, link)
    PROVE  Follow(a, link, n) = e[n]
<1> DEFINE Goes(x) == IF x = NULL THEN NULL ELSE heap[x][link]
           Walk(g) == [i \in 0 .. n |-> IF i = 0 THEN a ELSE Goes(g[i - 1])]
           at == CHOOSE g : g = Walk(g)
           S == {j \in Nat : j \in 0 .. n => at[j] = e[j]}
<1>0. Follow(a, link, n) = at[n]
  BY Zenon DEF Follow
<1>1. e[0] = a /\ \A i \in Nat : e[i + 1] = Goes(e[i])
  BY Zenon DEF Walks
<1> HIDE DEF Goes
<1>2. \E g : g = Walk(g)
  <2> DEFINE g == [i \in 0 .. n |-> e[i]]
  <2>1. ASSUME NEW i \in 0 .. n, i # 0 PROVE e[i] = Goes(g[i - 1])
    <3>1. i - 1 \in Nat /\ (i - 1) + 1 = i /\ g[i - 1] = e[i - 1]
      BY <2>1
    <3> QED
      BY <3>1, <1>1, Zenon
  <2>2. g = Walk(g)
    BY <2>1, <1>1, Zenon
  <2> QED
    BY <2>2, Zenon
<1>3. at = Walk(at)
  BY <1>2, Zenon
<1>4. at[0] = a /\ \A i \in 1 .. n : at[i] = Goes(at[i - 1])
  <2> HIDE DEF at
  <2>1. \A g : Walk(g)[0] = a /\ \A i \in 1 .. n : Walk(g)[i] = Goes(g[i - 1])
    OBVIOUS
  <2> HIDE DEF Walk
  <2> QED
    BY <2>1, <1>3, Zenon
<1> HIDE DEF at
<1>5. 0 \in S
  BY <1>1, <1>4, Zenon
<1>6. ASSUME NEW j \in Nat, j \in S PROVE j + 1 \in S
  <2> SUFFICES ASSUME j + 1 \in 0 .. n PROVE at[j + 1] = e[j + 1]
    OBVIOUS
  <2>1. at[j] = e[j] /\ (j + 1) - 1 = j
    BY <1>6
  <2>2. at[j + 1] = Goes(at[(j + 1) - 1])
    BY <1>4
  <2> QED
    BY <1>1, <2>1, <2>2, Zenon
<1> HIDE DEF S
<1>7. n \in S
  BY <1>5, <1>6, SetInduction, Zenon
<1> QED
  BY <1>0, <1>7 DEF S

------------------------------------------------------------------------------
(* The inductive invariant *)

\* The list has n nodes, which are at the addresses s[1] .. s[n] in order: the
\* struct points to the two ends, the links lead to the neighbours, no node is
\* met twice and there are no others.
Chain(n, s) ==
    /\ \A i, j \in 1 .. n : s[i] = s[j] => i = j
    /\ DOMAIN heap = {s[i] : i \in 1 .. n}
    /\ head = IF n = 0 THEN NULL ELSE s[1]
    /\ tail = IF n = 0 THEN NULL ELSE s[n]
    /\ n > 0 => length = n
    /\ \A i \in 1 .. n : heap[s[i]].next = IF i = n THEN NULL ELSE s[i + 1]
    /\ \A i \in 1 .. n : heap[s[i]].prev = IF i = 1 THEN NULL ELSE s[i - 1]

ListInv == TypeOK /\ \E n \in 0 .. MaxNodes : \E s \in [1 .. n -> Address] : Chain(n, s)

------------------------------------------------------------------------------
(* What walks find in a chain *)

\* Forwards, the addresses from the first to the last, and then NULL.
LEMMA Forwards ==
    ASSUME NEW n \in Nat, NEW s \in [1 .. n -> Address], Chain(n, s), NEW k \in Nat
    PROVE  Follow(head, "next", k) = IF k < n THEN s[k + 1] ELSE NULL
<1> DEFINE e == [i \in Nat |-> IF i < n THEN s[i + 1] ELSE NULL]
<1>0. \A i \in 1 .. n : s[i] # NULL
  BY LengthAssumption DEF Address, NULL
<1>1. e[0] = head
  BY DEF Chain
<1>2. \A i \in Nat : e[i + 1] = IF e[i] = NULL THEN NULL ELSE heap[e[i]]["next"]
  BY <1>0 DEF Chain
<1> HIDE DEF e
<1>3. Walks(e, head, "next")
  BY <1>1, <1>2, Zenon DEF Walks
<1>4. Follow(head, "next", k) = e[k]
  BY <1>3, FollowIs, Zenon
<1> QED
  BY <1>4, Zenon DEF e

\* Backwards, the same from the last to the first.
LEMMA Backwards ==
    ASSUME NEW n \in Nat, NEW s \in [1 .. n -> Address], Chain(n, s), NEW k \in Nat
    PROVE  Follow(tail, "prev", k) = IF k < n THEN s[n - k] ELSE NULL
<1> DEFINE e == [i \in Nat |-> IF i < n THEN s[n - i] ELSE NULL]
<1>0. \A i \in 1 .. n : s[i] # NULL
  BY LengthAssumption DEF Address, NULL
<1>1. e[0] = tail
  BY DEF Chain
<1>2. \A i \in Nat : e[i + 1] = IF e[i] = NULL THEN NULL ELSE heap[e[i]]["prev"]
  BY <1>0 DEF Chain
<1> HIDE DEF e
<1>3. Walks(e, tail, "prev")
  BY <1>1, <1>2, Zenon DEF Walks
<1>4. Follow(tail, "prev", k) = e[k]
  BY <1>3, FollowIs, Zenon
<1> QED
  BY <1>4, Zenon DEF e

\* destroy_list frees every node.
LEMMA FreedAll ==
    ASSUME NEW n \in 0 .. MaxNodes, NEW s \in [1 .. n -> Address], Chain(n, s)
    PROVE  Freed = DOMAIN heap
<1>0. n \in Nat /\ \A i \in 1 .. n : s[i] # NULL
  BY LengthAssumption DEF Address, NULL
<1>1. ASSUME NEW a \in Freed PROVE a \in DOMAIN heap
  <2>1. PICK k \in 0 .. MaxNodes : a = Follow(head, "next", k) /\ a # NULL
    BY <1>1, Zenon DEF Freed
  <2>2. k \in Nat
    BY LengthAssumption
  <2>3. k < n /\ a = s[k + 1]
    BY <1>0, <2>1, <2>2, Forwards, Zenon
  <2> QED
    BY <2>2, <2>3, <1>0 DEF Chain
<1>2. ASSUME NEW a \in DOMAIN heap PROVE a \in Freed
  <2>1. PICK i \in 1 .. n : a = s[i]
    BY DEF Chain
  <2>2. i - 1 \in 0 .. MaxNodes /\ i - 1 \in Nat /\ i - 1 < n /\ (i - 1) + 1 = i
    BY <1>0, LengthAssumption
  <2>3. Follow(head, "next", i - 1) = a
    BY <1>0, <2>1, <2>2, Forwards, Zenon
  <2>4. a # NULL
    BY <2>1, <1>0, Zenon
  <2> QED
    BY <2>2, <2>3, <2>4, Zenon DEF Freed
<1> QED
  BY <1>1, <1>2, Zenon

\* The walk forwards ends after as many nodes as the chain has.
LEMMA SizeIs ==
    ASSUME NEW n \in 0 .. MaxNodes, NEW s \in [1 .. n -> Address], Chain(n, s)
    PROVE  Size = n
<1> DEFINE Ends(k) == /\ Follow(head, "next", k) = NULL
                      /\ \A m \in 0 .. k - 1 : Follow(head, "next", m) # NULL
<1>0. n \in Nat /\ \A i \in 1 .. n : s[i] # NULL
  BY LengthAssumption DEF Address, NULL
<1>1. \A k \in 0 .. MaxNodes :
         Follow(head, "next", k) = IF k < n THEN s[k + 1] ELSE NULL
  BY <1>0, Forwards, LengthAssumption
<1>2. Ends(n)
  BY <1>0, <1>1, LengthAssumption
<1>3. ASSUME NEW k \in 0 .. MaxNodes, Ends(k) PROVE k = n
  BY <1>0, <1>1, <1>3, LengthAssumption
<1> HIDE DEF Ends
<1>4. (CHOOSE k \in 0 .. MaxNodes : Ends(k)) = n
  BY <1>2, <1>3, Zenon
<1> QED
  BY <1>4, Zenon DEF Size, Ends

------------------------------------------------------------------------------
(* The invariant is kept *)

\* malloc gives an address that was free.
LEMMA FreshIsFree ==
    ASSUME TypeOK, CanPush
    PROVE  Fresh \in Address \ DOMAIN heap
<1> DEFINE F == Address \ DOMAIN heap
<1>1. F \in SUBSET Nat
  BY LengthAssumption DEF Address
<1>2. F # {}
  BY Zenon DEF TypeOK, CanPush
<1>3. \E a \in F : \A b \in F : a <= b
  BY <1>1, <1>2, Least, Zenon
<1> QED
  BY <1>3, Zenon DEF Fresh

\* A chain that leaves an address free is shorter than the heap.
LEMMA Shorter ==
    ASSUME NEW n \in Nat, NEW s \in [1 .. n -> Address], Chain(n, s),
           NEW a \in Address \ DOMAIN heap
    PROVE  n + 1 \in 0 .. MaxNodes
<1> DEFINE t == [i \in 1 .. n + 1 |-> IF i <= n THEN s[i] ELSE a]
<1>1. t \in Injection(1 .. n + 1, Address)
  BY DEF Chain, Injection, IsInjective
<1>2. IsFiniteSet(Address) /\ Cardinality(Address) = MaxNodes
  BY LengthAssumption, FS_Interval DEF Address
<1>3. Cardinality(1 .. n + 1) = n + 1
  BY FS_Interval
<1> HIDE DEF t
<1>4. n + 1 <= MaxNodes
  BY <1>1, <1>2, <1>3, FS_Injection
<1> QED
  BY <1>4, LengthAssumption

\* A link of a node is set to an address; the rest of it stays.
LEMMA NodeLinked ==
    ASSUME NEW m \in Node, NEW a \in Address
    PROVE  /\ [m EXCEPT !.prev = a] \in Node /\ [m EXCEPT !.prev = a].prev = a
           /\ [m EXCEPT !.prev = a].next = m.next /\ [m EXCEPT !.prev = a].data = m.data
           /\ [m EXCEPT !.next = a] \in Node /\ [m EXCEPT !.next = a].next = a
           /\ [m EXCEPT !.next = a].prev = m.prev /\ [m EXCEPT !.next = a].data = m.data
BY Zenon DEF Node

\* The first node of an empty list is a chain of its own.
LEMMA SingleKeeps ==
    ASSUME ListInv, DOMAIN heap = {}, NEW d \in Data, NEW a \in Address, Single(a, d),
           NEW t \in [1 .. 1 -> Address], t[1] = a
    PROVE  TypeOK' /\ Chain(1, t)' /\ heap'[a].data = d
<1>1. /\ DOMAIN heap' = {a}
      /\ heap'[a] = [data |-> d, prev |-> NULL, next |-> NULL]
      /\ head' = a /\ tail' = a /\ length' = 1
  BY Zenon DEF Single, With
<1>2. TypeOK'
  BY <1>1 DEF TypeOK, Node
<1>3. 1 .. 1 = {1}
  OBVIOUS
<1>4. Chain(1, t)'
  BY <1>1, <1>3 DEF Chain
<1> QED
  BY <1>1, <1>2, <1>4

\* The two pushes on a list that has nodes, and the chains they make.
FrontStep(d, a) ==
    /\ heap' = With([heap EXCEPT ![head].prev = a], a,
                    [data |-> d, prev |-> NULL, next |-> head])
    /\ head' = a /\ length' = length + 1 /\ tail' = tail
BackStep(d, a) ==
    /\ heap' = With([heap EXCEPT ![tail].next = a], a,
                    [data |-> d, prev |-> tail, next |-> NULL])
    /\ tail' = a /\ length' = length + 1 /\ head' = head
InFront(n, s, a, t) ==
    /\ t \in [1 .. n + 1 -> Address]
    /\ \A i \in 1 .. n + 1 : t[i] = IF i = 1 THEN a ELSE s[i - 1]
Behind(n, s, a, t) ==
    /\ t \in [1 .. n + 1 -> Address]
    /\ \A i \in 1 .. n + 1 : t[i] = IF i = n + 1 THEN a ELSE s[i]
SameData(n, s) == \A i \in 1 .. n : heap'[s[i]].data = heap[s[i]].data

\* A node in front of the chain, to which the old head links back.
LEMMA FrontKeeps ==
    ASSUME TypeOK, NEW n \in Nat \ {0}, NEW s \in [1 .. n -> Address], Chain(n, s),
           NEW d \in Data, NEW a \in Address \ DOMAIN heap,
           NEW t, FrontStep(d, a), InFront(n, s, a, t)
    PROVE  TypeOK' /\ Chain(n + 1, t)' /\ heap'[a].data = d /\ SameData(n, s)
<1> USE DEF FrontStep, InFront, SameData
<1>1. /\ head = s[1] /\ tail = s[n] /\ length = n
      /\ DOMAIN heap = {s[i] : i \in 1 .. n}
      /\ \A i, j \in 1 .. n : s[i] = s[j] => i = j
  BY DEF Chain
<1>2. t[1] = a /\ \A i \in 2 .. n + 1 : i - 1 \in 1 .. n /\ t[i] = s[i - 1]
  OBVIOUS
<1>3. \A i \in 1 .. n : s[i] # a /\ s[i] \in DOMAIN heap /\ heap[s[i]] \in Node
  BY <1>1 DEF TypeOK
<1>4. DOMAIN heap' = DOMAIN heap \cup {a}
  BY Zenon DEF With
<1>5. heap'[a] = [data |-> d, prev |-> NULL, next |-> head]
  BY Zenon DEF With
<1>6. head \in DOMAIN heap /\ head # a /\ heap[head] \in Node
  BY <1>1, <1>3
<1>7. heap'[head] = [heap[head] EXCEPT !.prev = a]
  BY <1>6, Zenon DEF With
<1>8. \A b \in DOMAIN heap : b # head => heap'[b] = heap[b]
  BY Zenon DEF With
<1>9. heap'[head] \in Node /\ heap'[head].prev = a /\ heap'[head].next = heap[head].next
        /\ heap'[head].data = heap[head].data
  <2>1. PICK m \in Node : m = heap[head]
    BY <1>6, Zenon
  <2>2. heap'[head] = [m EXCEPT !.prev = a]
    BY <1>7, <2>1, Zenon
  <2>3. /\ [m EXCEPT !.prev = a] \in Node /\ [m EXCEPT !.prev = a].prev = a
        /\ [m EXCEPT !.prev = a].next = m.next /\ [m EXCEPT !.prev = a].data = m.data
    BY NodeLinked, ZenonT(30)
  <2> QED
    BY <2>1, <2>2, <2>3, Zenon
<1>10. TypeOK'
  <2>1. heap'[a] \in Node
    BY <1>5, <1>1 DEF Node
  <2>2. \A b \in DOMAIN heap' : heap'[b] \in Node
    BY <1>4, <1>8, <1>9, <2>1, Zenon DEF TypeOK
  <2>3. head' \in DOMAIN heap' /\ tail' \in DOMAIN heap'
    BY <1>1, <1>3, <1>4
  <2>4. length' \in Nat /\ DOMAIN heap' \subseteq Address
    BY <1>4 DEF TypeOK
  <2> QED
    BY <2>2, <2>3, <2>4, Zenon DEF TypeOK
<1>11. \A i, j \in 1 .. n + 1 : t[i] = t[j] => i = j
  BY <1>1, <1>2, <1>3
<1>12. DOMAIN heap' = {t[i] : i \in 1 .. n + 1}
  <2>1. ASSUME NEW b \in DOMAIN heap' PROVE b \in {t[i] : i \in 1 .. n + 1}
    <3>1. CASE b = a
      BY <3>1, <1>2
    <3>2. CASE b # a
      <4>1. PICK i \in 1 .. n : b = s[i]
        BY <3>2, <1>1, <1>4, Zenon
      <4>2. i + 1 \in 2 .. n + 1 /\ (i + 1) - 1 = i
        OBVIOUS
      <4>3. b = t[i + 1]
        BY <4>1, <4>2, <1>2, Zenon
      <4> QED
        BY <4>2, <4>3
    <3> QED
      BY <3>1, <3>2, Zenon
  <2>2. ASSUME NEW i \in 1 .. n + 1 PROVE t[i] \in DOMAIN heap'
    <3>1. CASE i = 1
      BY <3>1, <1>2, <1>4, Zenon
    <3>2. CASE i # 1
      BY <3>2, <1>2, <1>3, <1>4
    <3> QED
      BY <3>1, <3>2, Zenon
  <2>3. DOMAIN heap' \subseteq {t[i] : i \in 1 .. n + 1}
    BY <2>1, Zenon
  <2>4. {t[i] : i \in 1 .. n + 1} \subseteq DOMAIN heap'
    BY <2>2, ZenonT(30)
  <2> QED
    BY <2>3, <2>4, Zenon
<1>13. ASSUME NEW i \in 1 .. n + 1
       PROVE  heap'[t[i]].next = IF i = n + 1 THEN NULL ELSE t[i + 1]
  <2>1. CASE i = 1
    <3>1. 2 \in 2 .. n + 1 /\ 2 - 1 = 1
      OBVIOUS
    <3>2. t[2] = s[1]
      BY <3>1, <1>2, Zenon
    <3> QED
      BY <2>1, <3>2, <1>1, <1>2, <1>5
  <2>2. CASE i # 1
    <3>1. i - 1 \in 1 .. n /\ t[i] = s[i - 1]
      BY <2>2, <1>2
    <3>2. heap'[s[i - 1]].next = heap[s[i - 1]].next
      BY <3>1, <1>3, <1>8, <1>9, Zenon
    <3>3. heap[s[i - 1]].next = IF i - 1 = n THEN NULL ELSE s[i]
      BY <3>1 DEF Chain
    <3>4. i # n + 1 => t[i + 1] = s[i]
      <4>1. i # n + 1 => i + 1 \in 2 .. n + 1 /\ (i + 1) - 1 = i
        BY <2>2
      <4> QED
        BY <4>1, <1>2, Zenon
    <3> QED
      BY <3>1, <3>2, <3>3, <3>4
  <2> QED
    BY <2>1, <2>2, Zenon
<1>14. ASSUME NEW i \in 1 .. n + 1
       PROVE  heap'[t[i]].prev = IF i = 1 THEN NULL ELSE t[i - 1]
  <2>1. CASE i = 1
    BY <2>1, <1>2, <1>5
  <2>2. CASE i = 2
    <3>1. t[2] = s[1]
      BY <2>2, <1>2
    <3> QED
      BY <2>2, <3>1, <1>1, <1>2, <1>9
  <2>3. CASE i > 2
    <3>0. i - 1 \in 2 .. n + 1 /\ i \in 2 .. n + 1 /\ (i - 1) - 1 = i - 2
      BY <2>3
    <3>1. i - 1 \in 2 .. n /\ t[i] = s[i - 1] /\ t[i - 1] = s[i - 2]
      BY <3>0, <1>2
    <3>2. s[i - 1] # s[1] /\ s[i - 1] \in DOMAIN heap
      BY <3>1, <1>1, <1>3
    <3>3. heap[s[i - 1]].prev = s[i - 2]
      <4>1. i - 1 \in 1 .. n /\ i - 1 # 1
        BY <3>1
      <4>2. heap[s[i - 1]].prev = s[(i - 1) - 1]
        BY <4>1, Zenon DEF Chain
      <4> QED
        BY <4>2, <3>0, Zenon
    <3>4. heap'[s[i - 1]] = heap[s[i - 1]]
      BY <3>2, <1>1, <1>8, Zenon
    <3> QED
      BY <3>1, <3>3, <3>4, <2>3, SMTT(30)
  <2> QED
    BY <2>1, <2>2, <2>3
<1>15. \A i \in 1 .. n : heap'[s[i]].data = heap[s[i]].data
  BY <1>3, <1>8, <1>9, Zenon
<1>16. /\ head' = IF n + 1 = 0 THEN NULL ELSE t[1]
       /\ tail' = IF n + 1 = 0 THEN NULL ELSE t[n + 1]
       /\ n + 1 > 0 => length' = n + 1
  BY <1>1, <1>2, SMTT(30)
<1>17. Chain(n + 1, t)'
  BY <1>11, <1>12, <1>13, <1>14, <1>16, Zenon DEF Chain
<1>18. heap'[a].data = d
  BY <1>5
<1> QED
  BY <1>10, <1>15, <1>17, <1>18, Zenon

\* A node behind the chain, to which the old tail links.
LEMMA BackKeeps ==
    ASSUME TypeOK, NEW n \in Nat \ {0}, NEW s \in [1 .. n -> Address], Chain(n, s),
           NEW d \in Data, NEW a \in Address \ DOMAIN heap,
           NEW t, BackStep(d, a), Behind(n, s, a, t)
    PROVE  TypeOK' /\ Chain(n + 1, t)' /\ heap'[a].data = d /\ SameData(n, s)
<1> USE DEF BackStep, Behind, SameData
<1>1. /\ head = s[1] /\ tail = s[n] /\ length = n
      /\ DOMAIN heap = {s[i] : i \in 1 .. n}
      /\ \A i, j \in 1 .. n : s[i] = s[j] => i = j
  BY DEF Chain
<1>2. t[n + 1] = a /\ \A i \in 1 .. n : i \in 1 .. n + 1 /\ t[i] = s[i]
  OBVIOUS
<1>3. \A i \in 1 .. n : s[i] # a /\ s[i] \in DOMAIN heap /\ heap[s[i]] \in Node
  BY <1>1 DEF TypeOK
<1>4. DOMAIN heap' = DOMAIN heap \cup {a}
  BY Zenon DEF With
<1>5. heap'[a] = [data |-> d, prev |-> tail, next |-> NULL]
  BY Zenon DEF With
<1>6. tail \in DOMAIN heap /\ tail # a /\ heap[tail] \in Node
  BY <1>1, <1>3
<1>7. heap'[tail] = [heap[tail] EXCEPT !.next = a]
  BY <1>6, Zenon DEF With
<1>8. \A b \in DOMAIN heap : b # tail => heap'[b] = heap[b]
  BY Zenon DEF With
<1>9. heap'[tail] \in Node /\ heap'[tail].next = a /\ heap'[tail].prev = heap[tail].prev
        /\ heap'[tail].data = heap[tail].data
  <2>1. PICK m \in Node : m = heap[tail]
    BY <1>6, Zenon
  <2>2. heap'[tail] = [m EXCEPT !.next = a]
    BY <1>7, <2>1, Zenon
  <2>3. /\ [m EXCEPT !.next = a] \in Node /\ [m EXCEPT !.next = a].next = a
        /\ [m EXCEPT !.next = a].prev = m.prev /\ [m EXCEPT !.next = a].data = m.data
    BY NodeLinked, Zenon
  <2> QED
    BY <2>1, <2>2, <2>3, Zenon
<1>10. TypeOK'
  <2>1. heap'[a] \in Node
    BY <1>5, <1>1 DEF Node
  <2>2. \A b \in DOMAIN heap' : heap'[b] \in Node
    BY <1>4, <1>8, <1>9, <2>1, Zenon DEF TypeOK
  <2>3. head' \in DOMAIN heap' /\ tail' \in DOMAIN heap'
    BY <1>1, <1>3, <1>4, SMTT(30)
  <2>4. length' \in Nat /\ DOMAIN heap' \subseteq Address
    BY <1>4 DEF TypeOK
  <2> QED
    BY <2>2, <2>3, <2>4, Zenon DEF TypeOK
<1>11. \A i, j \in 1 .. n + 1 : t[i] = t[j] => i = j
  BY <1>1, <1>2, <1>3
<1>12. DOMAIN heap' = {t[i] : i \in 1 .. n + 1}
  <2>1. ASSUME NEW b \in DOMAIN heap' PROVE b \in {t[i] : i \in 1 .. n + 1}
    <3>1. CASE b = a
      BY <3>1, <1>2
    <3>2. CASE b # a
      BY <3>2, <1>1, <1>2, <1>4
    <3> QED
      BY <3>1, <3>2, Zenon
  <2>2. ASSUME NEW i \in 1 .. n + 1 PROVE t[i] \in DOMAIN heap'
    <3>1. CASE i = n + 1
      BY <3>1, <1>2, <1>4, Zenon
    <3>2. CASE i # n + 1
      BY <3>2, <1>2, <1>3, <1>4
    <3> QED
      BY <3>1, <3>2, Zenon
  <2>3. DOMAIN heap' \subseteq {t[i] : i \in 1 .. n + 1}
    BY <2>1, Zenon
  <2>4. {t[i] : i \in 1 .. n + 1} \subseteq DOMAIN heap'
    BY <2>2, Zenon
  <2> QED
    BY <2>3, <2>4, Zenon
<1>13. ASSUME NEW i \in 1 .. n + 1
       PROVE  heap'[t[i]].next = IF i = n + 1 THEN NULL ELSE t[i + 1]
  <2>1. CASE i = n + 1
    BY <2>1, <1>2, <1>5, SMTT(30)
  <2>2. CASE i = n
    BY <2>2, <1>1, <1>2, <1>9, ZenonT(30)
  <2>3. CASE i < n
    <3>1. i \in 1 .. n /\ i + 1 \in 1 .. n /\ t[i] = s[i] /\ t[i + 1] = s[i + 1]
      BY <2>3, <1>2
    <3>2. s[i] # s[n] /\ s[i] \in DOMAIN heap
      BY <3>1, <2>3, <1>1, <1>3
    <3>3. heap[s[i]].next = s[i + 1]
      BY <3>1, <2>3 DEF Chain
    <3>4. heap'[s[i]] = heap[s[i]]
      BY <3>2, <1>1, <1>8, Zenon
    <3> QED
      BY <3>1, <3>3, <3>4, <2>3
  <2> QED
    BY <2>1, <2>2, <2>3
<1>14. ASSUME NEW i \in 1 .. n + 1
       PROVE  heap'[t[i]].prev = IF i = 1 THEN NULL ELSE t[i - 1]
  <2>1. CASE i = n + 1
    <3>1. t[n] = s[n] /\ i # 1 /\ i - 1 = n
      BY <2>1, <1>2, SMTT(30)
    <3> QED
      BY <2>1, <3>1, <1>1, <1>2, <1>5
  <2>2. CASE i # n + 1
    <3>1. i \in 1 .. n /\ t[i] = s[i] /\ (i # 1 => i - 1 \in 1 .. n /\ t[i - 1] = s[i - 1])
      BY <2>2, <1>2
    <3>2. heap'[s[i]].prev = heap[s[i]].prev
      BY <3>1, <1>3, <1>8, <1>9, Zenon
    <3>3. heap[s[i]].prev = IF i = 1 THEN NULL ELSE s[i - 1]
      BY <3>1, Zenon DEF Chain
    <3> QED
      BY <3>1, <3>2, <3>3, Zenon
  <2> QED
    BY <2>1, <2>2, Zenon
<1>15. \A i \in 1 .. n : heap'[s[i]].data = heap[s[i]].data
  BY <1>3, <1>8, <1>9, ZenonT(30)
<1>16. /\ head' = IF n + 1 = 0 THEN NULL ELSE t[1]
       /\ tail' = IF n + 1 = 0 THEN NULL ELSE t[n + 1]
       /\ n + 1 > 0 => length' = n + 1
  BY <1>1, <1>2
<1>17. Chain(n + 1, t)'
  BY <1>11, <1>12, <1>13, <1>14, <1>16, Zenon DEF Chain
<1>18. heap'[a].data = d
  BY <1>5
<1> QED
  BY <1>10, <1>15, <1>17, <1>18, Zenon

\* How the chain and the data on it change from n nodes s to m nodes t.
Grown(n, s, m, t) ==
    /\ n \in 0 .. MaxNodes /\ s \in [1 .. n -> Address] /\ Chain(n, s)
    /\ m \in 0 .. MaxNodes /\ t \in [1 .. m -> Address] /\ Chain(m, t)'

GrownFront(d, n, s, t) ==
    /\ Grown(n, s, n + 1, t) /\ heap'[t[1]].data = d
    /\ \A i \in 1 .. n : heap'[t[i + 1]].data = heap[s[i]].data
GrownBack(d, n, s, t) ==
    /\ Grown(n, s, n + 1, t) /\ heap'[t[n + 1]].data = d
    /\ \A i \in 1 .. n : heap'[t[i]].data = heap[s[i]].data

\* lpush puts a node in front.
LEMMA LpushKeeps ==
    ASSUME ListInv, NEW d \in Data, lpush(d)
    PROVE  TypeOK' /\ \E n, s, t : GrownFront(d, n, s, t)
<1>1. PICK n \in 0 .. MaxNodes : \E s \in [1 .. n -> Address] : Chain(n, s)
  BY Zenon DEF ListInv
<1>2. PICK s \in [1 .. n -> Address] : Chain(n, s)
  BY <1>1, Zenon
<1>3. PICK a \in Address \ DOMAIN heap : a = Fresh
  BY FreshIsFree, Zenon DEF ListInv, lpush
<1>4. n \in Nat /\ n + 1 \in 0 .. MaxNodes
  BY <1>2, <1>3, Shorter, LengthAssumption
<1>5. CASE n = 0
  <2> DEFINE t == [i \in 1 .. 1 |-> a]
  <2>1. head = NULL /\ tail = NULL /\ DOMAIN heap = {} /\ t \in [1 .. 1 -> Address] /\ t[1] = a
    BY <1>2, <1>5 DEF Chain
  <2>2. Single(a, d)
    BY <1>3, <2>1, Zenon DEF lpush
  <2> HIDE DEF t
  <2>3. TypeOK' /\ Chain(1, t)' /\ heap'[t[1]].data = d
    BY <2>1, <2>2, SingleKeeps, Zenon
  <2>4. Grown(0, s, 0 + 1, t)
    BY <1>2, <1>4, <1>5, <2>1, <2>3 DEF Grown
  <2>5. GrownFront(d, 0, s, t)
    BY <2>3, <2>4 DEF GrownFront
  <2> QED
    BY <2>3, <2>5, Zenon
<1>6. CASE n # 0
  <2> DEFINE t == [i \in 1 .. n + 1 |-> IF i = 1 THEN a ELSE s[i - 1]]
  <2>1. n \in Nat \ {0} /\ head # NULL
    BY <1>2, <1>4, <1>6, LengthAssumption DEF Chain, Address, NULL
  <2>2. FrontStep(d, a)
    BY <1>3, <2>1, Zenon DEF FrontStep, lpush
  <2>3. InFront(n, s, a, t)
    BY <2>1 DEF InFront
  <2>4. t[1] = a /\ \A i \in 1 .. n : t[i + 1] = s[i]
    BY <2>1
  <2> HIDE DEF t
  <2>5. TypeOK' /\ Chain(n + 1, t)' /\ heap'[a].data = d /\ SameData(n, s)
    BY <1>2, <2>1, <2>2, <2>3, FrontKeeps, Zenon DEF ListInv
  <2>6. Grown(n, s, n + 1, t)
    BY <1>2, <1>4, <2>3, <2>5, Zenon DEF Grown, InFront
  <2>7. GrownFront(d, n, s, t)
    BY <2>4, <2>5, <2>6, Zenon DEF GrownFront, SameData
  <2> QED
    BY <2>5, <2>7, Zenon
<1> QED
  BY <1>5, <1>6, Zenon

\* rpush puts one behind.
LEMMA RpushKeeps ==
    ASSUME ListInv, NEW d \in Data, rpush(d)
    PROVE  TypeOK' /\ \E n, s, t : GrownBack(d, n, s, t)
<1>1. PICK n \in 0 .. MaxNodes : \E s \in [1 .. n -> Address] : Chain(n, s)
  BY Zenon DEF ListInv
<1>2. PICK s \in [1 .. n -> Address] : Chain(n, s)
  BY <1>1, Zenon
<1>3. PICK a \in Address \ DOMAIN heap : a = Fresh
  BY FreshIsFree, Zenon DEF ListInv, rpush
<1>4. n \in Nat /\ n + 1 \in 0 .. MaxNodes
  BY <1>2, <1>3, Shorter, LengthAssumption
<1>5. CASE n = 0
  <2> DEFINE t == [i \in 1 .. 1 |-> a]
  <2>1. head = NULL /\ tail = NULL /\ DOMAIN heap = {} /\ t \in [1 .. 1 -> Address] /\ t[1] = a
    BY <1>2, <1>5 DEF Chain
  <2>2. Single(a, d)
    BY <1>3, <2>1, Zenon DEF rpush
  <2> HIDE DEF t
  <2>3. TypeOK' /\ Chain(1, t)' /\ heap'[t[0 + 1]].data = d
    BY <2>1, <2>2, SingleKeeps, SMTT(30)
  <2>4. Grown(0, s, 0 + 1, t)
    BY <1>2, <1>4, <1>5, <2>1, <2>3, SMTT(30) DEF Grown
  <2>5. GrownBack(d, 0, s, t)
    BY <2>3, <2>4 DEF GrownBack
  <2> QED
    BY <2>3, <2>5, Zenon
<1>6. CASE n # 0
  <2> DEFINE t == [i \in 1 .. n + 1 |-> IF i = n + 1 THEN a ELSE s[i]]
  <2>1. n \in Nat \ {0} /\ head # NULL
    BY <1>2, <1>4, <1>6, LengthAssumption DEF Chain, Address, NULL
  <2>2. BackStep(d, a)
    BY <1>3, <2>1, Zenon DEF BackStep, rpush
  <2>3. Behind(n, s, a, t)
    BY <2>1 DEF Behind
  <2>4. t[n + 1] = a /\ \A i \in 1 .. n : t[i] = s[i]
    BY <2>1
  <2> HIDE DEF t
  <2>5. TypeOK' /\ Chain(n + 1, t)' /\ heap'[a].data = d /\ SameData(n, s)
    BY <1>2, <2>1, <2>2, <2>3, BackKeeps, SMTT(30) DEF ListInv
  <2>6. Grown(n, s, n + 1, t)
    BY <1>2, <1>4, <2>3, <2>5 DEF Grown, Behind
  <2>7. GrownBack(d, n, s, t)
    BY <2>4, <2>5, <2>6, Zenon DEF GrownBack, SameData
  <2> QED
    BY <2>5, <2>7, Zenon
<1> QED
  BY <1>5, <1>6, Zenon

\* destroy_list leaves an empty heap.
LEMMA DestroyKeeps ==
    ASSUME ListInv, destroy_list
    PROVE  TypeOK' /\ Chain(0, [i \in 1 .. 0 |-> 1])'
<1>1. PICK n \in 0 .. MaxNodes : \E s \in [1 .. n -> Address] : Chain(n, s)
  BY Zenon DEF ListInv
<1>2. PICK s \in [1 .. n -> Address] : Chain(n, s)
  BY <1>1, Zenon
<1>3. Freed = DOMAIN heap
  BY <1>2, FreedAll, Zenon
<1>4. DOMAIN heap' = {} /\ head' = NULL /\ tail' = NULL /\ length' \in Nat
  BY <1>3, LengthAssumption, Zenon DEF destroy_list
<1>5. 1 .. 0 = {}
  OBVIOUS
<1> QED
  BY <1>4, <1>5 DEF TypeOK, Chain

\* Every call keeps the invariant.
LEMMA ListStep == ListInv /\ [Next]_vars => ListInv'
<1> SUFFICES ASSUME ListInv, [Next]_vars PROVE ListInv'
  BY Zenon
<1>1. ASSUME NEW d \in Data, lpush(d) PROVE ListInv'
  BY <1>1, LpushKeeps, Zenon DEF ListInv, GrownFront, Grown
<1>2. ASSUME NEW d \in Data, rpush(d) PROVE ListInv'
  BY <1>2, RpushKeeps, Zenon DEF ListInv, GrownBack, Grown
<1>3. ASSUME UNCHANGED <<head, tail, length, heap>> PROVE ListInv'
  <2>1. TypeOK'
    BY <1>3, Zenon DEF ListInv, TypeOK
  <2>2. ASSUME NEW n, NEW s, Chain(n, s) PROVE Chain(n, s)'
    BY <1>3, <2>2, Zenon DEF Chain
  <2> QED
    BY <2>1, <2>2, Zenon DEF ListInv
<1>4. ASSUME destroy_list PROVE ListInv'
  <2>1. 0 \in 0 .. MaxNodes /\ [i \in 1 .. 0 |-> 1] \in [1 .. 0 -> Address]
    BY LengthAssumption
  <2> QED
    BY <1>4, <2>1, DestroyKeeps, Zenon DEF ListInv
<1> QED
  BY <1>1, <1>2, <1>3, <1>4, Zenon DEF Next, vars, lrange

\* A list that was just created is an empty chain.
LEMMA ListInit == Init => ListInv
<1> SUFFICES ASSUME Init PROVE ListInv
  BY Zenon
<1>1. 0 \in 0 .. MaxNodes /\ [i \in 1 .. 0 |-> 1] \in [1 .. 0 -> Address] /\ 1 .. 0 = {}
  BY LengthAssumption
<1>2. DOMAIN heap = {} /\ head = NULL /\ tail = NULL /\ length \in Nat
  BY LengthAssumption DEF Init, create_list
<1>3. Chain(0, [i \in 1 .. 0 |-> 1])
  BY <1>1, <1>2 DEF Chain
<1> QED
  BY <1>1, <1>2, <1>3, Zenon DEF ListInv, TypeOK

LEMMA ListInvariant == Spec => []ListInv
BY ListInit, ListStep, PTL DEF Spec

\* The pointers of list_t and of its nodes always lead to nodes that are
\* allocated, after every sequence of lpush, rpush, lrange and destroy_list.
THEOREM PointersValid == Spec => []TypeOK
<1>1. ListInv => TypeOK
  BY Zenon DEF ListInv
<1> QED
  BY <1>1, ListInvariant, PTL

\* Walking forwards and backwards visits the same nodes, which are all there
\* are, and the length of a list that has any is their number, whatever value
\* create_list left in it.
THEOREM ShapeCorrect == Spec => []Shape
<1>1. ListInv => Shape
  <2> SUFFICES ASSUME ListInv PROVE Shape
    BY Zenon
  <2>1. PICK n \in 0 .. MaxNodes : \E s \in [1 .. n -> Address] : Chain(n, s)
    BY Zenon DEF ListInv
  <2>2. PICK s \in [1 .. n -> Address] : Chain(n, s)
    BY <2>1, Zenon
  <2>3. Size = n /\ Freed = DOMAIN heap /\ n \in Nat
    BY <2>2, SizeIs, FreedAll, LengthAssumption
  <2>4. ASSUME NEW i \in 0 .. n - 1
        PROVE  Follow(head, "next", i) = Follow(tail, "prev", n - 1 - i)
    <3>1. i \in Nat /\ i < n /\ n - 1 - i \in Nat /\ n - 1 - i < n /\ n - (n - 1 - i) = i + 1
      BY <2>3
    <3>2. Follow(head, "next", i) = s[i + 1]
      BY <2>2, <2>3, <3>1, Forwards, Zenon
    <3>3. Follow(tail, "prev", n - 1 - i) = s[n - (n - 1 - i)]
      BY <2>2, <2>3, <3>1, Backwards
    <3> QED
      BY <3>1, <3>2, <3>3, Zenon
  <2>5. n > 0 => length = n
    BY <2>2, Zenon DEF Chain
  <2> QED
    BY <2>3, <2>4, <2>5, Zenon DEF Shape
<1> QED
  BY <1>1, ListInvariant, PTL

------------------------------------------------------------------------------
(* The refinement *)

\* The items are the data along the chain.
ItemsAlong ==
    \A n \in 0 .. MaxNodes : \A s \in [1 .. n -> Address] :
        Chain(n, s) => Items = [i \in 1 .. n |-> heap[s[i]].data]

LEMMA ItemsAre == ItemsAlong
<1> SUFFICES ASSUME NEW n \in 0 .. MaxNodes, NEW s \in [1 .. n -> Address], Chain(n, s)
             PROVE  Items = [i \in 1 .. n |-> heap[s[i]].data]
  BY Zenon DEF ItemsAlong
<1>1. Size = n /\ n \in Nat
  BY SizeIs, LengthAssumption
<1>2. ASSUME NEW i \in 1 .. n PROVE Follow(head, "next", i - 1) = s[i]
  <2>1. i - 1 \in Nat /\ i - 1 < n /\ (i - 1) + 1 = i
    BY <1>1
  <2> QED
    BY <1>1, <2>1, Forwards, Zenon
<1> QED
  BY <1>1, <1>2, Zenon DEF Items

\* The items of f from index start to index last.
Taken(f, start, last) == [k \in 1 .. last - start + 1 |-> f[start + k]]

\* The range the walk of lrange collects, when the length is that of the chain.
LEMMA RangeIsSlice ==
    ASSUME NEW n \in Nat, NEW s \in [1 .. n -> Address], Chain(n, s),
           NEW start \in Nat, NEW last \in Int, start < n, start <= last, last < n,
           NEW f, f = [k \in 1 .. n |-> heap[s[k]].data]
    PROVE  Collected(start, last - start + 1) = Taken(f, start, last)
<1> DEFINE count == last - start + 1
<1>1. count \in Nat /\ start + count <= n
  OBVIOUS
<1>2. ASSUME NEW i \in 1 .. count
      PROVE  Follow(head, "next", start + i - 1) = s[start + i] /\ s[start + i] # NULL
               /\ f[start + i] = heap[s[start + i]].data
  <2>1. start + i - 1 \in Nat /\ start + i - 1 < n /\ (start + i - 1) + 1 = start + i
          /\ start + i \in 1 .. n
    BY <1>1
  <2>2. Follow(head, "next", start + i - 1) = s[(start + i - 1) + 1]
    BY <2>1, Forwards, Zenon
  <2>3. s[start + i] \in Address
    BY <2>1, Zenon
  <2> QED
    BY <2>1, <2>2, <2>3, LengthAssumption DEF Address, NULL
<1> HIDE DEF count
<1>3. {i \in 1 .. count : Follow(head, "next", start + i - 1) # NULL} = 1 .. count
  BY <1>2, Zenon
<1>4. Collected(start, count) = [i \in 1 .. count |-> f[start + i]]
  BY <1>2, <1>3, Zenon DEF Collected
<1> QED
  BY <1>4, Zenon DEF Taken, count

\* What the abstract deque sees of a sequence and of one that is an item longer.
LEMMA LongerInFront ==
    ASSUME NEW n \in Nat, NEW s \in [1 .. n -> Data], NEW t \in [1 .. n + 1 -> Data],
           NEW d \in Data, t[1] = d, \A i \in 1 .. n : t[i + 1] = s[i]
    PROVE  t = <<d>> \o s
<1>1. s \in Seq(Data) /\ Len(s) = n /\ t \in Seq(Data) /\ Len(t) = n + 1
  OBVIOUS
<1>2. <<d>> \o s \in Seq(Data) /\ Len(<<d>> \o s) = n + 1
  BY <1>1
<1>3. ASSUME NEW i \in 1 .. n + 1 PROVE t[i] = (<<d>> \o s)[i]
  <2>1. CASE i = 1
    BY <2>1, <1>1
  <2>2. CASE i # 1
    <3>1. i - 1 \in 1 .. n /\ (i - 1) + 1 = i
      BY <2>2
    <3>2. t[i] = s[i - 1]
      BY <3>1, Zenon
    <3>3. (<<d>> \o s)[i] = s[i - 1]
      BY <1>1, <2>2, <3>1
    <3> QED
      BY <3>2, <3>3, Zenon
  <2> QED
    BY <2>1, <2>2, Zenon
<1> QED
  BY <1>1, <1>2, <1>3, SeqEqual, Zenon

LEMMA LongerBehind ==
    ASSUME NEW n \in Nat, NEW s \in [1 .. n -> Data], NEW t \in [1 .. n + 1 -> Data],
           NEW d \in Data, t[n + 1] = d, \A i \in 1 .. n : t[i] = s[i]
    PROVE  t = Append(s, d)
<1>1. s \in Seq(Data) /\ Len(s) = n /\ t \in Seq(Data) /\ Len(t) = n + 1
  OBVIOUS
<1>2. Append(s, d) \in Seq(Data) /\ Len(Append(s, d)) = n + 1
  BY <1>1
<1>3. ASSUME NEW i \in 1 .. n + 1 PROVE t[i] = Append(s, d)[i]
  BY <1>1
<1> QED
  BY <1>1, <1>2, <1>3, SeqEqual

\* The items of a chain are data, before a step and after it.
LEMMA ItemsTyped ==
    ASSUME TypeOK, NEW n \in Nat, NEW s \in [1 .. n -> Address], Chain(n, s)
    PROVE  [i \in 1 .. n |-> heap[s[i]].data] \in [1 .. n -> Data]
BY Zenon DEF TypeOK, Chain, Node

LEMMA ItemsTypedNext ==
    ASSUME TypeOK', NEW n \in Nat, NEW s \in [1 .. n -> Address], Chain(n, s)'
    PROVE  [i \in 1 .. n |-> heap'[s[i]].data] \in [1 .. n -> Data]
BY Zenon DEF TypeOK, Chain, Node

LEMMA LpushRefines ==
    ASSUME ListInv, NEW d \in Data, lpush(d), ItemsAlong, ItemsAlong'
    PROVE  Abstract!PushFront(d)
<1>1. TypeOK'
  BY LpushKeeps, Zenon
<1>2. PICK n, s, t : GrownFront(d, n, s, t)
  BY LpushKeeps, Zenon
<1> DEFINE old == [i \in 1 .. n |-> heap[s[i]].data]
           new == [i \in 1 .. n + 1 |-> heap'[t[i]].data]
<1>3. n \in Nat /\ n + 1 \in Nat /\ s \in [1 .. n -> Address] /\ t \in [1 .. n + 1 -> Address]
  BY <1>2, LengthAssumption DEF GrownFront, Grown
<1>4. Items = old /\ Items' = new
  BY <1>2, Zenon DEF ItemsAlong, GrownFront, Grown
<1>5. old \in [1 .. n -> Data] /\ new \in [1 .. n + 1 -> Data]
  BY <1>1, <1>2, <1>3, ItemsTyped, ItemsTypedNext, ZenonT(30) DEF GrownFront, Grown, ListInv
<1>6. new[1] = d /\ \A i \in 1 .. n : new[i + 1] = old[i]
  BY <1>2, <1>3 DEF GrownFront
<1> HIDE DEF old, new
<1>7. new = <<d>> \o old
  BY <1>3, <1>5, <1>6, LongerInFront, Zenon
<1> QED
  BY <1>4, <1>7, Zenon DEF Abstract!PushFront, lpush

LEMMA RpushRefines ==
    ASSUME ListInv, NEW d \in Data, rpush(d), ItemsAlong, ItemsAlong'
    PROVE  Abstract!PushBack(d)
<1>1. TypeOK'
  BY RpushKeeps, Zenon
<1>2. PICK n, s, t : GrownBack(d, n, s, t)
  BY RpushKeeps, Zenon
<1> DEFINE old == [i \in 1 .. n |-> heap[s[i]].data]
           new == [i \in 1 .. n + 1 |-> heap'[t[i]].data]
<1>3. n \in Nat /\ n + 1 \in Nat /\ s \in [1 .. n -> Address] /\ t \in [1 .. n + 1 -> Address]
  BY <1>2, LengthAssumption DEF GrownBack, Grown
<1>4. Items = old /\ Items' = new
  BY <1>2, Zenon DEF ItemsAlong, GrownBack, Grown
<1>5. old \in [1 .. n -> Data] /\ new \in [1 .. n + 1 -> Data]
  BY <1>1, <1>2, <1>3, ItemsTyped, ItemsTypedNext, ZenonT(30) DEF GrownBack, Grown, ListInv
<1>6. new[n + 1] = d /\ \A i \in 1 .. n : new[i] = old[i]
  BY <1>2, <1>3 DEF GrownBack
<1> HIDE DEF old, new
<1>7. new = Append(old, d)
  BY <1>3, <1>5, <1>6, LongerBehind
<1> QED
  BY <1>4, <1>7, Zenon DEF Abstract!PushBack, rpush

LEMMA DestroyRefines ==
    ASSUME ListInv, destroy_list, ItemsAlong'
    PROVE  Abstract!Clear
<1>1. Chain(0, [i \in 1 .. 0 |-> 1])'
  BY DestroyKeeps, Zenon
<1>2. 0 \in 0 .. MaxNodes /\ [i \in 1 .. 0 |-> 1] \in [1 .. 0 -> Address]
  BY LengthAssumption
<1>3. Items' = [i \in 1 .. 0 |-> heap'[[j \in 1 .. 0 |-> 1][i]].data]
  BY <1>1, <1>2, Zenon DEF ItemsAlong
<1>4. Items' = <<>>
  BY <1>3
<1> QED
  BY <1>4, Zenon DEF Abstract!Clear, destroy_list

\* The deque counts with the Cardinality of its own copy of FiniteSets.
LEMMA SameCount == ASSUME NEW S PROVE Abstract!Cardinality(S) = Cardinality(S)
BY Zenon DEF Abstract!Cardinality, Cardinality, Abstract!IsFiniteSet, IsFiniteSet

\* The indices i and j are start and end from the front of a list of n items,
\* and the last item that there is up to end is last.
Reaches(n, i, j, start, end, last) ==
    /\ start = IF i < 0 THEN n + i ELSE i
    /\ end = IF j < 0 THEN n + j ELSE j
    /\ last = IF end >= n THEN n - 1 ELSE end

\* What the abstract range is then.
IsSlice(n, its, i, j, start, end, last) ==
    Abstract!Slice(its, i, j)
      = IF start < 0 \/ start >= n \/ end < start THEN <<>> ELSE Taken(its, start, last)

LEMMA SliceIs ==
    ASSUME NEW n \in Nat, NEW its \in [1 .. n -> Data], NEW i \in Int, NEW j \in Int,
           NEW start \in Int, NEW end \in Int, NEW last \in Int,
           Reaches(n, i, j, start, end, last)
    PROVE  IsSlice(n, its, i, j, start, end, last)
<1> USE DEF IsSlice, Reaches, Taken
<1> DEFINE in == {k \in 1 .. n : start <= k - 1 /\ k - 1 <= end}
<1>1. Len(its) = n
  OBVIOUS
<1>2. Abstract!Slice(its, i, j)
        = IF start < 0 THEN <<>> ELSE [k \in 1 .. Cardinality(in) |-> its[start + k]]
  <2>1. (IF i < 0 THEN i + n ELSE i) = start /\ (IF j < 0 THEN j + n ELSE j) = end
    OBVIOUS
  <2>2. Abstract!Cardinality(in) = Cardinality(in)
    BY SameCount, Zenon
  <2> QED
    BY <1>1, <2>1, <2>2, ZenonT(30) DEF Abstract!Slice
<1>3. CASE start < 0
  BY <1>2, <1>3, Zenon
<1>4. CASE start >= 0 /\ (start >= n \/ end < start)
  <2>1. in = {}
    BY <1>4
  <2>2. Cardinality(in) = 0
    BY <2>1, FS_EmptySet, Zenon
  <2> HIDE DEF in
  <2> QED
    BY <1>2, <1>4, <2>2, SMTT(30)
<1>5. CASE start >= 0 /\ start < n /\ end >= start
  <2>1. in = (start + 1) .. (last + 1)
    BY <1>5
  <2>2. Cardinality((start + 1) .. (last + 1)) = last - start + 1
    <3>1. start + 1 \in Int /\ last + 1 \in Int /\ ~(start + 1 > last + 1)
      BY <1>5
    <3>2. Cardinality((start + 1) .. (last + 1)) = (last + 1) - (start + 1) + 1
      BY <3>1, FS_Interval, Zenon
    <3>3. (last + 1) - (start + 1) + 1 = last - start + 1
      OBVIOUS
    <3> QED
      BY <3>2, <3>3, Zenon
  <2> HIDE DEF in
  <2>3. Cardinality(in) = last - start + 1
    BY <2>1, <2>2, Zenon
  <2>4. ~ start < 0 /\ ~ (start < 0 \/ start >= n \/ end < start)
    BY <1>5
  <2> QED
    BY <1>2, <2>3, <2>4, Zenon
<1> QED
  BY <1>3, <1>4, <1>5

LEMMA LrangeRefines ==
    ASSUME ListInv, NEW i \in Indices, NEW j \in Indices, lrange(i, j), ItemsAlong, ItemsAlong'
    PROVE  Abstract!Ask(i, j)
<1>1. PICK n \in 0 .. MaxNodes : \E s \in [1 .. n -> Address] : Chain(n, s)
  BY Zenon DEF ListInv
<1>2. PICK s \in [1 .. n -> Address] : Chain(n, s)
  BY <1>1, Zenon
<1>3. n \in Nat /\ i \in Int /\ j \in Int /\ length \in Nat
  BY LengthAssumption DEF ListInv, TypeOK
<1> DEFINE its == [k \in 1 .. n |-> heap[s[k]].data]
<1>7. PICK start \in Int, end \in Int, last \in Int : Reaches(n, i, j, start, end, last)
  BY <1>3 DEF Reaches
<1>4. its \in [1 .. n -> Data]
  BY <1>2, <1>3, ItemsTyped DEF ListInv
<1>5. Items = its
  BY <1>2, Zenon DEF ItemsAlong
<1>6. Items' = its
  <2>1. Chain(n, s)' /\ heap' = heap
    BY <1>2, Zenon DEF lrange, Chain
  <2> QED
    BY <2>1 DEF ItemsAlong
<1>8. Abstract!Slice(its, i, j)
        = IF start < 0 \/ start >= n \/ end < start THEN <<>> ELSE Taken(its, start, last)
  <2> HIDE DEF its
  <2>1. IsSlice(n, its, i, j, start, end, last)
    BY <1>3, <1>4, <1>7, SliceIs, Zenon
  <2> QED
    BY <2>1, Zenon DEF IsSlice
<1>9. result' = Abstract!Slice(its, i, j)
  <2>1. CASE n = 0
    <3>1. \A k \in Nat : Follow(head, "next", k) = NULL
      <4> SUFFICES ASSUME NEW k \in Nat PROVE Follow(head, "next", k) = NULL
        BY Zenon
      <4>1. Follow(head, "next", k) = IF k < n THEN s[k + 1] ELSE NULL
        BY <1>2, <1>3, Forwards, Zenon
      <4> QED
        BY <2>1, <4>1
    <3>2. ASSUME NEW a \in Nat, NEW b \in Int PROVE Collected(a, b) = <<>>
      <4> DEFINE there == {k \in 1 .. b : Follow(head, "next", a + k - 1) # NULL}
      <4>1. \A k \in 1 .. b : Follow(head, "next", a + k - 1) = NULL
        BY <3>1
      <4>2. there = {}
        BY <4>1, Zenon
      <4>3. Collected(a, b) = [k \in there |-> heap[Follow(head, "next", a + k - 1)].data]
        BY Zenon DEF Collected
      <4> HIDE DEF there
      <4> QED
        BY <4>2, <4>3
    <3>3. result' = <<>>
      BY <1>3, <3>2 DEF lrange, FromEnd
    <3>4. start < 0 \/ start >= n
      BY <2>1
    <3> QED
      BY <1>8, <3>3, <3>4, Zenon
  <2>2. CASE n # 0
    <3>1. length = n
      BY <1>2, <1>3, <2>2 DEF Chain
    <3>2. FromEnd(i) = start /\ FromEnd(j) = end
      BY <3>1, <1>7, Zenon DEF FromEnd, Reaches
    <3>3. result' = IF start < 0 \/ start >= n \/ end < start THEN <<>>
                    ELSE Collected(start, last - start + 1)
      BY <3>1, <3>2, <1>7, Zenon DEF lrange, Reaches
    <3>4. CASE start < 0 \/ start >= n \/ end < start
      BY <1>8, <3>3, <3>4, Zenon
    <3>5. CASE start >= 0 /\ start < n /\ end >= start
      <4>1. start \in Nat /\ start < n /\ start <= last /\ last < n
        BY <1>3, <1>7, <3>5 DEF Reaches
      <4>2. Collected(start, last - start + 1) = Taken(its, start, last)
        BY <1>2, <1>3, <4>1, RangeIsSlice
      <4> HIDE DEF its
      <4> QED
        BY <1>3, <1>8, <3>3, <3>5, <4>2, Zenon
    <3> QED
      BY <1>3, <3>4, <3>5
  <2> QED
    BY <2>1, <2>2, Zenon
<1> QED
  BY <1>5, <1>6, <1>9, Zenon DEF Abstract!Ask, lrange

\* The list implements the deque that linked_list.h promises: the pushes add at
\* their end, destroy_list leaves nothing, and lrange gives the range asked for
\* of the items pushed, even where it walks by an uninitialised length.
THEOREM ListIsDeque == Spec => ImplementsDeque
<1>1. Init /\ ListInv /\ ItemsAlong => Abstract!Init
  <2> SUFFICES ASSUME Init, ListInv, ItemsAlong PROVE Abstract!Init
    BY Zenon
  <2>1. PICK n \in 0 .. MaxNodes : \E s \in [1 .. n -> Address] : Chain(n, s)
    BY Zenon DEF ListInv
  <2>2. PICK s \in [1 .. n -> Address] : Chain(n, s)
    BY <2>1, Zenon
  <2>3. n = 0
    BY <2>2, LengthAssumption DEF Init, create_list, Chain, Address, NULL
  <2>4. Items = [i \in 1 .. n |-> heap[s[i]].data]
    BY <2>2, Zenon DEF ItemsAlong
  <2>5. Items = <<>>
    BY <2>3, <2>4
  <2> QED
    BY <2>5, Zenon DEF Init, Abstract!Init
<1>2. ListInv /\ ItemsAlong /\ ItemsAlong' /\ [Next]_vars
        => [Abstract!Next]_<<Items, result, call>>
  <2> SUFFICES ASSUME ListInv, ItemsAlong, ItemsAlong', [Next]_vars
               PROVE  [Abstract!Next]_<<Items, result, call>>
    BY Zenon
  <2>1. ASSUME NEW d \in Data, lpush(d) PROVE Abstract!Next
    BY <2>1, LpushRefines, Zenon DEF Abstract!Next
  <2>2. ASSUME NEW d \in Data, rpush(d) PROVE Abstract!Next
    BY <2>2, RpushRefines, Zenon DEF Abstract!Next
  <2>3. ASSUME NEW i \in Indices, NEW j \in Indices, lrange(i, j) PROVE Abstract!Next
    BY <2>3, LrangeRefines, Zenon DEF Abstract!Next
  <2>4. ASSUME destroy_list PROVE Abstract!Next
    BY <2>4, DestroyRefines, Zenon DEF Abstract!Next
  <2>5. ASSUME UNCHANGED vars PROVE UNCHANGED <<Items, result, call>>
    BY <2>5 DEF vars, Items, Size, Follow
  <2> QED
    BY <2>1, <2>2, <2>3, <2>4, <2>5, Zenon DEF Next
<1> QED
  BY <1>1, <1>2, ItemsAre, ListInvariant, PTL DEF Spec, ImplementsDeque, Abstract!Spec
==============================================================================
