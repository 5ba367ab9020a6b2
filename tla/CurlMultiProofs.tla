-------------------------- MODULE CurlMultiProofs --------------------------
(***************************************************************************)
(* TLAPS proofs about CurlMulti, for any number of handles and any heap.   *)
(***************************************************************************)
EXTENDS CurlMulti, SequenceTheorems, TLAPS

\* A CURLM that is being destroyed, or is gone, has no handles and no walk in
\* progress, and once it is gone no message is left.
Retired ==
  /\ live # "yes" => handles = <<>> /\ cursor = 0
  /\ live = "no" => order = <<>>

\* The inductive invariant.
CMInv == CMTypeOK /\ ListMatchesFlags /\ ChainIsQueue /\ Retired

\* What is left of a duplicate-free sequence when its element h is cut out.
LEMMA RemoveFirstLemma ==
  ASSUME NEW S, NEW s \in Seq(S), NEW h \in S,
         \A i, j \in 1..Len(s) : s[i] = s[j] => i = j
  PROVE  LET t == RemoveFirst(s, h)
         IN  /\ t \in Seq(S)
             /\ Range(t) = Range(s) \ {h}
             /\ \A i, j \in 1..Len(t) : t[i] = t[j] => i = j
<1> DEFINE t == RemoveFirst(s, h)
<1>0. /\ Len(s) \in Nat /\ DOMAIN s = 1..Len(s)
      /\ \A i \in 1..Len(s) : s[i] \in S
  BY LenProperties
<1>1. CASE ~ \E i \in 1..Len(s) : s[i] = h
  <2>1. t = s
    BY <1>1 DEF RemoveFirst
  <2> QED
    BY <1>0, <1>1, <2>1 DEF Range
<1>2. CASE \E i \in 1..Len(s) : s[i] = h
  <2>1. PICK k \in 1..Len(s) : s[k] = h
    BY <1>2
  <2>2. {i \in 1..Len(s) : s[i] = h} = {k}
    BY <2>1
  <2>3. \E x \in {k} : \A y \in {k} : x =< y
    BY <1>0
  <2>4. Min({k}) = k
    BY <2>3 DEF Min
  <2>5. SelectInSeq(s, LAMBDA v : v = h) = k
    BY <2>2, <2>4 DEF SelectInSeq
  <2>6. t = SubSeq(s, 1, k - 1) \o SubSeq(s, k + 1, Len(s))
    BY <1>2, <2>5 DEF RemoveFirst, RemoveAt
  <2> DEFINE a == SubSeq(s, 1, k - 1)
             b == SubSeq(s, k + 1, Len(s))
  <2>7. /\ a \in Seq(S) /\ Len(a) = k - 1
        /\ \A i \in 1..(k - 1) : a[i] = s[i]
    <3>1. \A i \in 1..(k - 1) : s[i] \in S
      BY <1>0
    <3>2. k - 1 \in Int /\ 1 \in Int
      BY <1>0
    <3> HIDE DEF t
    <3>3. /\ a \in Seq(S)
          /\ Len(a) = IF 1 <= k - 1 THEN k - 1 - 1 + 1 ELSE 0
          /\ \A i \in 1..(k - 1 - 1 + 1) : a[i] = s[1 + i - 1]
      BY <3>1, <3>2, SubSeqProperties
    <3> HIDE DEF a
    <3> QED
      BY <3>3, <1>0
  <2>8. /\ b \in Seq(S) /\ Len(b) = Len(s) - k
        /\ \A i \in 1..(Len(s) - k) : b[i] = s[k + i]
    <3>1. \A i \in (k + 1)..Len(s) : s[i] \in S
      BY <1>0
    <3>2. k + 1 \in Int /\ Len(s) \in Int
      BY <1>0
    <3>3. /\ b \in Seq(S)
          /\ Len(b) = IF k + 1 <= Len(s) THEN Len(s) - (k + 1) + 1 ELSE 0
          /\ \A i \in 1..(Len(s) - (k + 1) + 1) : b[i] = s[(k + 1) + i - 1]
      BY <3>1, <3>2, SubSeqProperties
    <3> HIDE DEF a, b, t
    <3>4. Len(b) = Len(s) - k
      <4> DEFINE n == Len(s)
      <4>1. Len(b) = IF k + 1 <= n THEN n - (k + 1) + 1 ELSE 0
        BY <3>3
      <4>2. n \in Nat /\ k \in 1..n
        BY <1>0
      <4> HIDE DEF n
      <4>3. Len(b) = n - k
        BY <4>1, <4>2
      <4> QED
        BY <4>3 DEF n
    <3>5. ASSUME NEW i \in 1..(Len(s) - k) PROVE b[i] = s[k + i]
      <4>1. (k + 1) + i - 1 = k + i /\ i \in 1..(Len(s) - (k + 1) + 1)
        BY <1>0
      <4> QED
        BY <3>3, <4>1
    <3> QED
      BY <3>3, <3>4, <3>5
  <2> HIDE DEF a, b, t
  <2>9. /\ t \in Seq(S) /\ Len(t) = Len(s) - 1
        /\ \A i \in 1..Len(t) : t[i] = IF i < k THEN s[i] ELSE s[i + 1]
    <3>1. t = a \o b
      BY <2>6 DEF a, b
    <3>2. /\ t \in Seq(S) /\ Len(t) = Len(a) + Len(b)
          /\ \A i \in 1..(Len(a) + Len(b)) :
               t[i] = IF i <= Len(a) THEN a[i] ELSE b[i - Len(a)]
      <4>1. a \in Seq(S) /\ b \in Seq(S)
        BY <2>7, <2>8
      <4> QED
        BY <3>1, <4>1, ConcatProperties
    <3>3. Len(t) = Len(s) - 1
      BY <3>2, <2>7, <2>8, <1>0
    <3>4. ASSUME NEW i \in 1..Len(t)
          PROVE  t[i] = IF i < k THEN s[i] ELSE s[i + 1]
      <4>1. t[i] = IF i < k THEN a[i] ELSE b[i - (k - 1)]
        BY <3>2, <3>3, <2>7, <2>8, <1>0
      <4>2. CASE i < k
        BY <4>1, <4>2, <2>7, <1>0
      <4>3. CASE ~(i < k)
        <5>1. i - (k - 1) \in 1..(Len(s) - k) /\ k + (i - (k - 1)) = i + 1
          BY <4>3, <3>3, <1>0
        <5> QED
          BY <4>1, <4>3, <5>1, <2>8
      <4> QED
        BY <4>2, <4>3
    <3> QED
      BY <3>2, <3>3, <3>4
  <2>10. DOMAIN t = 1..Len(t) /\ Len(t) \in Nat
    BY <2>9, LenProperties
  <2>11. \A i, j \in 1..Len(t) : t[i] = t[j] => i = j
    BY <2>9, <2>10, <1>0
  <2>12. Range(t) = Range(s) \ {h}
    <3>1. Range(t) \subseteq Range(s) \ {h}
      BY <2>1, <2>9, <2>10, <1>0 DEF Range
    <3>2. ASSUME NEW x \in Range(s) \ {h} PROVE x \in Range(t)
      <4>1. PICK i \in 1..Len(s) : s[i] = x
        BY <3>2, <1>0 DEF Range
      <4>2. CASE i < k
        BY <4>1, <4>2, <2>9, <2>10, <1>0 DEF Range
      <4>3. CASE i > k
        <5>1. i - 1 \in 1..Len(t) /\ t[i - 1] = s[i]
          BY <4>3, <2>9, <2>10, <1>0
        <5> QED
          BY <4>1, <5>1, <2>10 DEF Range
      <4>4. i # k
        BY <4>1, <2>1, <3>2
      <4> QED
        BY <4>2, <4>3, <4>4, <1>0
    <3> QED
      BY <3>1, <3>2
  <2> QED
    BY <2>9, <2>11, <2>12 DEF t
<1> QED
  BY <1>1, <1>2

-----------------------------------------------------------------------------
\* curl_queue_done keeps the chain of nodes and the queue in step.
LEMMA EnqueueLemma ==
  ASSUME CMInv, live = "yes", NEW h \in Handles, NEW n \in Nodes, NEW r \in Results,
         curl_queue_done(h, n, r), UNCHANGED live
  PROVE  /\ alloc' \in SUBSET Nodes /\ order' \in Seq(Nodes) /\ order' # <<>>
         /\ easy' \in [Nodes -> Handles \cup {NULL}] /\ res' \in [Nodes -> Results]
         /\ next' \in [Nodes -> Pointers]
         /\ head' \in Pointers /\ tail' \in Pointers
         /\ ChainIsQueue'
<1> USE CMAssumption
<1> DEFINE m == Len(order)
<1>1. /\ m \in Nat /\ order \in Seq(Nodes) /\ DOMAIN order = 1..m
      /\ \A i \in 1..m : order[i] \in Nodes
  BY LenProperties DEF CMInv, CMTypeOK
<1>2. /\ order' = Append(order, n)
      /\ order' \in Seq(Nodes) /\ order' # <<>> /\ Len(order') = m + 1
      /\ \A i \in 1..m : order'[i] = order[i]
      /\ order'[m + 1] = n
  BY <1>1, AppendProperties DEF curl_queue_done
<1>3. DOMAIN order' = 1..(m + 1)
  BY <1>2, LenProperties
<1>4. order = <<>> <=> m = 0
  BY <1>1, EmptySeq
<1>5. n \notin alloc /\ \A i \in 1..m : order[i] \in alloc /\ order[i] # n
  BY <1>1 DEF curl_queue_done, CMInv, ChainIsQueue, Range
<1>6. tail = IF m = 0 THEN NULL ELSE order[m]
  BY <1>4 DEF CMInv, ChainIsQueue
<1>7. /\ alloc' = alloc \cup {n} /\ tail' = n
      /\ head' = IF m = 0 THEN n ELSE head
      /\ next' = IF m = 0 THEN [next EXCEPT ![n] = NULL]
                          ELSE [next EXCEPT ![n] = NULL, ![order[m]] = n]
      /\ easy' = [easy EXCEPT ![n] = h] /\ res' = [res EXCEPT ![n] = r]
  <2>1. m = 0 <=> tail = NULL
    BY <1>1, <1>6
  <2> QED
    BY <1>6, <2>1 DEF curl_queue_done
<1>8. /\ next \in [Nodes -> Pointers] /\ head \in Pointers /\ alloc \in SUBSET Nodes
      /\ easy \in [Nodes -> Handles \cup {NULL}] /\ res \in [Nodes -> Results]
  BY DEF CMInv, CMTypeOK
<1>9. /\ \A i, j \in 1..m : order[i] = order[j] => i = j
      /\ alloc = Range(order)
      /\ head = IF m = 0 THEN NULL ELSE order[1]
      /\ \A i \in 1..m : next[order[i]] = IF i = m THEN NULL ELSE order[i + 1]
  BY <1>4 DEF CMInv, ChainIsQueue
<1> HIDE DEF m
<1>10. /\ next' \in [Nodes -> Pointers] /\ head' \in Pointers /\ tail' \in Pointers
       /\ easy' \in [Nodes -> Handles \cup {NULL}] /\ res' \in [Nodes -> Results]
  BY <1>1, <1>7, <1>8 DEF Pointers
<1>11. \A i, j \in 1..(m + 1) : order'[i] = order'[j] => i = j
  BY <1>1, <1>2, <1>5, <1>9
<1>12. alloc' = Range(order')
  <2>1. Range(order') = Range(order) \cup {n}
    <3>1. \A x \in Range(order') : x \in Range(order) \cup {n}
      BY <1>1, <1>2, <1>3 DEF Range
    <3>2. \A x \in Range(order) : x \in Range(order')
      BY <1>1, <1>2, <1>3 DEF Range
    <3>3. n \in Range(order')
      BY <1>1, <1>2, <1>3 DEF Range
    <3> QED
      BY <3>1, <3>2, <3>3
  <2> QED
    BY <2>1, <1>7, <1>9
<1>13. ASSUME NEW i \in 1..(m + 1)
       PROVE  next'[order'[i]] = IF i = m + 1 THEN NULL ELSE order'[i + 1]
  <2>1. CASE i = m + 1
    <3>1. order'[i] = n
      BY <2>1, <1>2
    <3>2. m # 0 => order[m] # n
      BY <1>1, <1>5
    <3> QED
      BY <2>1, <3>1, <3>2, <1>7, <1>8
  <2>2. CASE i = m
    <3>1. m # 0 /\ order'[i] = order[m] /\ order'[i + 1] = n /\ order[m] \in Nodes
      BY <2>2, <1>1, <1>2
    <3> QED
      BY <2>2, <3>1, <1>7, <1>8, <1>1
  <2>3. CASE i < m
    <3>1. /\ m # 0 /\ order'[i] = order[i] /\ order'[i + 1] = order[i + 1]
          /\ order[i] \in Nodes /\ order[i] # n /\ order[i] # order[m]
      BY <2>3, <1>1, <1>2, <1>5, <1>9
    <3>2. next[order[i]] = order[i + 1]
      BY <2>3, <1>1, <1>9
    <3> QED
      BY <2>3, <3>1, <3>2, <1>7, <1>8, <1>1
  <2> QED
    BY <2>1, <2>2, <2>3, <1>1
<1>14. head' = order'[1]
  BY <1>1, <1>2, <1>7, <1>9
<1>15. tail' = order'[m + 1]
  BY <1>2, <1>7
<1>16. \A i \in 1..(m + 1) :
         next'[order'[i]] = IF i = m + 1 THEN NULL ELSE order'[i + 1]
  BY <1>13
<1>17. Len(order') = m + 1 /\ order' # <<>>
  BY <1>2
<1>18. ChainIsQueue'
  BY <1>11, <1>12, <1>14, <1>15, <1>16, <1>17 DEF ChainIsQueue
<1> QED
  BY <1>2, <1>7, <1>8, <1>10, <1>18

\* Unlinking and freeing messages_head keeps them in step, too, and what is left
\* of the chain no longer reaches the freed node.
LEMMA DequeueLemma ==
  ASSUME CMInv, head # NULL, head' = next[head], alloc' = alloc \ {head},
         order' = Tail(order), UNCHANGED <<next, live>>,
         live = "yes" => tail' = IF next[head] = NULL THEN NULL ELSE tail
  PROVE  /\ order # <<>> /\ order' \in Seq(Nodes) /\ alloc' \in SUBSET Nodes
         /\ head' \in Pointers
         /\ ChainIsQueue'
<1> USE CMAssumption
<1> DEFINE m == Len(order)
<1>1. /\ m \in Nat /\ order \in Seq(Nodes) /\ DOMAIN order = 1..m
      /\ \A i \in 1..m : order[i] \in Nodes
  BY LenProperties DEF CMInv, CMTypeOK
<1>2. order # <<>> /\ m # 0
  BY <1>1, EmptySeq DEF CMInv, ChainIsQueue
<1>3. /\ order' \in Seq(Nodes) /\ Len(order') = m - 1
      /\ \A i \in 1..(m - 1) : order'[i] = order[i + 1]
  BY <1>1, <1>2, HeadTailProperties
<1>4. DOMAIN order' = 1..(m - 1) /\ (order' = <<>> <=> m = 1)
  BY <1>1, <1>3, LenProperties, EmptySeq
<1>5. /\ \A i, j \in 1..m : order[i] = order[j] => i = j
      /\ alloc = Range(order)
      /\ head = order[1]
      /\ \A i \in 1..m : next[order[i]] = IF i = m THEN NULL ELSE order[i + 1]
      /\ live = "yes" => tail = order[m]
  BY <1>2 DEF CMInv, ChainIsQueue
<1> HIDE DEF m
<1>6. \A i, j \in 1..(m - 1) : order'[i] = order'[j] => i = j
  <2> SUFFICES ASSUME NEW i \in 1..(m - 1), NEW j \in 1..(m - 1), order'[i] = order'[j]
               PROVE  i = j
    OBVIOUS
  <2>1. i + 1 \in 1..m /\ j + 1 \in 1..m
    BY <1>1
  <2>2. order[i + 1] = order[j + 1]
    BY <1>3
  <2>3. i + 1 = j + 1
    BY <2>1, <2>2, <1>5
  <2> QED
    BY <2>3, <1>1
<1>7. alloc' = Range(order')
  <2>1. \A x \in Range(order') : x \in Range(order) /\ x # order[1]
    <3> SUFFICES ASSUME NEW i \in 1..(m - 1)
                 PROVE  order'[i] \in Range(order) /\ order'[i] # order[1]
      BY <1>4 DEF Range
    <3>1. i + 1 \in 1..m /\ 1 \in 1..m /\ i + 1 # 1 /\ order'[i] = order[i + 1]
      BY <1>1, <1>2, <1>3
    <3> QED
      BY <3>1, <1>1, <1>5 DEF Range
  <2>2. ASSUME NEW x \in Range(order), x # order[1] PROVE x \in Range(order')
    <3>1. PICK i \in 1..m : order[i] = x
      BY <1>1 DEF Range
    <3>2. i # 1
      BY <3>1, <2>2
    <3>3. i - 1 \in 1..(m - 1) /\ (i - 1) + 1 = i
      BY <3>2, <1>1
    <3>4. order'[i - 1] = x
      BY <3>1, <3>3, <1>3
    <3> QED
      BY <3>3, <3>4, <1>4 DEF Range
  <2> QED
    BY <2>1, <2>2, <1>5
<1>8. head' = IF order' = <<>> THEN NULL ELSE order'[1]
  BY <1>1, <1>2, <1>3, <1>4, <1>5
<1>9. ASSUME NEW i \in 1..(m - 1)
      PROVE  next'[order'[i]] = IF i = m - 1 THEN NULL ELSE order'[i + 1]
  <2>1. i + 1 \in 1..m /\ order'[i] = order[i + 1]
    BY <1>1, <1>3
  <2>2. next[order[i + 1]] = IF i + 1 = m THEN NULL ELSE order[(i + 1) + 1]
    BY <2>1, <1>5
  <2>3. i # m - 1 => order'[i + 1] = order[(i + 1) + 1]
    BY <1>1, <1>3
  <2> QED
    BY <2>1, <2>2, <2>3, <1>1
<1>10. live' = "yes" => tail' = IF order' = <<>> THEN NULL ELSE order'[Len(order')]
  <2>1. CASE m = 1
    BY <2>1, <1>2, <1>4, <1>5, <1>1
  <2>2. CASE m # 1
    <3>1. order'[m - 1] = order[m] /\ order' # <<>> /\ Len(order') = m - 1
      BY <2>2, <1>1, <1>2, <1>3, <1>4
    <3>2. next[head] = order[2] /\ order[2] \in Nodes
      BY <2>2, <1>1, <1>2, <1>5
    <3> QED
      BY <3>1, <3>2, <1>5
  <2> QED
    BY <2>1, <2>2
<1>11. head' \in Pointers /\ alloc' \in SUBSET Nodes
  <2>1. head \in Nodes /\ next \in [Nodes -> Pointers] /\ alloc \in SUBSET Nodes
    BY DEF CMInv, CMTypeOK, Pointers
  <2> QED
    BY <2>1
<1> QED
  BY <1>2, <1>3, <1>6, <1>7, <1>8, <1>9, <1>10, <1>11 DEF ChainIsQueue

-----------------------------------------------------------------------------
\* The invariant holds in the first state ...
LEMMA CMInitInv == CMInit => CMInv
<1> SUFFICES ASSUME CMInit PROVE CMInv
  OBVIOUS
<1> USE CMAssumption DEF CMInit
<1>1. CMTypeOK
  BY EmptySeq DEF CMTypeOK, Pointers
<1>2. ListMatchesFlags
  BY DEF ListMatchesFlags, Range
<1>3. ChainIsQueue
  BY DEF ChainIsQueue, Range
<1> QED
  BY <1>1, <1>2, <1>3 DEF CMInv, Retired

\* ... and every step keeps it.
LEMMA CMNextInv == CMInv /\ [CMNext]_cmVars => CMInv'
<1> SUFFICES ASSUME CMInv, [CMNext]_cmVars PROVE CMInv'
  OBVIOUS
<1> USE CMAssumption
<1>0. /\ CMTypeOK /\ ListMatchesFlags /\ ChainIsQueue /\ Retired
      /\ Len(handles) \in Nat /\ \A i \in 1..Len(handles) : handles[i] \in Handles
  BY LenProperties DEF CMInv, CMTypeOK
<1>1. CASE curl_multi_init
  <2>1. CMTypeOK' /\ ListMatchesFlags'
    BY <1>0, <1>1, EmptySeq
       DEF curl_multi_init, easyVars, heapVars, CMTypeOK, ListMatchesFlags, Retired, Pointers
  <2>2. ChainIsQueue' /\ Retired'
    BY <1>0, <1>1
       DEF curl_multi_init, easyVars, heapVars, ChainIsQueue, Retired
  <2> QED
    BY <2>1, <2>2 DEF CMInv
<1>2. CASE \E h \in Handles : curl_multi_add_handle(h)
  <2>1. PICK h \in Handles : curl_multi_add_handle(h)
    BY <1>2
  <2>2. /\ idle /\ ~added[h] /\ handles' = <<h>> \o handles
        /\ added' = [added EXCEPT ![h] = TRUE]
        /\ completed' = [completed EXCEPT ![h] = FALSE]
        /\ UNCHANGED <<result, live, head, tail, cursor, heapVars>>
    BY <2>1 DEF curl_multi_add_handle
  <2>3. /\ handles' \in Seq(Handles) /\ Len(handles') = Len(handles) + 1
        /\ handles'[1] = h
        /\ \A i \in 2..Len(handles') : handles'[i] = handles[i - 1]
    <3>1. <<h>> \in Seq(Handles) /\ Len(<<h>>) = 1 /\ <<h>>[1] = h /\ handles \in Seq(Handles)
      BY <1>0 DEF CMTypeOK
    <3>2. /\ handles' \in Seq(Handles) /\ Len(handles') = 1 + Len(handles)
          /\ \A i \in 1..(1 + Len(handles)) :
               handles'[i] = IF i <= 1 THEN <<h>>[i] ELSE handles[i - 1]
      BY <2>2, <3>1, ConcatProperties
    <3> QED
      BY <3>1, <3>2, <1>0
  <2>4. CMTypeOK'
    <3>1. cursor' = 0 /\ Len(handles') \in Nat
      BY <2>2, <2>3, LenProperties DEF idle
    <3> QED
      BY <1>0, <2>2, <2>3, <3>1 DEF CMTypeOK, heapVars
  <2>5. h \notin Range(handles)
    BY <1>0, <2>2 DEF ListMatchesFlags
  <2>6. DOMAIN handles = 1..Len(handles) /\ DOMAIN handles' = 1..(Len(handles) + 1)
    BY <1>0, <2>3, LenProperties DEF CMTypeOK
  <2>7. Range(handles') = Range(handles) \cup {h}
    <3>1. \A x \in Range(handles') : x \in Range(handles) \cup {h}
      <4> SUFFICES ASSUME NEW i \in 1..(Len(handles) + 1), i # 1
                   PROVE  handles'[i] \in Range(handles)
        BY <2>3, <2>6 DEF Range
      <4>1. i - 1 \in 1..Len(handles) /\ handles'[i] = handles[i - 1]
        BY <1>0, <2>3
      <4> QED
        BY <4>1, <2>6 DEF Range
    <3>2. ASSUME NEW i \in 1..Len(handles) PROVE handles[i] \in Range(handles')
      <4>1. i + 1 \in 2..Len(handles') /\ (i + 1) - 1 = i
        BY <1>0, <2>3
      <4>2. handles'[i + 1] = handles[i]
        BY <4>1, <2>3
      <4> QED
        BY <4>1, <4>2, <2>3, <2>6, <1>0 DEF Range
    <3>3. h \in Range(handles')
      BY <1>0, <2>3, <2>6 DEF Range
    <3> QED
      BY <3>1, <3>2, <3>3, <2>6 DEF Range
  <2>8. ASSUME NEW i \in 1..Len(handles'), NEW j \in 1..Len(handles'), handles'[i] = handles'[j]
        PROVE  i = j
    <3>1. ASSUME NEW k \in 1..Len(handles'), k # 1
          PROVE  k - 1 \in 1..Len(handles) /\ handles'[k] = handles[k - 1] /\ handles'[k] # h
      <4>1. k - 1 \in 1..Len(handles) /\ handles'[k] = handles[k - 1]
        BY <1>0, <2>3, <3>1
      <4> QED
        BY <4>1, <2>5, <2>6 DEF Range
    <3>2. CASE i # 1 /\ j # 1
      <4>1. i - 1 = j - 1
        BY <2>8, <3>1, <3>2, <1>0 DEF ListMatchesFlags
      <4> QED
        BY <4>1, <2>3, <1>0
    <3>3. CASE i = 1 \/ j = 1
      BY <3>1, <3>3, <2>3, <2>8
    <3> QED
      BY <3>2, <3>3
  <2>9. ListMatchesFlags'
    <3>1. {x \in Handles : added'[x]} = {x \in Handles : added[x]} \cup {h}
      BY <1>0, <2>2 DEF CMTypeOK
    <3> QED
      BY <3>1, <2>7, <2>8, <1>0 DEF ListMatchesFlags
  <2>10. ChainIsQueue' /\ Retired'
    BY <1>0, <2>2 DEF ChainIsQueue, Retired, heapVars, idle
  <2> QED
    BY <2>4, <2>9, <2>10 DEF CMInv
<1>3. CASE \E h \in Handles : curl_multi_remove_handle(h)
  <2>1. PICK h \in Handles : curl_multi_remove_handle(h)
    BY <1>3
  <2>2. /\ idle /\ handles' = RemoveFirst(handles, h)
        /\ added' = [added EXCEPT ![h] = FALSE]
        /\ UNCHANGED <<completed, result, live, head, tail, cursor, heapVars>>
    BY <2>1 DEF curl_multi_remove_handle
  <2>3. /\ handles' \in Seq(Handles) /\ Range(handles') = Range(handles) \ {h}
        /\ \A i, j \in 1..Len(handles') : handles'[i] = handles'[j] => i = j
    BY <1>0, <2>2, RemoveFirstLemma DEF CMTypeOK, ListMatchesFlags
  <2>4. CMTypeOK'
    <3>1. cursor' = 0 /\ Len(handles') \in Nat
      BY <2>2, <2>3, LenProperties DEF idle
    <3> QED
      BY <1>0, <2>2, <2>3, <3>1 DEF CMTypeOK, heapVars
  <2>5. ListMatchesFlags'
    <3>1. {x \in Handles : added'[x]} = {x \in Handles : added[x]} \ {h}
      BY <1>0, <2>2 DEF CMTypeOK
    <3> QED
      BY <3>1, <2>3, <1>0 DEF ListMatchesFlags
  <2>6. ChainIsQueue' /\ Retired'
    BY <1>0, <2>2 DEF ChainIsQueue, Retired, heapVars, idle
  <2> QED
    BY <2>4, <2>5, <2>6 DEF CMInv
<1>4. CASE PerformBegin \/ PerformSkip \/ PerformEnd
  <2>1. /\ live = "yes" /\ cursor' \in 0..(Len(handles) + 1)
        /\ UNCHANGED <<easyVars, live, handles, head, tail, heapVars>>
    BY <1>0, <1>4, EmptySeq DEF PerformBegin, PerformSkip, PerformEnd, idle, atHandle, CMTypeOK
  <2>2. CMTypeOK' /\ ListMatchesFlags'
    BY <1>0, <2>1 DEF CMTypeOK, ListMatchesFlags, easyVars, heapVars
  <2>3. ChainIsQueue' /\ Retired'
    BY <1>0, <2>1 DEF ChainIsQueue, Retired, heapVars
  <2> QED
    BY <2>2, <2>3 DEF CMInv
<1>5. CASE \E r \in Results : PerformNoMemory(r)
  <2>1. /\ live = "yes" /\ cursor' = 0
        /\ completed' \in [Handles -> BOOLEAN] /\ result' \in [Handles -> Results]
        /\ UNCHANGED <<added, live, handles, head, tail, heapVars>>
    BY <1>0, <1>5 DEF PerformNoMemory, atHandle, CMTypeOK
  <2>2. CMTypeOK' /\ ListMatchesFlags'
    BY <1>0, <2>1 DEF CMTypeOK, ListMatchesFlags, heapVars
  <2>3. ChainIsQueue' /\ Retired'
    BY <1>0, <2>1 DEF ChainIsQueue, Retired, heapVars
  <2> QED
    BY <2>2, <2>3 DEF CMInv
<1>6. CASE \E r \in Results, n \in Nodes : PerformHandle(r, n)
  <2>1. PICK r \in Results, n \in Nodes : PerformHandle(r, n)
    BY <1>6
  <2> DEFINE h == handles[cursor]
  <2>2. /\ live = "yes" /\ cursor \in 1..Len(handles) /\ h \in Handles
        /\ curl_queue_done(h, n, r) /\ cursor' = cursor + 1
        /\ completed' = [completed EXCEPT ![h] = TRUE]
        /\ result' = [result EXCEPT ![h] = r]
        /\ UNCHANGED <<added, live, handles>>
    BY <1>0, <2>1 DEF PerformHandle, atHandle
  <2> HIDE DEF h
  <2>3. /\ alloc' \in SUBSET Nodes /\ order' \in Seq(Nodes)
        /\ easy' \in [Nodes -> Handles \cup {NULL}] /\ res' \in [Nodes -> Results]
        /\ next' \in [Nodes -> Pointers]
        /\ head' \in Pointers /\ tail' \in Pointers
        /\ ChainIsQueue'
    BY <2>2, EnqueueLemma
  <2>4. completed' \in [Handles -> BOOLEAN] /\ result' \in [Handles -> Results]
        /\ cursor' \in 0..(Len(handles) + 1)
    BY <1>0, <2>2 DEF CMTypeOK
  <2>5. CMTypeOK'
    BY <1>0, <2>2, <2>3, <2>4 DEF CMTypeOK
  <2>6. ListMatchesFlags' /\ Retired'
    BY <1>0, <2>2 DEF ListMatchesFlags, Retired
  <2> QED
    BY <2>3, <2>5, <2>6 DEF CMInv
<1>7. CASE curl_multi_info_read
  <2>1. /\ live = "yes" /\ head # NULL /\ head' = next[head] /\ alloc' = alloc \ {head}
        /\ order' = Tail(order) /\ tail' = IF next[head] = NULL THEN NULL ELSE tail
        /\ UNCHANGED <<easyVars, live, handles, cursor, easy, res, next>>
    BY <1>7 DEF curl_multi_info_read, idle
  <2>2. order' \in Seq(Nodes) /\ alloc' \in SUBSET Nodes /\ head' \in Pointers /\ ChainIsQueue'
    BY <2>1, DequeueLemma
  <2>3. CMTypeOK'
    BY <1>0, <2>1, <2>2 DEF CMTypeOK, easyVars, Pointers
  <2>4. ListMatchesFlags' /\ Retired'
    BY <1>0, <2>1 DEF ListMatchesFlags, Retired, easyVars
  <2> QED
    BY <2>2, <2>3, <2>4 DEF CMInv
<1>8. CASE CleanupBegin
  BY <1>0, <1>8
     DEF CleanupBegin, idle, CMInv, CMTypeOK, ListMatchesFlags, ChainIsQueue, Retired,
         easyVars, heapVars
<1>9. CASE CleanupNode
  <2>1. /\ live = "cleaning" /\ head # NULL /\ head' = next[head] /\ alloc' = alloc \ {head}
        /\ order' = Tail(order)
        /\ UNCHANGED <<easyVars, live, handles, tail, cursor, easy, res, next>>
    BY <1>9 DEF CleanupNode
  <2>2. order' \in Seq(Nodes) /\ alloc' \in SUBSET Nodes /\ head' \in Pointers /\ ChainIsQueue'
    BY <2>1, DequeueLemma
  <2>3. CMTypeOK'
    BY <1>0, <2>1, <2>2 DEF CMTypeOK, easyVars
  <2>4. ListMatchesFlags' /\ Retired'
    BY <1>0, <2>1 DEF ListMatchesFlags, Retired, easyVars
  <2> QED
    BY <2>2, <2>3, <2>4 DEF CMInv
<1>10. CASE CleanupEnd
  <2>1. order = <<>>
    <3>1. order # <<>> => order[1] \in Nodes
      BY <1>0, EmptySeq, LenProperties DEF CMTypeOK
    <3> QED
      BY <1>0, <1>10, <3>1 DEF CleanupEnd, ChainIsQueue
  <2> QED
    BY <1>0, <1>10, <2>1
       DEF CleanupEnd, CMInv, CMTypeOK, ListMatchesFlags, ChainIsQueue, Retired,
           easyVars, heapVars
<1>11. CASE UNCHANGED cmVars
  BY <1>0, <1>11
     DEF cmVars, CMInv, CMTypeOK, ListMatchesFlags, ChainIsQueue, Retired
<1> QED
  BY <1>1, <1>2, <1>3, <1>4, <1>5, <1>6, <1>7, <1>8, <1>9, <1>10, <1>11
     DEF CMNext, Cleanup, Perform

-----------------------------------------------------------------------------
\* Every reachable state satisfies the inductive invariant: in particular the
\* types, the agreement of handle->added with the list, and of the pointer chain
\* with the queue of completions (curl_compat.c 1020-1122).
THEOREM CMInvariant == CMSpec => []CMInv
<1>1. CMInv /\ [CMNext]_cmVars => CMInv'
  BY CMNextInv
<1> QED
  BY CMInitInv, <1>1, PTL DEF CMSpec

\* The message queue never follows a pointer to a freed node, never loses one of
\* head and tail, and is returned to the heap in full by curl_multi_cleanup.
THEOREM MultiMemorySafe == CMSpec => []MemorySafe
<1>1. CMInv => MemorySafe
  <2> SUFFICES ASSUME CMInv PROVE MemorySafe
    OBVIOUS
  <2> DEFINE m == Len(order)
  <2>1. /\ m \in Nat /\ DOMAIN order = 1..m /\ \A i \in 1..m : order[i] \in Nodes
        /\ order = <<>> <=> m = 0
    BY LenProperties, EmptySeq DEF CMInv, CMTypeOK
  <2>2. /\ alloc = Range(order)
        /\ head = IF order = <<>> THEN NULL ELSE order[1]
        /\ \A i \in 1..m : next[order[i]] = IF i = m THEN NULL ELSE order[i + 1]
        /\ live = "yes" => tail = IF order = <<>> THEN NULL ELSE order[m]
        /\ live = "no" => order = <<>>
    BY DEF CMInv, ChainIsQueue, Retired
  <2> HIDE DEF m
  <2>3. \A i \in 1..m : order[i] \in alloc
    BY <2>1, <2>2 DEF Range
  <2>4. \A n \in alloc : next[n] \in alloc \cup {NULL}
    <3> SUFFICES ASSUME NEW i \in 1..m PROVE next[order[i]] \in alloc \cup {NULL}
      BY <2>1, <2>2 DEF Range
    <3>1. i # m => i + 1 \in 1..m
      BY <2>1
    <3> QED
      BY <3>1, <2>2, <2>3
  <2>5. live = "no" => alloc = {}
    BY <2>1, <2>2 DEF Range
  <2>6. m # 0 => order[1] \in alloc /\ order[m] \in alloc /\ NULL \notin {order[1], order[m]}
    BY <2>1, <2>3, CMAssumption
  <2> QED
    BY <2>1, <2>2, <2>4, <2>5, <2>6 DEF MemorySafe
<1> QED
  BY CMInvariant, <1>1, PTL

-----------------------------------------------------------------------------
\* Every step of the pointer level is a step of the FIFO, or changes nothing in it.
LEMMA StepSimulation == CMInv /\ [CMNext]_cmVars => [CQ!CQNext]_(CQ!cqVars)
<1> SUFFICES ASSUME CMInv, [CMNext]_cmVars PROVE [CQ!CQNext]_(CQ!cqVars)
  OBVIOUS
<1> USE CMAssumption
<1> DEFINE reg == {h \in Handles : added[h]}
           pend == {h \in Handles : added[h] /\ ~completed[h]}
<1>0. /\ CMTypeOK /\ ListMatchesFlags /\ ChainIsQueue
      /\ Len(handles) \in Nat /\ DOMAIN handles = 1..Len(handles)
      /\ \A i \in 1..Len(handles) : handles[i] \in Handles /\ handles[i] \in reg
      /\ Len(order) \in Nat /\ \A i \in 1..Len(order) : order[i] \in Nodes
      /\ DOMAIN order = 1..Len(order)
  <2>1. CMTypeOK /\ ListMatchesFlags /\ ChainIsQueue
    BY DEF CMInv
  <2>2. /\ Len(handles) \in Nat /\ DOMAIN handles = 1..Len(handles)
        /\ \A i \in 1..Len(handles) : handles[i] \in Handles
        /\ Len(order) \in Nat /\ \A i \in 1..Len(order) : order[i] \in Nodes
        /\ DOMAIN order = 1..Len(order)
    BY <2>1, LenProperties DEF CMTypeOK
  <2> QED
    BY <2>1, <2>2 DEF ListMatchesFlags, Range
<1>1. ASSUME NEW h \in Handles, curl_multi_add_handle(h) PROVE CQ!Register(h)
  <2>1. /\ ~added[h] /\ added' = [added EXCEPT ![h] = TRUE]
        /\ completed' = [completed EXCEPT ![h] = FALSE]
        /\ UNCHANGED <<result, easy, res, order>>
    BY <1>1 DEF curl_multi_add_handle, heapVars
  <2>2. h \notin reg /\ reg' = reg \cup {h} /\ pend' = pend \cup {h}
    BY <1>0, <2>1 DEF CMTypeOK
  <2>3. messages' = messages
    BY <2>1 DEF messages
  <2> QED
    BY <2>1, <2>2, <2>3 DEF CQ!Register
<1>2. ASSUME NEW h \in Handles, curl_multi_remove_handle(h)
      PROVE  CQ!Unregister(h) \/ UNCHANGED CQ!cqVars
  <2>1. added' = [added EXCEPT ![h] = FALSE] /\ UNCHANGED <<completed, result, easy, res, order>>
    BY <1>2 DEF curl_multi_remove_handle, heapVars
  <2>2. messages' = messages
    BY <2>1 DEF messages
  <2>3. CASE added[h]
    <3>1. h \in reg /\ reg' = reg \ {h} /\ pend' = pend \ {h}
      BY <1>0, <2>1, <2>3 DEF CMTypeOK
    <3> QED
      BY <2>1, <2>2, <3>1 DEF CQ!Unregister
  <2>4. CASE ~added[h]
    <3>1. added' = added
      BY <1>0, <2>1, <2>4 DEF CMTypeOK
    <3> QED
      BY <2>1, <2>2, <3>1 DEF CQ!cqVars
  <2> QED
    BY <2>3, <2>4
<1>3. ASSUME NEW r \in Results, PerformNoMemory(r), NEW h \in Handles, h = handles[cursor]
      PROVE  CQ!CompleteSilently(h, r)
  <2>1. /\ h \in reg /\ ~completed[h]
        /\ completed' = [completed EXCEPT ![h] = TRUE]
        /\ result' = [result EXCEPT ![h] = r]
        /\ UNCHANGED <<added, easy, res, order>>
    BY <1>0, <1>3 DEF PerformNoMemory, atHandle, heapVars
  <2>2. h \in pend /\ pend' = pend \ {h} /\ reg' = reg
    BY <1>0, <2>1 DEF CMTypeOK
  <2>3. messages' = messages
    BY <2>1 DEF messages
  <2> QED
    BY <2>1, <2>2, <2>3 DEF CQ!CompleteSilently
<1>4. ASSUME NEW r \in Results, NEW n \in Nodes, PerformHandle(r, n)
      PROVE  CQ!Complete(handles[cursor], r)
  <2> DEFINE h == handles[cursor]
             m == Len(order)
  <2>1. /\ h \in Handles /\ h \in reg /\ ~completed[h]
        /\ completed' = [completed EXCEPT ![h] = TRUE]
        /\ result' = [result EXCEPT ![h] = r]
        /\ n \in Nodes \ alloc /\ easy' = [easy EXCEPT ![n] = h]
        /\ res' = [res EXCEPT ![n] = r] /\ order' = Append(order, n)
        /\ UNCHANGED added
    BY <1>0, <1>4 DEF PerformHandle, curl_queue_done, atHandle
  <2>2. /\ Len(order') = m + 1 /\ order'[m + 1] = n
        /\ \A i \in 1..m : order'[i] = order[i] /\ order[i] # n
    <3>1. order \in Seq(Nodes) /\ \A i \in 1..m : order[i] \in alloc
      BY <1>0 DEF CMTypeOK, ChainIsQueue, Range
    <3> QED
      BY <2>1, <3>1, AppendProperties
  <2> HIDE DEF h, m
  <2>3. h \in pend /\ pend' = pend \ {h} /\ reg' = reg
    BY <1>0, <2>1 DEF CMTypeOK
  <2>4. messages' = Append(messages, [easy |-> h, res |-> r])
    <3> DEFINE e(i) == [easy |-> easy[order[i]], res |-> res[order[i]]]
               V == {e(i) : i \in 1..m} \cup {[easy |-> h, res |-> r]}
    <3>1. messages = [i \in 1..m |-> e(i)]
      BY DEF messages, m
    <3>2. m \in Nat /\ \A i \in 1..m : messages[i] = e(i)
      BY <1>0, <3>1 DEF m
    <3>3. messages \in Seq(V) /\ Len(messages) = m
      BY <3>1, <3>2
    <3> DEFINE t == Append(messages, [easy |-> h, res |-> r])
    <3>4. /\ t \in Seq(V) /\ Len(t) = m + 1
          /\ \A i \in 1..m : t[i] = e(i)
          /\ t[m + 1] = [easy |-> h, res |-> r]
      BY <3>2, <3>3, AppendProperties
    <3>5. ASSUME NEW i \in 1..m
          PROVE  [easy |-> easy'[order'[i]], res |-> res'[order'[i]]] = e(i)
      BY <1>0, <2>1, <2>2 DEF CMTypeOK, m
    <3>6. [easy |-> easy'[order'[m + 1]], res |-> res'[order'[m + 1]]] = [easy |-> h, res |-> r]
      BY <1>0, <2>1, <2>2 DEF CMTypeOK
    <3>7. messages' = [i \in 1..(m + 1) |-> [easy |-> easy'[order'[i]], res |-> res'[order'[i]]]]
      BY <2>2 DEF messages
    <3> HIDE DEF e, V, t
    <3>8. messages' \in [1..(m + 1) -> V]
      <4> SUFFICES ASSUME NEW i \in 1..(m + 1)
                   PROVE  [easy |-> easy'[order'[i]], res |-> res'[order'[i]]] \in V
        BY <3>7
      <4>1. CASE i \in 1..m
        BY <4>1, <3>5 DEF V
      <4>2. CASE i = m + 1
        BY <4>2, <3>6 DEF V
      <4> QED
        BY <4>1, <4>2, <3>2
    <3>9. messages' \in Seq(V) /\ Len(messages') = m + 1
      BY <3>2, <3>8
    <3>10. \A i \in 1..(m + 1) : messages'[i] = t[i]
      BY <3>2, <3>4, <3>5, <3>6, <3>7
    <3>11. messages' = t
      BY <3>4, <3>9, <3>10, SeqEqual
    <3> QED
      BY <3>11 DEF t
  <2> QED
    BY <2>1, <2>3, <2>4 DEF CQ!Complete, h
<1>5. ASSUME curl_multi_info_read \/ CleanupNode PROVE CQ!Take
  <2>1. /\ head # NULL /\ order' = Tail(order) /\ UNCHANGED <<added, completed, result, easy, res>>
    BY <1>5 DEF curl_multi_info_read, CleanupNode, easyVars
  <2>2. order # <<>> /\ order \in Seq(Nodes)
    BY <1>0, <2>1 DEF ChainIsQueue, CMTypeOK
  <2> DEFINE m == Len(order)
  <2>3. /\ m \in Nat \ {0} /\ Len(order') = m - 1
        /\ \A i \in 1..(m - 1) : order'[i] = order[i + 1]
    BY <2>1, <2>2, EmptySeq, HeadTailProperties
  <2> HIDE DEF m
  <2>4. messages # <<>> /\ messages' = Tail(messages)
    <3> DEFINE e(i) == [easy |-> easy[order[i]], res |-> res[order[i]]]
               V == {e(i) : i \in 1..m}
    <3>1. messages = [i \in 1..m |-> e(i)]
      BY DEF messages, m
    <3>2. messages \in Seq(V) /\ Len(messages) = m /\ messages # <<>>
      <4>1. messages \in [1..m -> V]
        BY <3>1
      <4> HIDE DEF V
      <4>2. messages \in Seq(V) /\ Len(messages) = m
        BY <2>3, <4>1
      <4> QED
        BY <2>3, <4>2, EmptySeq
    <3>3. /\ Tail(messages) \in Seq(V) /\ Len(Tail(messages)) = m - 1
          /\ \A i \in 1..(m - 1) : Tail(messages)[i] = messages[i + 1]
      BY <3>2, HeadTailProperties
    <3>4. messages' = [i \in 1..(m - 1) |-> [easy |-> easy[order'[i]], res |-> res[order'[i]]]]
      BY <2>1, <2>3 DEF messages
    <3>5. ASSUME NEW i \in 1..(m - 1)
          PROVE  /\ messages'[i] = e(i + 1) /\ i + 1 \in 1..m
                 /\ messages[i + 1] = e(i + 1)
      BY <2>3, <3>1, <3>4
    <3> HIDE DEF e
    <3>6. messages' \in [1..(m - 1) -> V]
      <4>1. \A i \in 1..(m - 1) : messages'[i] \in V
        BY <3>5
      <4> QED
        BY <3>4, <4>1
    <3> HIDE DEF V
    <3>7. messages' \in Seq(V) /\ Len(messages') = m - 1
      BY <2>3, <3>6
    <3>8. \A i \in 1..(m - 1) : messages'[i] = Tail(messages)[i]
      BY <3>3, <3>5
    <3> QED
      BY <3>2, <3>3, <3>7, <3>8, SeqEqual
  <2> QED
    BY <2>1, <2>4 DEF CQ!Take
<1>6. ASSUME curl_multi_init \/ PerformBegin \/ PerformSkip \/ PerformEnd
             \/ CleanupBegin \/ CleanupEnd \/ UNCHANGED cmVars
      PROVE  UNCHANGED CQ!cqVars
  <2>1. UNCHANGED <<added, completed, result, easy, res, order>>
    BY <1>6 DEF curl_multi_init, PerformBegin, PerformSkip, PerformEnd, CleanupBegin,
                CleanupEnd, cmVars, easyVars, heapVars
  <2> QED
    BY <2>1 DEF CQ!cqVars, messages
<1>7. ASSUME NEW h, h = handles[cursor], atHandle PROVE h \in Handles
  BY <1>0, <1>7 DEF atHandle
<1>8. CASE \E r \in Results : PerformNoMemory(r)
  <2>1. PICK r \in Results : PerformNoMemory(r)
    BY <1>8
  <2>2. PICK h \in Handles : h = handles[cursor]
    BY <2>1, <1>7 DEF PerformNoMemory
  <2>3. CQ!CompleteSilently(h, r)
    BY <2>1, <2>2, <1>3
  <2>4. CQ!CQNext
    BY <2>3 DEF CQ!CQNext
  <2> QED
    BY <2>4
<1>9. CASE \E r \in Results, n \in Nodes : PerformHandle(r, n)
  BY <1>4, <1>7, <1>9 DEF CQ!CQNext, PerformHandle
<1>10. CASE \E h \in Handles : curl_multi_add_handle(h) \/ curl_multi_remove_handle(h)
  BY <1>1, <1>2, <1>10 DEF CQ!CQNext
<1>11. CASE curl_multi_info_read \/ CleanupNode
  BY <1>5, <1>11 DEF CQ!CQNext
<1> QED
  BY <1>6, <1>8, <1>9, <1>10, <1>11 DEF CMNext, Cleanup, Perform

\* The pointer-level queue of curl_compat.c implements the FIFO of completions:
\* whatever the client's order of calls and wherever an allocation fails, each
\* transfer that runs leaves one message carrying its own result (or none, when
\* calloc failed), and the client reads the messages oldest first.
THEOREM MultiImplementsQueue == CMSpec => ImplementsQueue
<1>1. CMInit => CQ!CQInit
  <2> SUFFICES ASSUME CMInit PROVE CQ!CQInit
    OBVIOUS
  <2>1. messages = <<>>
    BY DEF CMInit, messages
  <2> QED
    BY <2>1 DEF CMInit, CQ!CQInit
<1>2. CMInv /\ [CMNext]_cmVars => [CQ!CQNext]_(CQ!cqVars)
  BY StepSimulation
<1> QED
  BY <1>1, <1>2, CMInvariant, PTL DEF CMSpec, ImplementsQueue, CQ!CQSpec
=============================================================================
