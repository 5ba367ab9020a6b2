----------------------------- MODULE CurlMulti -----------------------------
(***************************************************************************)
(* The multi interface of the libcurl shim git is linked against           *)
(* (bin/git/port/ewokos/curl_compat.c, 1020-1122).  The list of added easy *)
(* handles is a sequence, the queue of completion messages is kept at the  *)
(* level of the code: heap nodes with a next pointer, and a head and a     *)
(* tail pointer in CURLM.  Freed nodes keep their stale contents and may   *)
(* be handed out again by the allocator.                                   *)
(***************************************************************************)
EXTENDS Integers, Sequences, SequencesExt, FiniteSets

CONSTANTS Handles,       \* CURL handles the client owns
          Nodes,         \* addresses the allocator can return for a CurlMessageNode
          Results,       \* CURLcode values curl_easy_perform can end with
          CURLE_OK,      \* the one among them that is zero
          NULL,
          AllocMayFail   \* can calloc return NULL while memory is left?

ASSUME CMAssumption ==
  /\ NULL \notin Nodes /\ NULL \notin Handles
  /\ CURLE_OK \in Results
  /\ AllocMayFail \in BOOLEAN

VARIABLES
  \* CURL
  added,      \* handle->added
  completed,  \* handle->completed
  result,     \* handle->result
  \* CURLM
  live,       \* "yes", "cleaning" (inside curl_multi_cleanup) or "no"
  handles,    \* the list at multi->handles
  head,       \* multi->messages_head
  tail,       \* multi->messages_tail
  cursor,     \* position of curl_multi_perform in handles, 0 when not running
  \* heap of CurlMessageNode
  alloc,      \* nodes allocated and not freed
  easy,       \* node->message.easy_handle
  res,        \* node->message.data.result
  next,       \* node->next
  \* history
  order       \* the allocated nodes, in the order they were queued

easyVars == <<added, completed, result>>
heapVars == <<alloc, easy, res, next, order>>
cmVars == <<added, completed, result, live, handles, head, tail, cursor,
            alloc, easy, res, next, order>>

Pointers == Nodes \cup {NULL}

\* curl_multi_init: calloc'ed, so an empty list and an empty queue.
curl_multi_init ==
  /\ live = "no"
  /\ live' = "yes"
  /\ handles' = <<>> /\ head' = NULL /\ tail' = NULL
  /\ UNCHANGED <<easyVars, heapVars, cursor>>

idle == live = "yes" /\ cursor = 0

\* A handle that is already added is left alone (the early return).
curl_multi_add_handle(h) ==
  /\ idle /\ ~added[h]
  /\ added' = [added EXCEPT ![h] = TRUE]
  /\ completed' = [completed EXCEPT ![h] = FALSE]
  /\ handles' = <<h>> \o handles
  /\ UNCHANGED <<result, live, head, tail, cursor, heapVars>>

\* Unlinks the handle; its queued message, if any, is not touched.
curl_multi_remove_handle(h) ==
  /\ idle
  /\ handles' = RemoveFirst(handles, h)
  /\ added' = [added EXCEPT ![h] = FALSE]
  /\ UNCHANGED <<completed, result, live, head, tail, cursor, heapVars>>

\* curl_queue_done when calloc succeeds: n is linked behind the tail.
curl_queue_done(h, n, r) ==
  /\ n \in Nodes \ alloc
  /\ alloc' = alloc \cup {n}
  /\ easy' = [easy EXCEPT ![n] = h]
  /\ res' = [res EXCEPT ![n] = r]
  /\ IF tail # NULL
       THEN /\ next' = [next EXCEPT ![n] = NULL, ![tail] = n]
            /\ UNCHANGED head
       ELSE /\ next' = [next EXCEPT ![n] = NULL]
            /\ head' = n
  /\ tail' = n
  /\ order' = Append(order, n)

\* curl_multi_perform starts walking the list ...
PerformBegin ==
  /\ idle /\ handles # <<>>
  /\ cursor' = 1
  /\ UNCHANGED <<easyVars, live, handles, head, tail, heapVars>>

atHandle == live = "yes" /\ cursor \in 1..Len(handles)

\* ... skips the handles that have run ...
PerformSkip ==
  /\ atHandle /\ completed[handles[cursor]]
  /\ cursor' = cursor + 1
  /\ UNCHANGED <<easyVars, live, handles, head, tail, heapVars>>

\* [mutant] the message is filled in before the transfer runs
QueueBeforeRun(r, n) ==
  /\ atHandle /\ ~completed[handles[cursor]]
  /\ completed' = [completed EXCEPT ![handles[cursor]] = TRUE]
  /\ result' = [result EXCEPT ![handles[cursor]] = r]
  /\ curl_queue_done(handles[cursor], n, result[handles[cursor]])
  /\ cursor' = cursor + 1
  /\ UNCHANGED <<added, live, handles>>

\* ... runs the others to their end and queues their completion ...
PerformHandle(r, n) ==
  /\ atHandle /\ ~completed[handles[cursor]]
  /\ completed' = [completed EXCEPT ![handles[cursor]] = TRUE]
  /\ result' = [result EXCEPT ![handles[cursor]] = r]
  /\ curl_queue_done(handles[cursor], n, r)
  /\ cursor' = cursor + 1
  /\ UNCHANGED <<added, live, handles>>

\* ... gives up when there is no memory for the message (CURLM_OUT_OF_MEMORY):
\* the transfer has run, the handle is completed, nothing is queued ...
PerformNoMemory(r) ==
  /\ atHandle /\ ~completed[handles[cursor]]
  /\ AllocMayFail \/ alloc = Nodes
  /\ completed' = [completed EXCEPT ![handles[cursor]] = TRUE]
  /\ result' = [result EXCEPT ![handles[cursor]] = r]
  /\ cursor' = 0
  /\ UNCHANGED <<added, live, handles, head, tail, heapVars>>

\* ... and returns at the end of the list.
PerformEnd ==
  /\ live = "yes" /\ cursor > Len(handles)
  /\ cursor' = 0
  /\ UNCHANGED <<easyVars, live, handles, head, tail, heapVars>>

\* [mutant] messages_tail survives the last node
ReadKeepsTail ==
  /\ idle /\ head # NULL
  /\ head' = next[head]
  /\ alloc' = alloc \ {head}
  /\ order' = Tail(order)
  /\ UNCHANGED <<easyVars, live, handles, tail, cursor, easy, res, next>>

\* Unlink the oldest node, hand its contents to the caller, free it.
curl_multi_info_read ==
  /\ idle /\ head # NULL
  /\ head' = next[head]
  /\ tail' = IF next[head] = NULL THEN NULL ELSE tail
  /\ alloc' = alloc \ {head}
  /\ order' = Tail(order)
  /\ UNCHANGED <<easyVars, live, handles, cursor, easy, res, next>>

\* curl_multi_cleanup, as git's http_cleanup calls it: every handle has been
\* removed before.  One iteration of the loop that frees the queue; messages_tail
\* is left behind and goes away with the CURLM.
CleanupBegin ==
  /\ idle /\ handles = <<>>
  /\ live' = "cleaning"
  /\ UNCHANGED <<easyVars, handles, head, tail, cursor, heapVars>>

CleanupNode ==
  /\ live = "cleaning" /\ head # NULL
  /\ head' = next[head]
  /\ alloc' = alloc \ {head}
  /\ order' = Tail(order)
  /\ UNCHANGED <<easyVars, live, handles, tail, cursor, easy, res, next>>

CleanupEnd ==
  /\ live = "cleaning" /\ head = NULL
  /\ live' = "no"
  /\ UNCHANGED <<easyVars, handles, head, tail, cursor, heapVars>>

Perform == \/ PerformBegin \/ PerformSkip \/ PerformEnd
           \/ \E r \in Results : PerformNoMemory(r) \/ \E n \in Nodes : PerformHandle(r, n)

Cleanup == CleanupBegin \/ CleanupNode \/ CleanupEnd

CMInit ==
  /\ added = [h \in Handles |-> FALSE]
  /\ completed = [h \in Handles |-> FALSE]
  /\ result = [h \in Handles |-> CURLE_OK]
  /\ live = "no" /\ handles = <<>> /\ head = NULL /\ tail = NULL /\ cursor = 0
  /\ alloc = {} /\ order = <<>>
  /\ easy = [n \in Nodes |-> NULL] /\ res = [n \in Nodes |-> CURLE_OK]
  /\ next = [n \in Nodes |-> NULL]

CMNext ==
  \/ curl_multi_init \/ Cleanup \/ Perform \/ curl_multi_info_read
  \/ \E h \in Handles : curl_multi_add_handle(h) \/ curl_multi_remove_handle(h)

CMSpec == CMInit /\ [][CMNext]_cmVars

-----------------------------------------------------------------------------
\* The types of struct CURL, CURLM and the message nodes (11-71); the walk of
\* curl_multi_perform never runs past the end of the list.
CMTypeOK ==
  /\ added \in [Handles -> BOOLEAN] /\ completed \in [Handles -> BOOLEAN]
  /\ result \in [Handles -> Results]
  /\ live \in {"yes", "cleaning", "no"}
  /\ handles \in Seq(Handles)
  /\ head \in Pointers /\ tail \in Pointers
  /\ cursor \in 0..(Len(handles) + 1)
  /\ alloc \in SUBSET Nodes /\ order \in Seq(Nodes)
  /\ easy \in [Nodes -> Handles \cup {NULL}] /\ res \in [Nodes -> Results]
  /\ next \in [Nodes -> Pointers]

\* handle->added tells whether the handle is linked into the list, and no handle
\* is linked twice: the early return of curl_multi_add_handle and the unlinking
\* of curl_multi_remove_handle (1038-1063) keep the two in step.
ListMatchesFlags ==
  /\ Range(handles) = {h \in Handles : added[h]}
  /\ \A i, j \in 1..Len(handles) : handles[i] = handles[j] => i = j

\* The pointer chain holds exactly the allocated nodes, in the order in which
\* they were queued: messages_head is the oldest, every next is the node queued
\* after it, and messages_tail is the newest (1070-1077, 1105-1110).
ChainIsQueue ==
  /\ \A i, j \in 1..Len(order) : order[i] = order[j] => i = j
  /\ alloc = Range(order)
  /\ head = IF order = <<>> THEN NULL ELSE order[1]
  /\ \A i \in 1..Len(order) :
        next[order[i]] = IF i = Len(order) THEN NULL ELSE order[i + 1]
  /\ live = "yes" => tail = IF order = <<>> THEN NULL ELSE order[Len(order)]

\* No pointer CURLM can follow names a freed node, head and tail are NULL
\* together, and a destroyed CURLM leaves no node behind: what curl_queue_done,
\* curl_multi_info_read and curl_multi_cleanup owe the heap (1065-1122).
MemorySafe ==
  /\ live = "yes" => /\ {head, tail} \subseteq alloc \cup {NULL}
                     /\ head = NULL <=> tail = NULL
  /\ live = "cleaning" => head \in alloc \cup {NULL}
  /\ live = "no" => alloc = {}
  /\ \A n \in alloc : next[n] \in alloc \cup {NULL}

\* The messages as the client will read them.
messages == [i \in 1..Len(order) |-> [easy |-> easy[order[i]], res |-> res[order[i]]]]

CQ == INSTANCE CompletionQueue
        WITH registered <- {h \in Handles : added[h]},
             pending <- {h \in Handles : added[h] /\ ~completed[h]},
             outcome <- result,
             queue <- messages

\* The pointer level implements the FIFO of completions: every transfer that
\* curl_multi_perform runs queues one message with its own result, messages come
\* out oldest first, and adding, removing or skipping handles loses none.
ImplementsQueue == CQ!CQSpec
=============================================================================
