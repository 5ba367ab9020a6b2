-------------------------- MODULE CompletionQueue --------------------------
(***************************************************************************)
(* What the multi interface of curl_compat.c promises to its client: a set *)
(* of registered easy handles, the ones among them whose transfer is still *)
(* to be run, and a FIFO of completion messages.  A transfer that ran      *)
(* leaves one message, unless the allocation of the message failed.        *)
(***************************************************************************)
EXTENDS Sequences

CONSTANTS Handles,   \* easy handles
          Results,   \* CURLcode values a transfer can end with
          CURLE_OK   \* the result of a handle that never ran

VARIABLES registered, \* handles added and not removed
          pending,    \* registered handles whose transfer has not run
          outcome,    \* how the last transfer of each handle ended
          queue       \* completion messages, oldest first

cqVars == <<registered, pending, outcome, queue>>

CQInit ==
  /\ registered = {} /\ pending = {} /\ queue = <<>>
  /\ outcome = [h \in Handles |-> CURLE_OK]

\* The client adds a handle: it is owed one transfer.
Register(h) ==
  /\ h \notin registered
  /\ registered' = registered \cup {h}
  /\ pending' = pending \cup {h}
  /\ UNCHANGED <<outcome, queue>>

\* The client removes a handle; a message it already left stays queued.
Unregister(h) ==
  /\ h \in registered
  /\ registered' = registered \ {h}
  /\ pending' = pending \ {h}
  /\ UNCHANGED <<outcome, queue>>

\* A pending transfer runs and leaves exactly one message, with its own
\* result, at the tail.
Complete(h, r) ==
  /\ h \in pending
  /\ pending' = pending \ {h}
  /\ outcome' = [outcome EXCEPT ![h] = r]
  /\ queue' = Append(queue, [easy |-> h, res |-> r])
  /\ UNCHANGED registered

\* A pending transfer runs but there is no memory for its message.
CompleteSilently(h, r) ==
  /\ h \in pending
  /\ pending' = pending \ {h}
  /\ outcome' = [outcome EXCEPT ![h] = r]
  /\ UNCHANGED <<registered, queue>>

\* The oldest message leaves the queue.
Take ==
  /\ queue # <<>>
  /\ queue' = Tail(queue)
  /\ UNCHANGED <<registered, pending, outcome>>

CQNext ==
  \/ \E h \in Handles : Register(h) \/ Unregister(h)
  \/ \E h \in Handles, r \in Results : Complete(h, r) \/ CompleteSilently(h, r)
  \/ Take

CQSpec == CQInit /\ [][CQNext]_cqVars
=============================================================================
