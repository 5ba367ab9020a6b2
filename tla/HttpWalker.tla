----------------------------- MODULE HttpWalker -----------------------------
(***************************************************************************)
(* git's HTTP client as the user of the multi interface: the request slots *)
(* of http.c and the object walker of http-walker.c that runs on them.     *)
(*                                                                         *)
(* One thread, but re-entrant: a completion read by process_curl_messages  *)
(* runs a callback, which may fetch the list of alternates and so take a   *)
(* slot, wait for others to finish, and read further completions, whose    *)
(* callbacks may do the same.  The call stack is therefore part of the     *)
(* state; one step is the work of the innermost call up to the next call   *)
(* or loop test.                                                           *)
(*                                                                         *)
(* The multi interface is CompletionQueue, what curl_compat.c promises (it *)
(* is proved to keep it): a transfer runs inside curl_multi_perform, which *)
(* every start of a slot calls at once, and removing a handle leaves the   *)
(* completion it has queued where it is.                                   *)
(***************************************************************************)
EXTENDS Integers, Sequences, SequencesExt, FiniteSets

CONSTANTS
    Objects,        \* how many objects the walk finds, in this order
    Handles,        \* addresses curl_easy_duphandle() may return
    NULL,
    max_requests,   \* http.maxRequests, 5 by default
    MaxRepos,       \* bound: the repository and its alternates
    MaxLost         \* bound: completions there is no memory for

min_curl_sessions == 1

ASSUME WalkerAssumption ==
    /\ {Objects, MaxRepos, max_requests} \subseteq Nat \ {0} /\ MaxLost \in Nat
    /\ NULL \notin Handles
    /\ Cardinality(Handles) >= max_requests

Obj == 1 .. Objects

\* How a transfer ends: well, with "not found", or with another error.
Results == {"ok", "missing", "error"}

VARIABLES
    registered, pending, outcome, queue,   \* the multi handle
    slots,                \* active_queue_head and its successors
    active_requests, curl_session_count,
    obj_req,              \* object -> its request in object_queue_head
    got_alternates,       \* -1 not fetched, 0 being fetched, 1 fetched
    alts,                 \* length of the list of repositories
    has,                  \* objects in the local repository
    stack,                \* the calls under way, innermost last
    origin,               \* history: the request each completion is of
    lost                  \* history: completions that were never queued

multiVars == <<registered, pending, outcome, queue, origin, lost>>
slotVars  == <<slots, active_requests, curl_session_count>>
walkVars  == <<obj_req, got_alternates, alts, has>>
hwVars    == <<multiVars, slotVars, walkVars, stack>>

M == INSTANCE CompletionQueue WITH CURLE_OK <- "ok"

Nobody == <<"none">>      \* no callback, no request

\* A call: what it works on, and for run_active_slot() its variable finished.
Call(pc) == [pc |-> pc, o |-> 0, repo |-> 0, slot |-> 0, of |-> Nobody,
             finished |-> FALSE, res |-> "none"]
CallFor(pc, o) == [Call(pc) EXCEPT !.o = o]

Depth == Len(stack)
Top == stack[Depth]
Below == Front(stack)

At(pc) == Top.pc = pc
Return == stack' = Below
\* The innermost call goes on with the given ones, the last of them first.
Become(calls) == stack' = Below \o calls

HwInit ==
    /\ M!CQInit /\ origin = <<>> /\ lost = 0
    /\ slots = <<>> /\ active_requests = 0 /\ curl_session_count = 0
    /\ obj_req = [o \in Obj |-> [state |-> "none", repo |-> 1, slot |-> 0,
                                 result |-> "none"]]
    /\ got_alternates = -1 /\ alts = 1 /\ has = {}
    /\ stack = << Call("walk") >>

-----------------------------------------------------------------------------
(* walker.c: objects are found one after the other and fetched in that order *)

Known == { o \in Obj : obj_req[o].state # "none" }
Gone  == { o \in Obj : obj_req[o].state = "gone" }

First(S) == CHOOSE x \in S : \A y \in S : x <= y

\* process() asks for an object that is not here ...
prefetch ==
    /\ At("walk") /\ Known # Obj /\ First(Obj \ Known) \notin has
    /\ obj_req' = [obj_req EXCEPT ![First(Obj \ Known)].state = "WAITING"]
    /\ stack' = stack \o << Call("step"), Call("fill") >>
    /\ UNCHANGED <<multiVars, slotVars, got_alternates, alts, has>>

\* ... and has nothing to fetch for one that came in a pack meanwhile.
ScanOnly ==
    /\ At("walk") /\ Known # Obj /\ First(Obj \ Known) \in has
    /\ obj_req' = [obj_req EXCEPT ![First(Obj \ Known)].state = "gone"]
    /\ UNCHANGED <<multiVars, slotVars, got_alternates, alts, has, stack>>

fetch ==
    /\ At("walk") /\ Known # Gone
    /\ stack' = Append(stack, CallFor("fetch_object", First(Known \ Gone)))
    /\ UNCHANGED <<multiVars, slotVars, walkVars>>

-----------------------------------------------------------------------------
(* http.c: taking a slot and starting a request on it *)

InUse == { s \in DOMAIN slots : slots[s].in_use }

\* Handles of idle slots beyond the minimum are given back.
Idle == { s \in DOMAIN slots \ InUse : slots[s].curl # NULL }
Surplus == { s \in Idle : Cardinality({ t \in Idle : t <= s })
                          <= curl_session_count - min_curl_sessions }

Startable == { o \in Obj \ has : obj_req[o].state = "WAITING" }

\* Waiting requests that are no longer needed; fill_active_slot() meets those
\* in front of the one it starts.
Arrived == { o \in has : /\ obj_req[o].state = "WAITING"
                         /\ Startable # {} => o < First(Startable) }

\* The while loop of fill_active_slots(), one request a time ...
FillOne ==
    /\ At("fill") /\ active_requests < max_requests /\ Startable # {}
    /\ obj_req' = [o \in Obj |-> IF o \in Arrived
                                 THEN [obj_req[o] EXCEPT !.state = "COMPLETE"]
                                 ELSE obj_req[o]]
    /\ stack' = Append(stack, CallFor("start", First(Startable)))
    /\ UNCHANGED <<multiVars, slotVars, got_alternates, alts, has>>

\* ... and the clean-up behind it.
FillEnd ==
    /\ At("fill") /\ (active_requests >= max_requests \/ Startable = {})
    /\ obj_req' = [o \in Obj |-> IF o \in Arrived /\ active_requests < max_requests
                                 THEN [obj_req[o] EXCEPT !.state = "COMPLETE"]
                                 ELSE obj_req[o]]
    /\ slots' = [s \in DOMAIN slots |-> IF s \in Surplus
                                        THEN [slots[s] EXCEPT !.curl = NULL]
                                        ELSE slots[s]]
    /\ curl_session_count' = curl_session_count - Cardinality(Surplus)
    /\ Return
    /\ UNCHANGED <<multiVars, active_requests, got_alternates, alts, has>>

\* "Wait for a slot to open up if the queue is full."
WaitForSlot ==
    /\ Top.pc \in {"start", "alternates_start", "pack_start"}
    /\ active_requests >= max_requests
    /\ stack' = Append(stack, Call("process"))
    /\ UNCHANGED <<multiVars, slotVars, walkVars>>

\* The first slot that is free, or a new one at the end of the list.
FreeSlot == First((DOMAIN slots \cup {Len(slots) + 1}) \ InUse)

OldHandle(s) == IF s \in DOMAIN slots THEN slots[s].curl ELSE NULL

\* Put slot s with handle h to work on request "of".
Occupied(s, h, of, callback, waiter) ==
    LET slot == [curl |-> h, in_use |-> TRUE, of |-> of, callback |-> callback,
                 finished |-> waiter, result |-> "none"]
    IN IF s \in DOMAIN slots THEN [slots EXCEPT ![s] = slot] ELSE Append(slots, slot)

\* A request that is run to its end: run_active_slot() keeps the address of
\* its variable in the slot.
Running(s) == [Call("run") EXCEPT !.slot = s]

\* get_active_slot(), the caller's settings, and curl_multi_add_handle().
get_active_slot(of, callback, waiter) ==
    LET s == FreeSlot IN
    /\ active_requests < max_requests
    /\ \E h \in IF OldHandle(s) # NULL THEN { OldHandle(s) }
                ELSE Handles \ { slots[t].curl : t \in DOMAIN slots } :
        /\ slots' = Occupied(s, h, of, callback, waiter)
        /\ M!Register(h)
    /\ curl_session_count' = curl_session_count + (IF OldHandle(s) = NULL THEN 1 ELSE 0)
    /\ active_requests' = active_requests + 1
    /\ Become((IF waiter = 0 THEN <<>> ELSE << Running(s) >>) \o << Call("perform") >>)
    /\ UNCHANGED <<origin, lost>>

start_object_request ==
    LET o == Top.o IN
    /\ At("start")
    /\ get_active_slot(<<"object", o, obj_req[o].repo>>, <<"object", o>>, 0)
    /\ obj_req' = [obj_req EXCEPT ![o].state = "ACTIVE", ![o].slot = FreeSlot]
    /\ UNCHANGED <<got_alternates, alts, has>>

start_alternates ==
    /\ At("alternates_start")
    /\ get_active_slot(<<"alternates", 1>>, <<"alternates">>, Depth)
    /\ UNCHANGED walkVars

start_pack ==
    /\ At("pack_start")
    /\ get_active_slot(<<"pack", Top.o, Top.repo>>, Nobody, Depth)
    /\ UNCHANGED walkVars

RequestOn(h) == (CHOOSE slot \in Range(slots) : slot.curl = h).of

\* curl_multi_perform(): the transfer runs to its end ...
start_active_slot ==
    /\ At("perform")
    /\ \E h \in pending, r \in Results :
        M!Complete(h, r) /\ origin' = Append(origin, RequestOn(h))
    /\ Return
    /\ UNCHANGED <<slotVars, walkVars, lost>>

\* ... and nobody is told when there is no memory for the message.
StartLosesMessage ==
    /\ At("perform") /\ lost < MaxLost
    /\ \E h \in pending, r \in Results : M!CompleteSilently(h, r)
    /\ lost' = lost + 1
    /\ Return
    /\ UNCHANGED <<slotVars, walkVars, origin>>

-----------------------------------------------------------------------------
(* http.c: waiting for requests and reading their completions *)

run_active_slot ==
    /\ At("run")
    /\ IF Top.finished
       THEN /\ slots' = [slots EXCEPT ![Top.slot].finished = 0]
            /\ stack' = [Below EXCEPT ![Depth - 1].res = Top.res]
       ELSE /\ stack' = Append(stack, Call("step"))
            /\ UNCHANGED slots
    /\ UNCHANGED <<multiVars, active_requests, curl_session_count, walkVars>>

\* Nothing is running when curl_multi_perform() returns: num_transfers is 0.
step_active_slots ==
    /\ At("step")
    /\ Become(IF 0 < active_requests THEN << Call("fill"), Call("process") >> ELSE <<>>)
    /\ UNCHANGED <<multiVars, slotVars, walkVars>>

SlotsOf(h) == { s \in DOMAIN slots : slots[s].curl = h }

\* The next completion; one whose handle no slot has is only complained about.
process_curl_messages ==
    /\ At("process")
    /\ IF queue = <<>> THEN Return /\ UNCHANGED multiVars
       ELSE /\ M!Take /\ origin' = Tail(origin) /\ UNCHANGED lost
            /\ IF SlotsOf(Head(queue).easy) = {} THEN UNCHANGED stack
               ELSE stack' = Append(stack, [Call("finish") EXCEPT
                        !.slot = First(SlotsOf(Head(queue).easy)),
                        !.res = Head(queue).res, !.of = Head(origin)])
    /\ UNCHANGED <<slotVars, walkVars>>

xmulti_remove_handle(h) ==
    IF h \in registered THEN M!Unregister(h)
    ELSE UNCHANGED <<registered, pending, outcome, queue>>

\* closedown, tell the waiter, and go on with the callback.
finish_active_slot ==
    LET s == Top.slot
        slot == slots[s]
    IN
    /\ At("finish")
    /\ xmulti_remove_handle(slot.curl)
    /\ active_requests' = active_requests - 1
    /\ slots' = [slots EXCEPT ![s].in_use = FALSE, ![s].result = Top.res]
    /\ LET told == IF slot.finished = 0 THEN Below
                   ELSE [Below EXCEPT ![slot.finished].finished = TRUE,
                                      ![slot.finished].res = Top.res]
       IN stack' = CASE slot.callback[1] = "object" ->
                          Append(told, CallFor("response", slot.callback[2]))
                     [] slot.callback[1] = "alternates" ->
                          Append(told, [Call("alternates_response") EXCEPT !.slot = s])
                     [] OTHER -> told
    /\ UNCHANGED <<curl_session_count, walkVars, origin, lost>>

-----------------------------------------------------------------------------
(* http-walker.c: callbacks *)

Missing(o) == obj_req[o].result = "missing"

\* process_object_response(): keep the result; a missing object may be in an
\* alternate, so that these have to be known.
process_object_response ==
    LET o == Top.o
        r == IF obj_req[o].slot = 0 THEN obj_req[o].result
             ELSE slots[obj_req[o].slot].result
    IN
    /\ At("response")
    /\ obj_req' = [obj_req EXCEPT ![o].state = "COMPLETE", ![o].slot = 0,
                                  ![o].result = r]
    /\ has' = IF r = "ok" THEN has \cup {o} ELSE has
    /\ Become(IF r = "missing"
              THEN << CallFor("try_next", o), Call("fetch_alternates") >> ELSE <<>>)
    /\ UNCHANGED <<multiVars, slotVars, got_alternates, alts>>

\* ... and asked in turn.
TryNextRepo ==
    LET o == Top.o IN
    /\ At("try_next")
    /\ IF obj_req[o].repo < alts
       THEN /\ obj_req' = [obj_req EXCEPT ![o].repo = @ + 1]
            /\ Become(<< CallFor("start", o) >>)
       ELSE Return /\ UNCHANGED obj_req
    /\ UNCHANGED <<multiVars, slotVars, got_alternates, alts, has>>

\* "If another request has already started fetching alternates, wait for them
\* to arrive and return to processing this request's curl message."
fetch_alternates ==
    /\ At("fetch_alternates")
    /\ CASE got_alternates = 0 -> /\ stack' = Append(stack, Call("step"))
                                  /\ UNCHANGED got_alternates
         [] got_alternates = 1 -> Return /\ UNCHANGED got_alternates
         [] got_alternates = -1 -> /\ got_alternates' = 0
                                   /\ Become(<< Call("alternates_start") >>)
    /\ UNCHANGED <<multiVars, slotVars, obj_req, alts, has>>

\* [mutant] the slot is put to work again without being counted
RetryUncounted ==
    LET s == Top.slot IN
    /\ At("alternates_response") /\ slots[s].of = <<"alternates", 1>>
    /\ slots' = [slots EXCEPT ![s].in_use = TRUE, ![s].of = <<"alternates", 2>>]
    /\ M!Register(slots[s].curl)
    /\ stack' = Append(IF slots[s].finished = 0 THEN Below
                       ELSE [Below EXCEPT ![slots[s].finished].finished = FALSE],
                       Call("perform"))
    /\ UNCHANGED <<active_requests, curl_session_count, walkVars, origin, lost>>

\* [mutant] the slot that is put to work again is not marked in use
RetryUnmarked ==
    LET s == Top.slot IN
    /\ At("alternates_response") /\ slots[s].of = <<"alternates", 1>>
    /\ active_requests' = active_requests + 1
    /\ slots' = [slots EXCEPT ![s].of = <<"alternates", 2>>]
    /\ M!Register(slots[s].curl)
    /\ stack' = Append(IF slots[s].finished = 0 THEN Below
                       ELSE [Below EXCEPT ![slots[s].finished].finished = FALSE],
                       Call("perform"))
    /\ UNCHANGED <<curl_session_count, walkVars, origin, lost>>

\* [mutant] the waiter is not told that it has to wait on
RetryStaysFinished ==
    LET s == Top.slot IN
    /\ At("alternates_response") /\ slots[s].of = <<"alternates", 1>>
    /\ active_requests' = active_requests + 1
    /\ slots' = [slots EXCEPT ![s].in_use = TRUE, ![s].of = <<"alternates", 2>>]
    /\ M!Register(slots[s].curl)
    /\ stack' = Append(Below, Call("perform"))
    /\ UNCHANGED <<curl_session_count, walkVars, origin, lost>>

\* process_alternates_response() after the first request: when it brought
\* nothing the slot is put to work again, for the other file.
RetryAlternates ==
    LET s == Top.slot IN
    /\ At("alternates_response") /\ slots[s].of = <<"alternates", 1>>
    /\ active_requests' = active_requests + 1
    /\ slots' = [slots EXCEPT ![s].in_use = TRUE, ![s].of = <<"alternates", 2>>]
    /\ M!Register(slots[s].curl)
    /\ stack' = Append(IF slots[s].finished = 0 THEN Below
                       ELSE [Below EXCEPT ![slots[s].finished].finished = FALSE],
                       Call("perform"))
    /\ UNCHANGED <<curl_session_count, walkVars, origin, lost>>

\* [mutant] a failure is not noted, and everyone waits for the list
FailureUnnoted ==
    LET slot == slots[Top.slot] IN
    /\ At("alternates_response")
    /\ slot.of = <<"alternates", 1>> => slot.result = "ok"
    /\ IF slot.result = "error" THEN UNCHANGED <<got_alternates, alts>>
       ELSE /\ got_alternates' = 1
            /\ alts' \in IF slot.result = "ok" THEN alts .. MaxRepos ELSE {alts}
    /\ Return
    /\ UNCHANGED <<multiVars, slotVars, obj_req, has>>

\* ... otherwise, or after the second one, the list is there, or is not.
AlternatesArrive ==
    LET slot == slots[Top.slot] IN
    /\ At("alternates_response")
    /\ slot.of = <<"alternates", 1>> => slot.result = "ok"
    /\ IF slot.result = "error"
       THEN got_alternates' = -1 /\ UNCHANGED alts
       ELSE /\ got_alternates' = 1
            /\ alts' \in IF slot.result = "ok" THEN alts .. MaxRepos ELSE {alts}
    /\ Return
    /\ UNCHANGED <<multiVars, slotVars, obj_req, has>>

-----------------------------------------------------------------------------
(* http-walker.c: fetching one object *)

\* [mutant] the slot of the request that is dropped is not released
AbortKeepsSlot ==
    /\ At("fetch_object") /\ Top.o \in has
    /\ obj_req' = [obj_req EXCEPT ![Top.o].state = "gone", ![Top.o].slot = 0]
    /\ Return
    /\ UNCHANGED <<multiVars, slotVars, got_alternates, alts, has>>

\* The object has arrived: its request is dropped, running or not.
AbortRequest ==
    LET o == Top.o
        s == obj_req[o].slot
        close == curl_session_count > min_curl_sessions
    IN
    /\ At("fetch_object") /\ o \in has
    /\ obj_req' = [obj_req EXCEPT ![o].state = "gone", ![o].slot = 0]
    /\ IF s = 0 THEN Return /\ UNCHANGED <<multiVars, slotVars>>
       ELSE /\ active_requests' = active_requests - 1
            /\ xmulti_remove_handle(slots[s].curl)
            /\ slots' = [slots EXCEPT ![s].in_use = FALSE, ![s].callback = Nobody,
                                      ![s].curl = IF close THEN NULL ELSE @]
            /\ curl_session_count' = curl_session_count - (IF close THEN 1 ELSE 0)
            /\ Become(<< Call("fill") >>)
            /\ UNCHANGED <<origin, lost>>
    /\ UNCHANGED <<got_alternates, alts, has>>

FetchBegin ==
    /\ At("fetch_object") /\ Top.o \notin has
    /\ Become(<< CallFor("await", Top.o) >>)
    /\ UNCHANGED <<multiVars, slotVars, walkVars>>

\* Wait while the request waits for a slot, then run the slot it has got; a
\* callback may have given it another one.
AwaitRequest ==
    LET o == Top.o IN
    /\ At("await")
    /\ \/ /\ obj_req[o].state = "WAITING"
          /\ stack' = Append(stack, Call("step"))
          /\ UNCHANGED slots
       \/ /\ obj_req[o].state = "ACTIVE"
          /\ stack' = Append(stack, Running(obj_req[o].slot))
          /\ slots' = [slots EXCEPT ![obj_req[o].slot].finished = Depth + 1]
    /\ UNCHANGED <<multiVars, active_requests, curl_session_count, walkVars>>

\* The request is over; an object that did not come may be in a pack.
FetchEnd ==
    LET o == Top.o IN
    /\ At("await") /\ obj_req[o].state = "COMPLETE"
    /\ obj_req' = [obj_req EXCEPT ![o].state = "gone"]
    /\ Become(IF obj_req[o].result = "ok" THEN <<>>
              ELSE << [CallFor("packs", o) EXCEPT !.repo = 1] >>)
    /\ UNCHANGED <<multiVars, slotVars, got_alternates, alts, has>>

\* fetch(): the packs of every repository in turn.  One request stands for
\* those of the list of packs, of an index and of the pack itself, which are
\* each run to their end.
http_fetch_pack ==
    /\ At("packs")
    /\ stack' = IF Top.repo <= alts
                THEN Below \o << [Top EXCEPT !.pc = "packs_end"],
                                 [Top EXCEPT !.pc = "pack_start"] >>
                ELSE << Call("failed") >>
    /\ UNCHANGED <<multiVars, slotVars, walkVars>>

\* A pack may hold objects besides the one it is fetched for.
PackFetched ==
    /\ At("packs_end") /\ Top.res = "ok"
    /\ \E more \in SUBSET Obj : has' = has \cup {Top.o} \cup more
    /\ Return
    /\ UNCHANGED <<multiVars, slotVars, obj_req, got_alternates, alts>>

PackMissing ==
    /\ At("packs_end") /\ Top.res # "ok"
    /\ Become(<< [CallFor("packs", Top.o) EXCEPT !.repo = Top.repo + 1],
                 Call("fetch_alternates") >>)
    /\ UNCHANGED <<multiVars, slotVars, walkVars>>

HwNext ==
    \/ prefetch \/ ScanOnly \/ fetch
    \/ FillOne \/ FillEnd \/ WaitForSlot
    \/ start_object_request \/ start_alternates \/ start_pack
    \/ start_active_slot \/ StartLosesMessage
    \/ run_active_slot \/ step_active_slots \/ process_curl_messages
    \/ finish_active_slot
    \/ process_object_response \/ TryNextRepo \/ fetch_alternates
    \/ RetryAlternates \/ AlternatesArrive
    \/ AbortRequest \/ FetchBegin \/ AwaitRequest \/ FetchEnd
    \/ http_fetch_pack \/ PackFetched \/ PackMissing

\* The program runs.
HwSpec == HwInit /\ [][HwNext]_hwVars /\ WF_hwVars(HwNext)

-----------------------------------------------------------------------------
(* Properties *)

\* Not every slot has been lost.  A slot whose completion was not queued stays
\* in use for good; when all of them do, nothing but release_active_slot()
\* frees one, which may then take the slot from a request whose completion is
\* queued and leaves that completion to the next request on the handle.
SlotsRemain == lost < max_requests

\* active_requests and curl_session_count are kept by hand in nine places;
\* they always count the slots in use, never more than max_requests, and the
\* handles that exist; a slot in use keeps its handle, registered with curlm.
SlotsCounted == SlotsRemain =>
    /\ active_requests = Cardinality(InUse)
    /\ active_requests <= max_requests
    /\ curl_session_count = Cardinality({ s \in DOMAIN slots : slots[s].curl # NULL })
    /\ \A s \in InUse : slots[s].curl \in registered

\* process_curl_messages() finds the slot of a completion by its handle, and
\* slots and handles are used again and again: every completion that waits is
\* of the request its slot is serving, one each, and so is the one being
\* processed.
CompletionsBelong == SlotsRemain =>
    /\ \A i \in DOMAIN queue : \E s \in InUse :
          slots[s].curl = queue[i].easy /\ slots[s].of = origin[i]
    /\ \A i, j \in DOMAIN queue : queue[i].easy = queue[j].easy => i = j
    /\ At("finish") => slots[Top.slot].of = Top.of

\* run_active_slot() leaves the address of a local variable in the slot: while
\* a slot is in use, the address is of a run_active_slot() that is still under
\* way, for this slot, and has not been told that it is finished.
WaitersStand == SlotsRemain =>
    \A s \in InUse : slots[s].finished # 0 =>
        /\ slots[s].finished \in DOMAIN stack
        /\ stack[slots[s].finished].pc = "run"
        /\ stack[slots[s].finished].slot = s
        /\ ~ stack[slots[s].finished].finished

\* process_object_response() is handed a pointer to the request: a request is
\* ACTIVE exactly while one slot in use has it for its callback or that one
\* callback runs, and no call under way is for one fetch_object() has freed.
CallbacksLive == SlotsRemain =>
    /\ \A o \in Obj :
        LET serving == { s \in InUse : slots[s].callback = <<"object", o>> }
            called  == { d \in DOMAIN stack : stack[d].pc = "response" /\ stack[d].o = o }
        IN /\ serving \subseteq {obj_req[o].slot}
           /\ Cardinality(serving) + Cardinality(called)
                = IF obj_req[o].state = "ACTIVE" THEN 1 ELSE 0
    /\ \A d \in DOMAIN stack : stack[d].pc \in {"start", "try_next"} =>
          obj_req[stack[d].o].state # "gone"

Ended == Depth = 1 /\ (At("failed") \/ (At("walk") /\ Gone = Obj))

\* However callbacks nest in run_active_slot(), step_active_slots() and
\* fetch_alternates(), every walk comes to its end as long as there is memory
\* for the completions.
FetchEnds == <>(Ended \/ lost > 0)

\* http.h of run_one_slot(): "This will run one slot to completion in a
\* blocking manner".
RunsToCompletion == <>Ended
=============================================================================
