-------------------------- MODULE HttpWalkerProofs --------------------------
(***************************************************************************)
(* The slots and callbacks of git's HTTP client, for any number of         *)
(* objects, slots, handles and repositories, however deep callbacks nest.  *)
(***************************************************************************)
EXTENDS HttpWalker, FiniteSetTheorems, SequenceTheorems, Iteration

-----------------------------------------------------------------------------
(* The invariant *)

Requests == ({"object"} \X Obj \X Nat) \cup ({"pack"} \X Obj \X Nat)
            \cup {<<"alternates", 1>>, <<"alternates", 2>>, Nobody}

Callbacks == ({"object"} \X Obj) \cup {<<"alternates">>, Nobody}

Outcomes == Results \cup {"none"}

SlotType == [curl: Handles \cup {NULL}, in_use: BOOLEAN, of: Requests,
             callback: Callbacks, finished: Nat, result: Outcomes]

PCs == {"walk", "failed", "step", "fill", "process", "finish", "response",
        "alternates_response", "perform", "start", "alternates_start",
        "pack_start", "run", "try_next", "fetch_alternates", "fetch_object",
        "await", "packs", "packs_end"}

CallType == [pc: PCs, o: 0 .. Objects, repo: Nat, slot: Nat, of: Requests,
             finished: BOOLEAN, res: Outcomes]

ReqType == [state: {"none", "WAITING", "ACTIVE", "COMPLETE", "gone"},
            repo: Nat, slot: Nat, result: Outcomes]

Types ==
    /\ registered \subseteq Handles /\ pending \subseteq registered
    /\ queue \in Seq([easy: Handles, res: Results])
    /\ origin \in Seq(Requests) /\ Len(origin) = Len(queue)
    /\ slots \in Seq(SlotType)
    /\ lost \in Nat /\ active_requests \in Nat /\ curl_session_count \in Nat

ObjTypes ==
    /\ obj_req \in [Obj -> ReqType]
    /\ has \subseteq Obj
    /\ alts \in Nat /\ got_alternates \in {-1, 0, 1}

Slots == 1 .. Len(slots)
Queued == { queue[i].easy : i \in 1 .. Len(queue) }
WithHandle == { s \in Slots : slots[s].curl # NULL }

\* The slot whose completion is being processed, and the object whose callback
\* runs: at most one each.
Finishing == { s \in Slots : At("finish") /\ Top.slot = s }
Answering == { o \in Obj : At("response") /\ Top.o = o }

\* Slots in use whose transfer has ended and that nobody will hear of.
Silent == { s \in InUse : slots[s].curl \notin pending \cup Queued } \ Finishing

\* The slots and the multi handle.
SlotPart ==
    /\ Types
    /\ \A s, t \in Slots : slots[s].curl = slots[t].curl /\ slots[s].curl # NULL => s = t
    /\ registered = { slots[s].curl : s \in InUse }
    /\ \A s \in InUse : slots[s].curl # NULL
    /\ active_requests = Cardinality(InUse)
    /\ active_requests <= max_requests
    /\ curl_session_count = Cardinality(WithHandle)
    /\ \A i \in 1 .. Len(queue) : \E s \in InUse :
          slots[s].curl = queue[i].easy /\ slots[s].of = origin[i]
    /\ \A i, j \in 1 .. Len(queue) : queue[i].easy = queue[j].easy => i = j
    /\ pending \cap Queued = {}
    /\ pending # {} => At("perform") /\ \E h \in Handles : pending = {h}
    /\ \A s \in Finishing : s \in InUse /\ slots[s].curl \notin Queued
    /\ Cardinality(Silent) <= lost

\* The requests: ACTIVE exactly while a slot serves them or their callback runs.
Serves(s, o) == s \in InUse /\ slots[s].callback = <<"object", o>>

ObjPart ==
    /\ ObjTypes
    /\ \A o \in Obj, s \in Slots :
          Serves(s, o) => obj_req[o].state = "ACTIVE" /\ obj_req[o].slot = s
    /\ \A o \in Answering : obj_req[o].state = "ACTIVE"
    /\ \A o \in Obj : obj_req[o].state = "ACTIVE" =>
          /\ obj_req[o].slot \in Slots
          /\ Serves(obj_req[o].slot, o) <=> o \notin Answering
    /\ \A o \in Obj : obj_req[o].state # "ACTIVE" => obj_req[o].slot = 0

AboutObject == {"start", "try_next", "response", "fetch_object", "await",
                "packs", "packs_end", "pack_start"}
OnTop  == {"finish", "response", "alternates_response", "perform"}
Inside == {"finish", "response", "alternates_response"}
Outer  == {"fetch_object", "await", "packs", "packs_end"}
Asking == {"start", "try_next"}
Emptying == {"process", "step"}

\* Where a call may stand.
CallOK(d) ==
    /\ d = 1 <=> stack[d].pc \in {"walk", "failed"}
    /\ stack[d].pc \in Outer => d = 2
    /\ stack[d].pc \in OnTop => d = Depth
    /\ stack[d].pc \in Inside => stack[d - 1].pc = "process"
    /\ stack[d].pc \in AboutObject => stack[d].o \in Obj
    /\ stack[d].pc = "run" => stack[d].slot \in Slots
    /\ stack[d].pc \in Asking => \E c \in 1 .. d - 1 : stack[c].pc \in Emptying

CallPart ==
    /\ stack \in Seq(CallType) /\ Depth >= 1
    /\ \A d \in 1 .. Depth : CallOK(d)

\* A call that will not return before the queue is empty.
Drains(call) == call.pc \in Emptying \/ (call.pc = "run" /\ ~call.finished)

Covered ==
    queue # <<>> \/ At("perform") => \E d \in 1 .. Depth : Drains(stack[d])

\* At most one call is about to ask for an object, and it is not being served.
AskPart ==
    /\ \A d \in 1 .. Depth :
          stack[d].pc \in Asking => obj_req[stack[d].o].state \in {"WAITING", "COMPLETE"}
    /\ \A d, e \in 1 .. Depth :
          /\ stack[d].pc \in Asking /\ stack[e].pc \in Asking
          /\ stack[d].o = stack[e].o
          => d = e

WaitsFor(d, s) == stack[d].pc = "run" /\ stack[d].slot = s

WaiterOK(s) ==
    slots[s].finished # 0 =>
        /\ slots[s].finished \in 1 .. Depth
        /\ WaitsFor(slots[s].finished, s) /\ ~stack[slots[s].finished].finished

\* The call just told that it is finished, if its slot is to be used again.
TopPart ==
    /\ At("finish") => Top.slot \in Slots /\ slots[Top.slot].of = Top.of /\ Top.res \in Results
    /\ At("alternates_response") =>
          /\ Top.slot \in Slots \ InUse /\ slots[Top.slot].curl # NULL
          /\ slots[Top.slot].callback = <<"alternates">>
          /\ active_requests < max_requests
          /\ slots[Top.slot].finished # 0 =>
                /\ slots[Top.slot].finished \in 1 .. Depth - 1
                /\ WaitsFor(slots[Top.slot].finished, Top.slot)

\* As long as not all slots are silent, an object waits only from prefetch()
\* until the fill_active_slots() that it calls.
WaitPart ==
    \A o \in Obj : obj_req[o].state = "WAITING" =>
        /\ o \notin has /\ active_requests < max_requests
        /\ \A p \in Obj : obj_req[p].state = "WAITING" => p = o
        /\ Depth \in {3, 4} /\ stack[2].pc = "step" /\ stack[3].pc = "fill"
        /\ Depth = 4 => At("start") /\ Top.o = o

HwInv ==
    /\ SlotPart /\ ObjPart
    /\ CallPart /\ Covered /\ AskPart /\ TopPart /\ WaitPart
    /\ \A s \in InUse : WaiterOK(s)

-----------------------------------------------------------------------------
(* What it says *)

\* Constants and sets the rest of the proof keeps coming back to.
LEMMA Basics ==
    /\ Objects \in Nat /\ Objects > 0 /\ max_requests \in Nat /\ max_requests > 0
    /\ NULL \notin Handles
    /\ 0 \notin Obj /\ Obj \subseteq Nat /\ \A o \in Obj : o \in 0 .. Objects
BY WalkerAssumption DEF Obj

\* The slots are a finite interval, and so are the sets counted.
LEMMA SlotSets ==
    ASSUME slots \in Seq(SlotType)
    PROVE  /\ Len(slots) \in Nat /\ DOMAIN slots = Slots
           /\ \A s \in Slots : slots[s] \in SlotType /\ s \in Nat /\ s > 0
           /\ InUse \subseteq Slots /\ IsFiniteSet(Slots) /\ IsFiniteSet(InUse)
           /\ IsFiniteSet(WithHandle) /\ IsFiniteSet(Silent)
<1>1. Len(slots) \in Nat /\ DOMAIN slots = Slots
  BY DEF Slots
<1>2. \A s \in Slots : slots[s] \in SlotType /\ s \in Nat /\ s > 0
  BY <1>1 DEF Slots
<1>3. InUse \subseteq Slots
  BY <1>1 DEF InUse
<1>4. IsFiniteSet(Slots)
  BY <1>1, FS_Interval DEF Slots
<1>5. IsFiniteSet(InUse) /\ IsFiniteSet(WithHandle)
  BY <1>3, <1>4, FS_Subset DEF WithHandle
<1>6. Silent \subseteq InUse
  BY DEF Silent
<1>7. IsFiniteSet(Silent)
  BY <1>5, <1>6, FS_Subset
<1> QED
  BY <1>1, <1>2, <1>3, <1>4, <1>5, <1>7

\* The properties follow from the invariant.
LEMMA InvariantImplies ==
    ASSUME SlotsRemain => HwInv
    PROVE  SlotsCounted /\ CompletionsBelong /\ WaitersStand /\ CallbacksLive
<1> SUFFICES ASSUME SlotsRemain, HwInv
             PROVE  SlotsCounted /\ CompletionsBelong /\ WaitersStand /\ CallbacksLive
  BY DEF SlotsCounted, CompletionsBelong, WaitersStand, CallbacksLive
<1>1. /\ DOMAIN slots = Slots /\ InUse \subseteq Slots
      /\ DOMAIN queue = 1 .. Len(queue) /\ DOMAIN stack = 1 .. Depth
      /\ Depth \in Nat /\ Depth >= 1
  BY SlotSets DEF HwInv, SlotPart, Types, CallPart, Depth
<1>2. SlotsCounted
  BY <1>1 DEF SlotsCounted, HwInv, SlotPart, WithHandle
<1>3. CompletionsBelong
  BY <1>1 DEF CompletionsBelong, HwInv, SlotPart, TopPart
<1>4. WaitersStand
  BY <1>1 DEF WaitersStand, HwInv, WaiterOK, WaitsFor
<1>5. ASSUME NEW o \in Obj
      PROVE  LET serving == { s \in InUse : slots[s].callback = <<"object", o>> }
                 called  == { d \in DOMAIN stack : stack[d].pc = "response" /\ stack[d].o = o }
             IN /\ serving \subseteq {obj_req[o].slot}
                /\ Cardinality(serving) + Cardinality(called)
                     = IF obj_req[o].state = "ACTIVE" THEN 1 ELSE 0
  <2> DEFINE serving == { s \in InUse : slots[s].callback = <<"object", o>> }
             called  == { d \in DOMAIN stack : stack[d].pc = "response" /\ stack[d].o = o }
  <2>1. serving = { s \in Slots : Serves(s, o) }
    BY <1>1 DEF Serves
  <2>2. called = IF o \in Answering THEN {Depth} ELSE {}
    BY <1>1 DEF Answering, HwInv, CallPart, CallOK, OnTop, At, Top
  <2>3. serving = IF obj_req[o].state = "ACTIVE" /\ o \notin Answering
                  THEN {obj_req[o].slot} ELSE {}
    BY <2>1 DEF HwInv, ObjPart
  <2>4. o \in Answering => obj_req[o].state = "ACTIVE"
    BY DEF HwInv, ObjPart
  <2>5. Cardinality({}) = 0 /\ Cardinality({Depth}) = 1 /\ Cardinality({obj_req[o].slot}) = 1
    BY FS_EmptySet, FS_Singleton
  <2> HIDE DEF serving, called
  <2>6. Cardinality(serving) + Cardinality(called)
          = IF obj_req[o].state = "ACTIVE" THEN 1 ELSE 0
    BY <2>2, <2>3, <2>4, <2>5
  <2>7. serving \subseteq {obj_req[o].slot}
    BY <2>3
  <2> QED
    BY <2>6, <2>7 DEF serving, called
<1>6. CallbacksLive
  <2>1. \A d \in DOMAIN stack : stack[d].pc \in {"start", "try_next"} =>
          obj_req[stack[d].o].state # "gone"
    BY <1>1 DEF HwInv, AskPart, Asking
  <2> QED
    BY <1>5, <2>1 DEF CallbacksLive
<1> QED
  BY <1>2, <1>3, <1>4, <1>6

\* The first state.
LEMMA InitInv == HwInit => HwInv
<1> SUFFICES ASSUME HwInit
             PROVE  HwInv
  OBVIOUS
<1>1. /\ registered = {} /\ pending = {} /\ queue = <<>> /\ origin = <<>> /\ lost = 0
      /\ slots = <<>> /\ active_requests = 0 /\ curl_session_count = 0
      /\ stack = << Call("walk") >> /\ has = {} /\ alts = 1 /\ got_alternates = -1
      /\ obj_req = [o \in Obj |-> [state |-> "none", repo |-> 1, slot |-> 0,
                                   result |-> "none"]]
  BY DEF HwInit, M!CQInit
<1>2. Call("walk") \in CallType /\ Call("walk").pc = "walk"
  BY Basics DEF Call, CallType, PCs, Requests, Outcomes
<1>3. /\ stack \in Seq(CallType) /\ Depth = 1 /\ Top = Call("walk") /\ Top.pc = "walk"
      /\ \A d \in 1 .. Depth : d = 1 /\ stack[d] = Top
  BY <1>1, <1>2 DEF Depth, Top
<1>4. /\ Slots = {} /\ InUse = {} /\ WithHandle = {} /\ Silent = {} /\ Finishing = {}
      /\ Queued = {} /\ Len(queue) = 0
  BY <1>1 DEF Slots, InUse, WithHandle, Silent, Finishing, Queued
<1>5. Types
  BY <1>1 DEF Types
<1>6. Cardinality({}) = 0
  BY FS_EmptySet
<1>7. SlotPart
  BY <1>1, <1>4, <1>5, <1>6, Basics DEF SlotPart
<1>8. ObjPart
  <2>1. ObjTypes
    BY <1>1 DEF ObjTypes, ReqType, Outcomes
  <2> QED
    BY <1>1, <1>3, <1>4, <2>1 DEF ObjPart, Answering, At
<1>9. CallPart
  BY <1>3 DEF CallPart, CallOK, Outer, OnTop, Inside, AboutObject, Asking
<1>10. Covered /\ AskPart /\ TopPart /\ WaitPart
  BY <1>1, <1>3 DEF Covered, At, AskPart, Asking, TopPart, WaitPart
<1> QED
  BY <1>4, <1>7, <1>8, <1>9, <1>10 DEF HwInv

-----------------------------------------------------------------------------
(* The call stack *)

\* The innermost call and the ones below it.
LEMMA StackFacts ==
    ASSUME CallPart
    PROVE  /\ stack \in Seq(CallType) /\ Depth \in Nat /\ Depth >= 1 /\ Depth = Len(stack)
           /\ Top = stack[Depth] /\ Top \in CallType
           /\ Depth \in 1 .. Depth /\ CallOK(Depth)
           /\ \A d \in 1 .. Depth : stack[d] \in CallType
           /\ Below \in Seq(CallType) /\ Len(Below) = Depth - 1
           /\ \A d \in 1 .. Depth - 1 : Below[d] = stack[d]
<1>1. /\ stack \in Seq(CallType) /\ Depth \in Nat /\ Depth >= 1 /\ Depth = Len(stack)
      /\ Depth \in 1 .. Depth
  BY DEF CallPart, Depth
<1>2. \A d \in 1 .. Depth : stack[d] \in CallType
  BY <1>1
<1>3. Top = stack[Depth] /\ Top \in CallType /\ CallOK(Depth)
  BY <1>1, <1>2 DEF Top, CallPart
<1>4. Below = SubSeq(stack, 1, Depth - 1)
  BY <1>1 DEF Below, Front, Depth
<1>5. /\ Below \in Seq(CallType) /\ Len(Below) = Depth - 1
      /\ \A d \in 1 .. Depth - 1 : Below[d] = stack[d]
  <2> DEFINE n == Depth - 1
  <2>1. n \in 0 .. Len(stack) /\ n \in Nat
    BY <1>1
  <2> HIDE DEF n
  <2>2. /\ SubSeq(stack, 1, n) \in Seq(CallType) /\ Len(SubSeq(stack, 1, n)) = n
        /\ \A d \in 1 .. n : SubSeq(stack, 1, n)[d] = stack[d]
    BY <1>1, <2>1
  <2> QED
    BY <1>4, <2>2 DEF n
<1> QED
  BY <1>1, <1>2, <1>3, <1>5

\* The first n calls stand as they did.
Kept(n) ==
    /\ n \in 0 .. Depth /\ stack' \in Seq(CallType) /\ Depth' \in Nat /\ n <= Depth'
    /\ \A d \in 1 .. n : stack'[d] = stack[d]

\* They stand as they did, but for what the ones that wait have been told.
Standing(n) ==
    /\ n \in 0 .. Depth /\ stack' \in Seq(CallType) /\ Depth' \in Nat /\ n <= Depth'
    /\ \A d \in 1 .. n : /\ stack'[d].pc = stack[d].pc
                         /\ stack'[d].o = stack[d].o /\ stack'[d].slot = stack[d].slot

\* None of them has been told anything.
Untold(n) == \A d \in 1 .. n : stack'[d].finished = stack[d].finished

\* Calls that stand as they did have been told nothing.
LEMMA KeptStands ==
    ASSUME NEW n, Kept(n)
    PROVE  Standing(n) /\ Untold(n)
BY DEF Kept, Standing, Untold

\* Calls on top of those there are.
LEMMA Pushed ==
    ASSUME CallPart, NEW c \in CallType, stack' = Append(stack, c)
    PROVE  Kept(Depth) /\ Depth' = Depth + 1 /\ stack'[Depth + 1] = c
           /\ Top' = c
<1>1. stack \in Seq(CallType) /\ Depth \in Nat /\ Depth = Len(stack)
  BY StackFacts
<1>2. stack' \in Seq(CallType) /\ Len(stack') = Depth + 1
  BY <1>1
<1>3. Depth' = Depth + 1
  BY <1>2 DEF Depth
<1>4. /\ stack'[Depth + 1] = c
      /\ \A d \in 1 .. Depth : stack'[d] = stack[d]
  BY <1>1
<1> QED
  BY <1>1, <1>2, <1>3, <1>4 DEF Kept, Top

\* The innermost call returns.
LEMMA Popped ==
    ASSUME CallPart, Return
    PROVE  Kept(Depth - 1) /\ Depth' = Depth - 1
<1>1. stack' = Below
  BY DEF Return
<1>2. /\ Depth \in Nat /\ Depth >= 1 /\ Below \in Seq(CallType) /\ Len(Below) = Depth - 1
      /\ \A d \in 1 .. Depth - 1 : Below[d] = stack[d]
  BY StackFacts
<1>3. Depth' = Depth - 1
  BY <1>1, <1>2 DEF Depth
<1> QED
  BY <1>1, <1>2, <1>3 DEF Kept

\* The innermost call goes on with another one ...
LEMMA Replaced ==
    ASSUME CallPart, NEW c \in CallType, Become(<<c>>)
    PROVE  Kept(Depth - 1) /\ Depth' = Depth /\ stack'[Depth] = c /\ Top' = c
<1>1. stack' = Below \o <<c>>
  BY DEF Become
<1>2. /\ Depth \in Nat /\ Depth >= 1 /\ Below \in Seq(CallType) /\ Len(Below) = Depth - 1
      /\ \A d \in 1 .. Depth - 1 : Below[d] = stack[d]
  BY StackFacts
<1>3. stack' \in Seq(CallType) /\ Len(stack') = Depth
  BY <1>1, <1>2
<1>4. /\ \A d \in 1 .. Depth - 1 : stack'[d] = stack[d]
      /\ stack'[Depth] = c
  BY <1>1, <1>2
<1>5. Depth' = Depth
  BY <1>3 DEF Depth
<1> QED
  BY <1>2, <1>3, <1>4, <1>5 DEF Kept, Top

\* ... or with two.
LEMMA ReplacedByTwo ==
    ASSUME CallPart, NEW c \in CallType, NEW e \in CallType, Become(<<c, e>>)
    PROVE  /\ Kept(Depth - 1) /\ Depth' = Depth + 1
           /\ stack'[Depth] = c /\ stack'[Depth + 1] = e /\ Top' = e
<1>1. stack' = Below \o <<c, e>>
  BY DEF Become
<1>2. /\ Depth \in Nat /\ Depth >= 1 /\ Below \in Seq(CallType) /\ Len(Below) = Depth - 1
      /\ \A d \in 1 .. Depth - 1 : Below[d] = stack[d]
  BY StackFacts
<1>3. stack' \in Seq(CallType) /\ Len(stack') = Depth + 1
  BY <1>1, <1>2
<1>4. /\ \A d \in 1 .. Depth - 1 : stack'[d] = stack[d]
      /\ stack'[Depth] = c /\ stack'[Depth + 1] = e
  <2> DEFINE two == <<c, e>>
  <2>1. two \in Seq(CallType) /\ Len(two) = 2 /\ two[1] = c /\ two[2] = e
    OBVIOUS
  <2>2. stack' = Below \o two
    BY <1>1
  <2> HIDE DEF two
  <2>3. \A d \in 1 .. Depth - 1 : stack'[d] = stack[d]
    BY <1>2, <2>1, <2>2
  <2>4. /\ Len(Below \o two) = Len(Below) + Len(two)
        /\ \A i \in 1 .. Len(Below) + Len(two) : (Below \o two)[i] =
              IF i <= Len(Below) THEN Below[i] ELSE two[i - Len(Below)]
    BY <1>2, <2>1, ConcatProperties
  <2>5. stack'[Depth] = two[1] /\ stack'[Depth + 1] = two[2]
    <3>1. Depth \in 1 .. Len(Below) + Len(two) /\ Depth + 1 \in 1 .. Len(Below) + Len(two)
      BY <1>2, <2>1
    <3>2. /\ (Below \o two)[Depth] = two[Depth - Len(Below)]
          /\ (Below \o two)[Depth + 1] = two[Depth + 1 - Len(Below)]
      BY <1>2, <2>4, <3>1
    <3>3. Depth - Len(Below) = 1 /\ Depth + 1 - Len(Below) = 2
      BY <1>2
    <3> QED
      BY <2>2, <3>2, <3>3
  <2> QED
    BY <2>1, <2>3, <2>4, <2>5
<1>5. Depth' = Depth + 1
  BY <1>3 DEF Depth
<1> QED
  BY <1>2, <1>3, <1>4, <1>5 DEF Kept, Top

\* ... or with none, which is a return.
LEMMA ReplacedByNone ==
    ASSUME CallPart, Become(<<>>)
    PROVE  Return
<1>1. Below \in Seq(CallType)
  BY StackFacts
<1> QED
  BY <1>1 DEF Become, Return

\* Two calls on top of those there are.
LEMMA PushedTwo ==
    ASSUME CallPart, NEW c \in CallType, NEW e \in CallType, stack' = stack \o <<c, e>>
    PROVE  /\ Kept(Depth) /\ Depth' = Depth + 2
           /\ stack'[Depth + 1] = c /\ stack'[Depth + 2] = e /\ Top' = e
<1>1. stack \in Seq(CallType) /\ Depth \in Nat /\ Depth = Len(stack)
  BY StackFacts
<1>2. stack' \in Seq(CallType) /\ Len(stack') = Depth + 2
  BY <1>1
<1>3. Depth' = Depth + 2
  BY <1>2 DEF Depth
<1>4. /\ stack'[Depth + 1] = c /\ stack'[Depth + 2] = e
      /\ \A d \in 1 .. Depth : stack'[d] = stack[d]
  BY <1>1
<1> QED
  BY <1>1, <1>2, <1>3, <1>4 DEF Kept, Top

\* A call that is made without arguments, or for an object.
LEMMA CallTypes ==
    /\ \A pc \in PCs : Call(pc) \in CallType /\ Call(pc).pc = pc /\ ~Call(pc).finished
    /\ \A pc \in PCs, o \in Obj :
          /\ CallFor(pc, o) \in CallType /\ CallFor(pc, o).pc = pc /\ CallFor(pc, o).o = o
          /\ ~CallFor(pc, o).finished
<1>1. ASSUME NEW pc \in PCs
      PROVE  Call(pc) \in CallType /\ Call(pc).pc = pc /\ ~Call(pc).finished
  <2>1. Nobody \in Requests /\ "none" \in Outcomes /\ 0 \in 0 .. Objects
    BY Basics DEF Requests, Outcomes
  <2> QED
    BY <2>1 DEF Call, CallType
<1>2. ASSUME NEW pc \in PCs, NEW o \in Obj
      PROVE  /\ CallFor(pc, o) \in CallType /\ CallFor(pc, o).pc = pc
             /\ CallFor(pc, o).o = o /\ ~CallFor(pc, o).finished
  <2>1. o \in 0 .. Objects
    BY Basics
  <2> QED
    BY <1>1, <2>1 DEF CallFor, Call, CallType
<1> QED
  BY <1>1, <1>2

-----------------------------------------------------------------------------
(* What a change of the stack leaves true *)

\* Calls that stay where they are stand where they may.
LEMMA CallsStand ==
    ASSUME CallPart, NEW n, Standing(n), Depth' >= 1,
           n < Depth \/ Top.pc \notin OnTop,
           Slots \subseteq Slots',
           \A d \in n + 1 .. Depth' : CallOK(d)'
    PROVE  CallPart'
<1>1. /\ n \in Nat /\ n <= Depth /\ Depth \in Nat /\ Depth' \in Nat
      /\ stack' \in Seq(CallType)
      /\ \A d \in 1 .. n : /\ stack'[d].pc = stack[d].pc
                           /\ stack'[d].o = stack[d].o /\ stack'[d].slot = stack[d].slot
  BY StackFacts DEF Standing
<1>2. ASSUME NEW d \in 1 .. n
      PROVE  CallOK(d)'
  <2>1. d \in 1 .. Depth /\ d \in Nat
    BY <1>1
  <2>2. /\ CallOK(d) /\ stack'[d].pc = stack[d].pc
        /\ stack'[d].o = stack[d].o /\ stack'[d].slot = stack[d].slot
    BY <1>1, <2>1 DEF CallPart
  <2>3. stack[d].pc \notin OnTop
    BY <1>1, <2>2, <2>1, StackFacts DEF CallOK
  <2>4. stack[d].pc \notin Inside
    BY <2>3 DEF OnTop, Inside
  <2>5. \A c \in 1 .. d - 1 : stack'[c].pc = stack[c].pc
    BY <1>1
  <2> QED
    BY <2>2, <2>3, <2>4, <2>5 DEF CallOK
<1>3. \A d \in 1 .. Depth' : d \in 1 .. n \/ d \in n + 1 .. Depth'
  BY <1>1
<1> QED
  BY <1>1, <1>2, <1>3 DEF CallPart

\* No call that waits for its slot is left.
Returned(n) == \A d \in n + 1 .. Depth : stack[d].pc = "run" => stack[d].finished

\* A waiter that stays keeps waiting.
LEMMA WaiterStands ==
    ASSUME CallPart, NEW n, Standing(n), Untold(n), Returned(n), NEW s,
           WaiterOK(s), slots'[s].finished = slots[s].finished
    PROVE  WaiterOK(s)'
<1> DEFINE d == slots[s].finished
<1>1. SUFFICES ASSUME d # 0
               PROVE  /\ d \in 1 .. Depth'
                      /\ stack'[d].pc = "run" /\ stack'[d].slot = s /\ ~stack'[d].finished
  BY DEF WaiterOK, WaitsFor
<1>2. d \in 1 .. Depth /\ stack[d].pc = "run" /\ stack[d].slot = s /\ ~stack[d].finished
  BY <1>1 DEF WaiterOK, WaitsFor
<1> HIDE DEF d
<1>3. n \in Nat /\ n <= Depth /\ Depth \in Nat /\ Depth' \in Nat /\ n <= Depth'
  BY StackFacts DEF Standing
<1>4. d \notin n + 1 .. Depth
  BY <1>2 DEF Returned
<1>5. d \in 1 .. n
  BY <1>2, <1>3, <1>4
<1> QED
  BY <1>2, <1>3, <1>5 DEF Standing, Untold

\* Calls about to ask for an object stay the only ones.
LEMMA AskStands ==
    ASSUME AskPart, NEW n, Standing(n), Depth \in Nat,
           \A d \in n + 1 .. Depth' : stack'[d].pc \notin Asking,
           \A d \in 1 .. n : stack[d].pc \in Asking =>
              obj_req'[stack[d].o].state \in {"WAITING", "COMPLETE"}
    PROVE  AskPart'
<1>1. /\ n \in Nat /\ n <= Depth /\ Depth' \in Nat
      /\ \A d \in 1 .. n : stack'[d].pc = stack[d].pc /\ stack'[d].o = stack[d].o
  BY DEF Standing
<1>2. \A d \in 1 .. Depth' : stack'[d].pc \in Asking => d \in 1 .. n /\ d \in 1 .. Depth
  BY <1>1
<1> QED
  BY <1>1, <1>2 DEF AskPart

\* Nobody waits for a slot unless fill_active_slots() is about to find one.
LEMMA NotWaiting ==
    ASSUME CallPart, WaitPart, Top.pc \notin {"fill", "start"}
    PROVE  \A o \in Obj : obj_req[o].state # "WAITING"
<1> SUFFICES ASSUME NEW o \in Obj, obj_req[o].state = "WAITING"
             PROVE  FALSE
  OBVIOUS
<1>1. /\ Depth \in {3, 4} /\ stack[3].pc = "fill"
      /\ Depth = 4 => Top.pc = "start"
  BY DEF WaitPart, At
<1> QED
  BY <1>1, StackFacts

\* The slots and the multi handle when neither changes.
LEMMA SlotsKept ==
    ASSUME SlotPart, UNCHANGED <<registered, pending, queue, origin, lost>>,
           UNCHANGED <<slots, active_requests, curl_session_count>>,
           pending = {} \/ Top'.pc = "perform",
           Finishing = {}, Finishing' = {}
    PROVE  SlotPart'
<1>1. Types' /\ Slots' = Slots /\ InUse' = InUse /\ Queued' = Queued /\ WithHandle' = WithHandle
  BY DEF SlotPart, Types, Slots, InUse, Queued, WithHandle
<1>2. Silent' = Silent
  BY <1>1 DEF Silent
<1>3. \A s, t \in Slots' : slots'[s].curl = slots'[t].curl /\ slots'[s].curl # NULL => s = t
  BY <1>1 DEF SlotPart
<1>4. \A i \in 1 .. Len(queue') : \E s \in InUse' :
          slots'[s].curl = queue'[i].easy /\ slots'[s].of = origin'[i]
  BY <1>1 DEF SlotPart
<1>5. \A i, j \in 1 .. Len(queue') : queue'[i].easy = queue'[j].easy => i = j
  BY DEF SlotPart
<1>6. registered' = { slots'[s].curl : s \in InUse' } /\ \A s \in InUse' : slots'[s].curl # NULL
  BY <1>1 DEF SlotPart
<1>7. /\ active_requests' = Cardinality(InUse')
      /\ active_requests' <= max_requests
      /\ curl_session_count' = Cardinality(WithHandle')
      /\ Cardinality(Silent') <= lost'
      /\ pending' \cap Queued' = {}
  BY <1>1, <1>2 DEF SlotPart
<1>8. pending' # {} => At("perform")' /\ \E h \in Handles : pending' = {h}
  BY DEF SlotPart, At
<1> QED
  BY <1>1, <1>3, <1>4, <1>5, <1>6, <1>7, <1>8 DEF SlotPart

\* A request is served by the same slot as before, or by none as before.
SameService(o) ==
    /\ obj_req'[o].state = "ACTIVE" <=> obj_req[o].state = "ACTIVE"
    /\ obj_req'[o].slot = obj_req[o].slot

\* The requests when the slots that serve them do not change.
LEMMA RequestsKept ==
    ASSUME ObjPart, ObjTypes', \A o \in Obj : SameService(o), Slots' = Slots, InUse' = InUse,
           \A s \in Slots : slots'[s].callback = slots[s].callback,
           Answering = {}, Answering' = {}
    PROVE  ObjPart'
<1>1. \A o \in Obj, s \in Slots : Serves(s, o)' <=> Serves(s, o)
  BY DEF Serves
<1>2. \A o \in Obj, s \in Slots :
          Serves(s, o)' => obj_req'[o].state = "ACTIVE" /\ obj_req'[o].slot = s
  BY <1>1 DEF ObjPart, SameService
<1>3. \A o \in Obj : obj_req'[o].state = "ACTIVE" =>
          /\ obj_req'[o].slot \in Slots'
          /\ Serves(obj_req[o].slot, o)'
  BY <1>1 DEF ObjPart, SameService
<1>4. \A o \in Obj : obj_req'[o].state # "ACTIVE" => obj_req'[o].slot = 0
  BY DEF ObjPart, SameService
<1> QED
  BY <1>2, <1>3, <1>4 DEF ObjPart

\* Calls that may stand anywhere above the first.
Plain == {"step", "fill", "process", "fetch_alternates", "alternates_start"}

\* They stand well there.
LEMMA PlainCalls ==
    ASSUME NEW d \in Nat, d >= 2, stack'[d].pc \in Plain
    PROVE  CallOK(d)' /\ stack'[d].pc \notin OnTop \cup Asking
BY DEF CallOK, Plain, OnTop, Inside, Outer, Asking, AboutObject

\* The innermost call that results when quiet ones are made or left.
LEMMA NewTop ==
    ASSUME CallPart, NEW n, Standing(n), Depth' >= 1,
           n < Depth \/ Top.pc \notin OnTop,
           \A d \in n + 1 .. Depth' : stack'[d].pc \notin OnTop
    PROVE  Top'.pc \notin OnTop
<1>1. /\ n \in Nat /\ n <= Depth /\ Depth \in Nat /\ Depth' \in Nat /\ n <= Depth'
      /\ \A d \in 1 .. n : stack'[d].pc = stack[d].pc
      /\ \A d \in 1 .. Depth : CallOK(d)
      /\ Top = stack[Depth]
  BY StackFacts DEF Standing, CallPart
<1>2. Top' = stack'[Depth'] /\ Depth' \in 1 .. Depth'
  BY <1>1 DEF Top
<1>3. CASE Depth' = n
  <2>1. Top'.pc = stack[n].pc /\ n \in 1 .. Depth /\ n \in 1 .. n
    BY <1>1, <1>2, <1>3
  <2>2. CASE n = Depth
    BY <1>1, <2>1, <2>2
  <2>3. CASE n # Depth
    BY <1>1, <2>1, <2>3 DEF CallOK
  <2> QED
    BY <2>2, <2>3
<1>4. CASE Depth' # n
  BY <1>1, <1>2, <1>4
<1> QED
  BY <1>3, <1>4

\* A step that leaves the slots and the multi handle alone.
LEMMA OffSlots ==
    ASSUME HwInv, NEW n, Kept(n), Depth' >= 1, Returned(n),
           UNCHANGED <<registered, pending, queue, origin, lost>>,
           UNCHANGED <<slots, active_requests, curl_session_count>>,
           Top.pc \notin {"finish", "perform"}, ObjPart',
           n < Depth \/ Top.pc \notin OnTop,
           Covered', AskPart', WaitPart',
           \A d \in n + 1 .. Depth' : CallOK(d)' /\ stack'[d].pc \notin OnTop
    PROVE  HwInv'
<1>1. /\ SlotPart /\ ObjPart /\ CallPart /\ AskPart
      /\ \A s \in InUse : WaiterOK(s)
  BY DEF HwInv
<1>2. /\ n \in Nat /\ n <= Depth /\ Depth \in Nat /\ Depth' \in Nat /\ n <= Depth'
      /\ \A d \in 1 .. n : stack'[d] = stack[d]
      /\ \A d \in 1 .. Depth : CallOK(d)
      /\ Top = stack[Depth]
  BY <1>1, StackFacts DEF Kept, CallPart
<1>3. Slots' = Slots /\ InUse' = InUse
  BY DEF Slots, InUse
<1>4. CallPart'
  BY <1>1, <1>3, KeptStands, CallsStand
<1>5. Top'.pc \notin OnTop
  BY <1>1, KeptStands, NewTop
<1>6. Finishing = {} /\ Finishing' = {} /\ pending = {}
  BY <1>1, <1>5 DEF Finishing, At, OnTop, SlotPart
<1>7. SlotPart'
  BY <1>1, <1>6, SlotsKept
<1>8. TopPart'
  BY <1>5 DEF TopPart, At, OnTop
<1>9. \A s \in InUse' : WaiterOK(s)'
  BY <1>1, <1>3, KeptStands, WaiterStands
<1> QED
  BY <1>4, <1>7, <1>8, <1>9 DEF HwInv

\* The same when the requests are served as before.
LEMMA Rewalked ==
    ASSUME HwInv, NEW n, Kept(n), Depth' >= 1, Returned(n),
           UNCHANGED <<registered, pending, queue, origin, lost>>,
           UNCHANGED <<slots, active_requests, curl_session_count>>,
           \A o \in Obj : SameService(o), ObjTypes',
           Top.pc \notin {"finish", "response", "perform"},
           n < Depth \/ Top.pc \notin OnTop,
           Covered', AskPart', WaitPart',
           \A d \in n + 1 .. Depth' : CallOK(d)' /\ stack'[d].pc \notin OnTop
    PROVE  HwInv'
<1>1. ObjPart /\ CallPart
  BY DEF HwInv
<1>2. Slots' = Slots /\ InUse' = InUse
  BY DEF Slots, InUse
<1>3. Answering = {} /\ Answering' = {}
  BY <1>1, KeptStands, NewTop DEF Answering, At, OnTop
<1>4. ObjPart'
  BY <1>1, <1>2, <1>3, RequestsKept
<1> QED
  BY <1>4, OffSlots

\* A step that changes nothing but the calls under way, and what is here.
LEMMA Restacked ==
    ASSUME HwInv, NEW n, Kept(n), Depth' >= 1, Returned(n),
           UNCHANGED <<registered, pending, queue, origin, lost>>,
           UNCHANGED <<slots, active_requests, curl_session_count>>,
           UNCHANGED obj_req, ObjTypes',
           Top.pc \notin {"finish", "response", "perform"},
           n < Depth \/ Top.pc \notin OnTop,
           \A o \in Obj : obj_req[o].state # "WAITING",
           Covered',
           \A d \in n + 1 .. Depth' : CallOK(d)' /\ stack'[d].pc \notin OnTop \cup Asking
    PROVE  HwInv'
<1>1. CallPart /\ AskPart
  BY DEF HwInv
<1>2. n \in Nat /\ n <= Depth /\ Depth \in Nat
  BY <1>1, StackFacts DEF Kept
<1>3. AskPart'
  <2>1. \A d \in 1 .. n : d \in 1 .. Depth
    BY <1>2
  <2>2. \A d \in 1 .. n : stack[d].pc \in Asking =>
              obj_req'[stack[d].o].state \in {"WAITING", "COMPLETE"}
    BY <1>1, <2>1 DEF AskPart
  <2> QED
    BY <1>1, <1>2, <2>2, KeptStands, AskStands
<1>4. WaitPart'
  BY DEF WaitPart
<1>5. \A o \in Obj : SameService(o)
  BY DEF SameService
<1> QED
  BY <1>3, <1>4, <1>5, Rewalked

\* The queue stays covered as long as no call that empties it returns.
LEMMA CoverStands ==
    ASSUME CallPart, Covered, NEW n, Standing(n), Untold(n),
           \A d \in n + 1 .. Depth : ~Drains(stack[d]),
           queue' # <<>> \/ Top'.pc = "perform" => queue # <<>> \/ At("perform")
    PROVE  Covered'
<1> SUFFICES ASSUME queue' # <<>> \/ Top'.pc = "perform"
             PROVE  \E d \in 1 .. Depth' : Drains(stack'[d])
  BY DEF Covered, At, Drains
<1>1. PICK d \in 1 .. Depth : Drains(stack[d])
  BY DEF Covered
<1>2. n \in Nat /\ n <= Depth /\ Depth \in Nat /\ Depth' \in Nat /\ n <= Depth'
  BY StackFacts DEF Standing
<1>3. d \in 1 .. n
  BY <1>1, <1>2
<1>4. stack'[d].pc = stack[d].pc /\ stack'[d].finished = stack[d].finished /\ d \in 1 .. Depth'
  BY <1>2, <1>3 DEF Standing, Untold
<1> QED
  BY <1>1, <1>4 DEF Drains

\* The queue is covered by a call that empties it.
LEMMA CoveredBy ==
    ASSUME NEW d \in 1 .. Depth', stack'[d].pc \in Emptying
    PROVE  Covered'
BY DEF Covered, Drains

\* The parts of the invariant.
LEMMA HwParts ==
    ASSUME HwInv
    PROVE  /\ SlotPart /\ ObjPart /\ CallPart /\ Covered /\ AskPart /\ TopPart /\ WaitPart
           /\ \A s \in InUse : WaiterOK(s)
BY DEF HwInv

\* First() finds a member of any set of numbers that has one.
LEMMA FirstIn ==
    ASSUME NEW S, S \subseteq Nat, S # {}
    PROVE  First(S) \in S
<1>1. \E x \in S : \A y \in S : x <= y
  BY LeastElement
<1> QED
  BY <1>1 DEF First

\* A call without arguments is made.
LEMMA PlainPush ==
    ASSUME HwInv, NEW pc \in Plain, stack' = Append(stack, Call(pc)),
           UNCHANGED <<registered, pending, queue, origin, lost>>,
           UNCHANGED <<slots, active_requests, curl_session_count>>,
           UNCHANGED obj_req, ObjTypes',
           Top.pc \notin OnTop,
           \A o \in Obj : obj_req[o].state # "WAITING"
    PROVE  HwInv'
<1>1. CallPart /\ Covered
  BY DEF HwInv
<1>2. Call(pc) \in CallType /\ Call(pc).pc = pc /\ ~Call(pc).finished
  BY CallTypes DEF Plain, PCs
<1>3. /\ Kept(Depth) /\ Depth' = Depth + 1 /\ stack'[Depth + 1] = Call(pc) /\ Top' = Call(pc)
      /\ Depth \in Nat /\ Depth >= 1
  BY <1>1, <1>2, Pushed, StackFacts
<1>4. Covered'
  <2>1. \A d \in Depth + 1 .. Depth : ~Drains(stack[d])
    BY <1>3
  <2>2. Top'.pc # "perform"
    BY <1>2, <1>3 DEF Plain
  <2> QED
    BY <1>1, <1>3, <2>1, <2>2, KeptStands, CoverStands
<1>5. \A d \in Depth + 1 .. Depth' : CallOK(d)' /\ stack'[d].pc \notin OnTop \cup Asking
  <2> SUFFICES ASSUME NEW d \in Depth + 1 .. Depth'
               PROVE  CallOK(d)' /\ stack'[d].pc \notin OnTop \cup Asking
    OBVIOUS
  <2>1. d = Depth + 1 /\ d \in Nat /\ d >= 2
    BY <1>3
  <2>2. stack'[d].pc \in Plain
    BY <1>2, <1>3, <2>1
  <2> QED
    BY <2>1, <2>2, PlainCalls
<1>6. Returned(Depth)
  BY <1>3 DEF Returned
<1>7. Top.pc \notin {"finish", "response", "perform"}
  BY DEF OnTop
<1>8. Depth' >= 1
  BY <1>3
<1> QED
  BY <1>3, <1>4, <1>5, <1>6, <1>7, <1>8, Restacked

\* The innermost call returns, and it is none that empties the queue.
LEMMA PlainReturn ==
    ASSUME HwInv, Return, Depth >= 2,
           UNCHANGED <<registered, pending, queue, origin, lost>>,
           UNCHANGED <<slots, active_requests, curl_session_count>>,
           UNCHANGED obj_req, ObjTypes',
           Top.pc \notin {"finish", "response", "perform", "run"},
           Top.pc \in Emptying => queue = <<>>,
           \A o \in Obj : obj_req[o].state # "WAITING"
    PROVE  HwInv'
<1>1. CallPart /\ Covered
  BY DEF HwInv
<1>2. /\ Kept(Depth - 1) /\ Depth' = Depth - 1 /\ Depth \in Nat /\ Top = stack[Depth]
      /\ \A d \in 1 .. Depth : CallOK(d)
  BY <1>1, Popped, StackFacts DEF CallPart
<1>3. Returned(Depth - 1)
  BY <1>2 DEF Returned
<1>4. Top'.pc # "perform"
  <2>1. Top' = stack[Depth - 1] /\ Depth - 1 \in 1 .. Depth
    BY <1>2 DEF Top, Kept
  <2> QED
    BY <1>2, <2>1 DEF CallOK, OnTop
<1>5. Covered'
  <2>1. CASE Top.pc \in Emptying
    BY <1>4, <2>1 DEF Covered, At
  <2>2. CASE Top.pc \notin Emptying
    <3>1. \A d \in Depth - 1 + 1 .. Depth : ~Drains(stack[d])
      BY <1>2, <2>2 DEF Drains
    <3> QED
      BY <1>1, <1>2, <1>4, <3>1, KeptStands, CoverStands
  <2> QED
    BY <2>1, <2>2
<1>6. \A d \in Depth - 1 + 1 .. Depth' : CallOK(d)' /\ stack'[d].pc \notin OnTop \cup Asking
  BY <1>2
<1>7. Depth' >= 1 /\ Depth - 1 < Depth
  BY <1>2
<1> QED
  BY <1>2, <1>3, <1>5, <1>6, <1>7, Restacked

-----------------------------------------------------------------------------
(* Steps that change the stack alone *)

\* The walk is the outermost call, and fetching an object the one above it.
LEMMA Places ==
    ASSUME CallPart
    PROVE  /\ Top.pc \in {"walk", "failed"} <=> Depth = 1
           /\ Top.pc \in Outer => Depth = 2
           /\ Top.pc \in AboutObject => Top.o \in Obj
           /\ Depth = 2 => stack[1].pc \in {"walk", "failed"}
BY StackFacts DEF CallPart, CallOK

\* fetch() is entered.
LEMMA FetchStep == ASSUME HwInv, fetch PROVE HwInv'
<1> DEFINE o == First(Known \ Gone)
           c == CallFor("fetch_object", o)
<1>1. /\ CallPart /\ WaitPart /\ Covered /\ ObjPart /\ At("walk") /\ Known # Gone
      /\ stack' = Append(stack, c)
      /\ UNCHANGED <<registered, pending, queue, origin, lost>>
      /\ UNCHANGED <<slots, active_requests, curl_session_count>>
      /\ UNCHANGED <<obj_req, got_alternates, alts, has>>
  BY DEF HwInv, fetch, multiVars, slotVars, walkVars
<1>2. o \in Obj
  <2>1. Known \ Gone \subseteq Obj /\ Known \ Gone # {}
    BY <1>1 DEF Known, Gone
  <2> QED
    BY <2>1, FirstIn, Basics
<1>3. c \in CallType /\ c.pc = "fetch_object" /\ c.o = o
  BY <1>2, CallTypes DEF PCs
<1> HIDE DEF o, c
<1>4. /\ Kept(Depth) /\ Depth' = Depth + 1 /\ stack'[Depth + 1] = c /\ Top' = c
      /\ Depth = 1 /\ Top.pc = "walk"
  BY <1>1, <1>3, Pushed, StackFacts, Places DEF At
<1>5. Covered'
  <2>1. \A d \in Depth + 1 .. Depth : ~Drains(stack[d])
    BY <1>4
  <2> QED
    BY <1>1, <1>3, <1>4, <2>1, KeptStands, CoverStands
<1>6. \A d \in Depth + 1 .. Depth' : CallOK(d)' /\ stack'[d].pc \notin OnTop \cup Asking
  <2>1. CallOK(2)'
    BY <1>2, <1>3, <1>4 DEF CallOK, OnTop, Inside, Asking
  <2> QED
    BY <1>3, <1>4, <2>1 DEF OnTop, Asking
<1>7. ObjTypes' /\ Returned(Depth)
  BY <1>1, <1>4 DEF ObjPart, ObjTypes, Returned
<1>8. Top.pc \notin OnTop /\ Top.pc \notin {"finish", "response", "perform"}
  BY <1>4 DEF OnTop
<1>9. Depth' >= 1
  BY <1>4
<1>10. \A p \in Obj : obj_req[p].state # "WAITING"
  BY <1>1, <1>4, NotWaiting
<1> QED
  BY <1>1, <1>4, <1>5, <1>6, <1>7, <1>8, <1>9, <1>10, Restacked

\* The innermost call goes on with others.
LEMMA QuietBecome ==
    ASSUME HwInv, Kept(Depth - 1), Depth' >= Depth, Depth >= 2,
           UNCHANGED <<registered, pending, queue, origin, lost>>,
           UNCHANGED <<slots, active_requests, curl_session_count>>,
           UNCHANGED obj_req, ObjTypes',
           Top.pc \notin {"finish", "response", "perform", "run", "fill", "start"},
           Top.pc \in Emptying => \E d \in Depth .. Depth' : stack'[d].pc \in Emptying,
           \A d \in Depth .. Depth' : CallOK(d)' /\ stack'[d].pc \notin OnTop \cup Asking
    PROVE  HwInv'
<1>1. CallPart /\ Covered /\ WaitPart
  BY DEF HwInv
<1>2. Depth \in Nat /\ Depth' \in Nat /\ Top = stack[Depth] /\ Top' = stack'[Depth']
  BY <1>1, StackFacts DEF Kept, Top
<1>3. Returned(Depth - 1)
  BY <1>2 DEF Returned
<1>4. Covered'
  <2>1. CASE Top.pc \in Emptying
    <3>1. PICK d \in Depth .. Depth' : stack'[d].pc \in Emptying
      BY <2>1
    <3>2. d \in 1 .. Depth'
      BY <1>2
    <3> QED
      BY <3>1, <3>2, CoveredBy
  <2>2. CASE Top.pc \notin Emptying
    <3>1. \A d \in Depth - 1 + 1 .. Depth : ~Drains(stack[d])
      BY <1>2, <2>2 DEF Drains
    <3>2. Top'.pc # "perform"
      BY <1>2 DEF OnTop
    <3> QED
      BY <1>1, <3>1, <3>2, KeptStands, CoverStands
  <2> QED
    BY <2>1, <2>2
<1>5. \A d \in Depth - 1 + 1 .. Depth' : CallOK(d)' /\ stack'[d].pc \notin OnTop \cup Asking
  BY <1>2
<1>6. Depth' >= 1 /\ Depth - 1 < Depth
  BY <1>2
<1>7. \A o \in Obj : obj_req[o].state # "WAITING"
  BY <1>1, NotWaiting
<1>8. Top.pc \notin {"finish", "response", "perform"}
  OBVIOUS
<1> QED
  BY <1>3, <1>4, <1>5, <1>6, <1>7, <1>8, Restacked

\* get_active_slot() waits for a slot: one that is lost is not the only one.
LEMMA WaitForSlotStep == ASSUME HwInv, WaitForSlot PROVE HwInv'
<1>1. /\ CallPart /\ WaitPart /\ SlotPart
      /\ Top.pc \in {"start", "alternates_start", "pack_start"}
      /\ active_requests >= max_requests
      /\ stack' = Append(stack, Call("process"))
      /\ UNCHANGED <<registered, pending, queue, origin, lost>>
      /\ UNCHANGED <<slots, active_requests, curl_session_count>>
      /\ UNCHANGED obj_req /\ ObjTypes'
  BY DEF HwInv, ObjPart, ObjTypes, WaitForSlot, multiVars, slotVars, walkVars
<1>2. \A o \in Obj : obj_req[o].state # "WAITING"
  BY <1>1, Basics DEF WaitPart, SlotPart, Types
<1>3. Top.pc \notin OnTop /\ "process" \in Plain
  BY <1>1 DEF OnTop, Plain
<1> QED
  BY <1>1, <1>2, <1>3, PlainPush

\* step_active_slots(): completions are processed before it returns; without
\* a request under way there is none.
LEMMA StepStep == ASSUME HwInv, step_active_slots PROVE HwInv'
<1>1. /\ CallPart /\ WaitPart /\ SlotPart /\ Top.pc = "step"
      /\ Become(IF 0 < active_requests THEN << Call("fill"), Call("process") >> ELSE <<>>)
      /\ UNCHANGED <<registered, pending, queue, origin, lost>>
      /\ UNCHANGED <<slots, active_requests, curl_session_count>>
      /\ UNCHANGED obj_req /\ ObjTypes'
  BY DEF HwInv, ObjPart, ObjTypes, step_active_slots, multiVars, slotVars, walkVars, At
<1>2. Depth >= 2 /\ Depth \in Nat
  BY <1>1, Places, StackFacts
<1>3. CASE 0 < active_requests
  <2>1. /\ Call("fill") \in CallType /\ Call("fill").pc = "fill"
        /\ Call("process") \in CallType /\ Call("process").pc = "process"
    BY CallTypes DEF PCs
  <2>2. /\ Kept(Depth - 1) /\ Depth' = Depth + 1
        /\ stack'[Depth] = Call("fill") /\ stack'[Depth + 1] = Call("process")
    BY <1>1, <1>3, <2>1, ReplacedByTwo
  <2>3. \A d \in Depth .. Depth' : stack'[d].pc \in Plain
    <3>1. \A d \in Depth .. Depth' : d = Depth \/ d = Depth + 1
      BY <1>2, <2>2
    <3> QED
      BY <2>1, <2>2, <3>1 DEF Plain
  <2>4. \A d \in Depth .. Depth' : CallOK(d)' /\ stack'[d].pc \notin OnTop \cup Asking
    <3>1. \A d \in Depth .. Depth' : d \in Nat /\ d >= 2
      BY <1>2, <2>2
    <3> QED
      BY <2>3, <3>1, PlainCalls
  <2>5. Depth + 1 \in Depth .. Depth' /\ stack'[Depth + 1].pc \in Emptying
    BY <1>2, <2>1, <2>2 DEF Emptying
  <2>6. Depth' >= Depth
    BY <1>2, <2>2
  <2> QED
    BY <1>1, <1>2, <2>2, <2>4, <2>5, <2>6, QuietBecome
<1>4. CASE ~(0 < active_requests)
  <2>1. Return
    BY <1>1, <1>4, ReplacedByNone
  <2>2. queue = <<>>
    <3>1. active_requests = 0
      BY <1>1, <1>4 DEF SlotPart, Types
    <3>2. IsFiniteSet(InUse) /\ Cardinality(InUse) = 0
      BY <1>1, <3>1, SlotSets DEF SlotPart, Types
    <3>3. InUse = {}
      BY <3>2, FS_EmptySet
    <3>4. Len(queue) = 0 /\ queue \in Seq([easy: Handles, res: Results])
      BY <1>1, <3>3 DEF SlotPart, Types
    <3> QED
      BY <3>4
  <2>3. \A o \in Obj : obj_req[o].state # "WAITING"
    BY <1>1, NotWaiting
  <2> QED
    BY <1>1, <1>2, <2>1, <2>2, <2>3, PlainReturn
<1> QED
  BY <1>3, <1>4

\* fetch_alternates() waits for the list, has it, or asks for it.
LEMMA FetchAlternatesStep == ASSUME HwInv, fetch_alternates PROVE HwInv'
<1>1. /\ CallPart /\ WaitPart /\ Top.pc = "fetch_alternates"
      /\ UNCHANGED <<registered, pending, queue, origin, lost>>
      /\ UNCHANGED <<slots, active_requests, curl_session_count>>
      /\ UNCHANGED <<obj_req, alts, has>>
  BY DEF HwInv, fetch_alternates, multiVars, slotVars, At
<1>2. got_alternates \in {-1, 0, 1}
  BY DEF HwInv, ObjPart, ObjTypes
<1>3. ObjTypes'
  <2>1. got_alternates' \in {-1, 0, 1}
    BY <1>2 DEF fetch_alternates
  <2> QED
    BY <1>1, <2>1 DEF HwInv, ObjPart, ObjTypes
<1>4. /\ Depth \in Nat /\ Depth >= 2 /\ Top.pc \notin OnTop
      /\ \A o \in Obj : obj_req[o].state # "WAITING"
  BY <1>1, Places, StackFacts, NotWaiting DEF OnTop
<1>5. CASE got_alternates = 0
  <2>1. stack' = Append(stack, Call("step"))
    BY <1>5 DEF fetch_alternates
  <2>2. "step" \in Plain
    BY DEF Plain
  <2> QED
    BY <1>1, <1>3, <1>4, <2>1, <2>2, PlainPush
<1>6. CASE got_alternates = 1
  <2>1. Return
    BY <1>6 DEF fetch_alternates
  <2> QED
    BY <1>1, <1>3, <1>4, <2>1, PlainReturn DEF Emptying
<1>7. CASE got_alternates = -1
  <2>1. Become(<< Call("alternates_start") >>)
    BY <1>7 DEF fetch_alternates
  <2>2. Call("alternates_start") \in CallType /\ Call("alternates_start").pc = "alternates_start"
    BY CallTypes DEF PCs
  <2>3. Kept(Depth - 1) /\ Depth' = Depth /\ stack'[Depth] = Call("alternates_start")
    BY <1>1, <2>1, <2>2, Replaced
  <2>4. \A d \in Depth .. Depth' : CallOK(d)' /\ stack'[d].pc \notin OnTop \cup Asking
    <3>1. \A d \in Depth .. Depth' : d = Depth
      BY <1>4, <2>3
    <3>2. stack'[Depth].pc \in Plain
      BY <2>2, <2>3 DEF Plain
    <3> QED
      BY <1>4, <3>1, <3>2, PlainCalls
  <2>5. Depth' >= Depth /\ Top.pc \notin Emptying
    BY <1>1, <1>4, <2>3 DEF Emptying
  <2> QED
    BY <1>1, <1>3, <1>4, <2>3, <2>4, <2>5, QuietBecome
<1> QED
  BY <1>2, <1>5, <1>6, <1>7

\* process_alternates_response() returns.
LEMMA AlternatesArriveStep == ASSUME HwInv, AlternatesArrive PROVE HwInv'
<1>1. /\ CallPart /\ WaitPart /\ Top.pc = "alternates_response" /\ Return
      /\ UNCHANGED <<registered, pending, queue, origin, lost>>
      /\ UNCHANGED <<slots, active_requests, curl_session_count>>
      /\ UNCHANGED <<obj_req, has>>
  BY DEF HwInv, AlternatesArrive, multiVars, slotVars, At
<1>2. ObjTypes'
  <2>1. alts \in Nat /\ ObjTypes
    BY DEF HwInv, ObjPart, ObjTypes
  <2>2. MaxRepos \in Nat
    BY WalkerAssumption
  <2>3. got_alternates' \in {-1, 0, 1} /\ alts' \in Nat
    BY <2>1, <2>2 DEF AlternatesArrive
  <2> QED
    BY <1>1, <2>1, <2>3 DEF ObjTypes
<1>3. Depth >= 2 /\ \A o \in Obj : obj_req[o].state # "WAITING"
  BY <1>1, Places, StackFacts, NotWaiting
<1> QED
  BY <1>1, <1>2, <1>3, PlainReturn DEF Emptying

\* fetch_object() goes on to wait for the request.
LEMMA FetchBeginStep == ASSUME HwInv, FetchBegin PROVE HwInv'
<1>1. /\ CallPart /\ WaitPart /\ Top.pc = "fetch_object"
      /\ Become(<< CallFor("await", Top.o) >>)
      /\ UNCHANGED <<registered, pending, queue, origin, lost>>
      /\ UNCHANGED <<slots, active_requests, curl_session_count>>
      /\ UNCHANGED obj_req /\ ObjTypes'
  BY DEF HwInv, FetchBegin, multiVars, slotVars, walkVars, At, ObjPart, ObjTypes
<1>2. Depth = 2 /\ Top.o \in Obj
  BY <1>1, Places DEF Outer, AboutObject
<1>3. /\ CallFor("await", Top.o) \in CallType /\ CallFor("await", Top.o).pc = "await"
      /\ CallFor("await", Top.o).o \in Obj
  BY <1>2, CallTypes DEF PCs
<1>4. Kept(1) /\ Kept(Depth - 1) /\ Depth' = 2 /\ stack'[2] = CallFor("await", Top.o)
  BY <1>1, <1>2, <1>3, Replaced
<1>5. \A d \in Depth .. Depth' : CallOK(d)' /\ stack'[d].pc \notin OnTop \cup Asking
  <2>1. CallOK(2)'
    BY <1>3, <1>4 DEF CallOK, OnTop, Inside, Asking
  <2> QED
    BY <1>2, <1>3, <1>4, <2>1 DEF OnTop, Asking
<1> QED
  BY <1>1, <1>2, <1>4, <1>5, QuietBecome DEF Emptying

\* A pack arrives, with other objects.
LEMMA PackFetchedStep == ASSUME HwInv, PackFetched PROVE HwInv'
<1>1. /\ CallPart /\ WaitPart /\ Top.pc = "packs_end" /\ Return
      /\ UNCHANGED <<registered, pending, queue, origin, lost>>
      /\ UNCHANGED <<slots, active_requests, curl_session_count>>
      /\ UNCHANGED <<obj_req, alts, got_alternates>>
  BY DEF HwInv, PackFetched, multiVars, slotVars, At
<1>2. Depth = 2 /\ Top.o \in Obj
  BY <1>1, Places DEF Outer, AboutObject
<1>3. ObjTypes'
  <2>1. has' \subseteq Obj
    BY <1>2 DEF PackFetched, HwInv, ObjPart, ObjTypes
  <2> QED
    BY <1>1, <2>1 DEF HwInv, ObjPart, ObjTypes
<1>4. \A o \in Obj : obj_req[o].state # "WAITING"
  BY <1>1, NotWaiting
<1> QED
  BY <1>1, <1>2, <1>3, <1>4, PlainReturn DEF Emptying

\* No pack of this repository has the object.
LEMMA PackMissingStep == ASSUME HwInv, PackMissing PROVE HwInv'
<1> DEFINE c == [CallFor("packs", Top.o) EXCEPT !.repo = Top.repo + 1]
           e == Call("fetch_alternates")
<1>1. /\ CallPart /\ WaitPart /\ Top.pc = "packs_end"
      /\ Become(<<c, e>>)
      /\ UNCHANGED <<registered, pending, queue, origin, lost>>
      /\ UNCHANGED <<slots, active_requests, curl_session_count>>
      /\ UNCHANGED obj_req /\ ObjTypes'
  BY DEF HwInv, PackMissing, multiVars, slotVars, walkVars, At, ObjPart, ObjTypes
<1>2. Depth = 2 /\ Top.o \in Obj /\ Top.repo \in Nat
  BY <1>1, Places, StackFacts DEF Outer, AboutObject, CallType
<1>3. /\ c \in CallType /\ c.pc = "packs" /\ c.o \in Obj
      /\ e \in CallType /\ e.pc = "fetch_alternates"
  <2>1. CallFor("packs", Top.o) \in CallType /\ CallFor("packs", Top.o).pc = "packs"
        /\ CallFor("packs", Top.o).o = Top.o
    BY <1>2, CallTypes DEF PCs
  <2>2. c \in CallType /\ c.pc = "packs" /\ c.o \in Obj
    BY <1>2, <2>1 DEF CallType
  <2> QED
    BY <2>2, CallTypes DEF PCs
<1> HIDE DEF c, e
<1>4. Kept(Depth - 1) /\ Depth' = 3 /\ stack'[2] = c /\ stack'[3] = e
  BY <1>1, <1>2, <1>3, ReplacedByTwo
<1>5. \A d \in Depth .. Depth' : CallOK(d)' /\ stack'[d].pc \notin OnTop \cup Asking
  <2>1. CallOK(2)'
    BY <1>3, <1>4 DEF CallOK, OnTop, Inside, Asking
  <2>2. CallOK(3)'
    BY <1>3, <1>4 DEF CallOK, OnTop, Inside, Asking, Outer, AboutObject
  <2>3. \A d \in Depth .. Depth' : d = 2 \/ d = 3
    BY <1>2, <1>4
  <2> QED
    BY <1>3, <1>4, <2>1, <2>2, <2>3 DEF OnTop, Asking
<1> QED
  BY <1>1, <1>2, <1>4, <1>5, QuietBecome DEF Emptying

\* http_fetch_pack() for the next repository, or the end of the walk.
LEMMA FetchPackStep == ASSUME HwInv, http_fetch_pack PROVE HwInv'
<1> DEFINE c == [Top EXCEPT !.pc = "packs_end"]
           e == [Top EXCEPT !.pc = "pack_start"]
<1>1. /\ CallPart /\ WaitPart /\ Covered /\ Top.pc = "packs"
      /\ stack' = IF Top.repo <= alts THEN Below \o <<c, e>> ELSE << Call("failed") >>
      /\ UNCHANGED <<registered, pending, queue, origin, lost>>
      /\ UNCHANGED <<slots, active_requests, curl_session_count>>
      /\ UNCHANGED obj_req /\ ObjTypes'
  BY DEF HwInv, http_fetch_pack, multiVars, slotVars, walkVars, At, ObjPart, ObjTypes
<1>2. Depth = 2 /\ Top.o \in Obj /\ Top \in CallType /\ stack[1].pc \in {"walk", "failed"}
      /\ Top = stack[2]
  BY <1>1, Places, StackFacts DEF Outer, AboutObject
<1>3. /\ c \in CallType /\ c.pc = "packs_end" /\ c.o \in Obj
      /\ e \in CallType /\ e.pc = "pack_start" /\ e.o \in Obj
  BY <1>2 DEF CallType, PCs
<1>4. CASE Top.repo <= alts
  <2>1. Become(<<c, e>>)
    BY <1>1, <1>4 DEF Become
  <2> HIDE DEF c, e
  <2>2. Kept(Depth - 1) /\ Depth' = 3 /\ stack'[2] = c /\ stack'[3] = e
    BY <1>1, <1>2, <1>3, <2>1, ReplacedByTwo
  <2>3. \A d \in Depth .. Depth' : CallOK(d)' /\ stack'[d].pc \notin OnTop \cup Asking
    <3>1. CallOK(2)'
      BY <1>3, <2>2 DEF CallOK, OnTop, Inside, Asking
    <3>2. CallOK(3)'
      BY <1>3, <2>2 DEF CallOK, OnTop, Inside, Asking, Outer
    <3>3. \A d \in Depth .. Depth' : d = 2 \/ d = 3
      BY <1>2, <2>2
    <3> QED
      BY <1>3, <2>2, <3>1, <3>2, <3>3 DEF OnTop, Asking
  <2>4. /\ Depth' >= Depth /\ Depth >= 2 /\ Top.pc \notin Emptying
        /\ Top.pc \notin {"finish", "response", "perform", "run", "fill", "start"}
    BY <1>1, <1>2, <2>2 DEF Emptying
  <2>5. /\ UNCHANGED <<registered, pending, queue, origin, lost>>
        /\ UNCHANGED <<slots, active_requests, curl_session_count>>
        /\ UNCHANGED obj_req /\ ObjTypes'
    BY <1>1
  <2> QED
    BY <2>2, <2>3, <2>4, <2>5, QuietBecome
<1>5. CASE ~(Top.repo <= alts)
  <2>1. Call("failed") \in CallType /\ Call("failed").pc = "failed"
    BY CallTypes DEF PCs
  <2>2. stack' = << Call("failed") >>
    BY <1>1, <1>5
  <2>3. stack' \in Seq(CallType) /\ Len(stack') = 1 /\ stack'[1].pc = "failed"
    BY <2>1, <2>2
  <2>4. Depth' = 1 /\ Top' = stack'[1]
    BY <2>3 DEF Depth, Top
  <2>5. Kept(0)
    BY <1>2, <2>3, <2>4 DEF Kept
  <2>6. \A d \in 1 .. Depth : ~Drains(stack[d]) /\ stack[d].pc # "run"
    BY <1>1, <1>2 DEF Drains, Emptying
  <2>7. Returned(0)
    BY <2>6 DEF Returned
  <2>8. Covered'
    BY <1>1, <2>3, <2>4, <2>6 DEF Covered, At
  <2>9. \A d \in 0 + 1 .. Depth' : CallOK(d)' /\ stack'[d].pc \notin OnTop \cup Asking
    <3>1. CallOK(1)'
      BY <2>3, <2>4 DEF CallOK, OnTop, Inside, Outer, AboutObject, Asking
    <3> QED
      BY <2>3, <2>4, <3>1 DEF OnTop, Asking
  <2>10. \A o \in Obj : obj_req[o].state # "WAITING"
    BY <1>1, NotWaiting
  <2>11. Depth' >= 1 /\ 0 < Depth
    BY <1>2, <2>4
  <2> QED
    BY <1>1, <2>5, <2>7, <2>8, <2>9, <2>10, <2>11, Restacked
<1> QED
  BY <1>4, <1>5

-----------------------------------------------------------------------------
(* The walk *)

\* When the walk itself is the innermost call nothing is queued.
LEMMA Alone ==
    ASSUME HwInv, SlotsRemain, Depth <= 2, Top.pc \notin Emptying \cup {"run"}
    PROVE  queue = <<>> /\ (Top.pc \notin {"finish", "perform"} => active_requests < max_requests)
<1>1. CallPart /\ SlotPart /\ Covered
  BY DEF HwInv
<1>2. Depth \in Nat /\ Depth >= 1 /\ Top = stack[Depth] /\ \A d \in 1 .. Depth : CallOK(d)
  BY <1>1, StackFacts DEF CallPart
<1>3. \A d \in 1 .. Depth : ~Drains(stack[d])
  <2>1. stack[1].pc \in {"walk", "failed"}
    BY <1>2 DEF CallOK
  <2>2. \A d \in 1 .. Depth : d = 1 \/ d = Depth
    BY <1>2
  <2> QED
    BY <1>2, <2>1, <2>2 DEF Drains, Emptying
<1>4. queue = <<>>
  BY <1>1, <1>3 DEF Covered
<1>5. ASSUME Top.pc \notin {"finish", "perform"}
      PROVE  active_requests < max_requests
  <2>1. Len(queue) = 0
    BY <1>4
  <2>2. Queued = {} /\ Finishing = {} /\ pending = {}
    BY <1>1, <1>5, <2>1 DEF Queued, Finishing, At, SlotPart
  <2>3. Silent = InUse
    BY <2>2 DEF Silent
  <2>4. active_requests <= lost
    BY <1>1, <2>3 DEF SlotPart
  <2> QED
    BY <1>1, <2>4, Basics DEF SlotsRemain, SlotPart, Types
<1> QED
  BY <1>4, <1>5

\* Changing the state of one request leaves the types of all.
LEMMA RequestType ==
    ASSUME obj_req \in [Obj -> ReqType], NEW o \in Obj,
           NEW r \in ReqType, obj_req' = [obj_req EXCEPT ![o] = r]
    PROVE  obj_req' \in [Obj -> ReqType] /\ obj_req'[o] = r
           /\ \A p \in Obj \ {o} : obj_req'[p] = obj_req[p]
OBVIOUS

\* An object no request is for is looked at.
LEMMA FirstUnknown ==
    ASSUME Known # Obj
    PROVE  First(Obj \ Known) \in Obj /\ obj_req[First(Obj \ Known)].state = "none"
<1>1. Obj \ Known \subseteq Nat /\ Obj \ Known # {}
  BY Basics DEF Known
<1> QED
  BY <1>1, FirstIn DEF Known

\* prefetch() adds a request and starts it if there is a slot: there is one.
LEMMA PrefetchStep == ASSUME HwInv, SlotsRemain, prefetch PROVE HwInv'
<1> DEFINE o == First(Obj \ Known)
           r == [obj_req[o] EXCEPT !.state = "WAITING"]
<1>1. /\ CallPart /\ WaitPart /\ Covered /\ ObjPart /\ AskPart /\ Top.pc = "walk"
      /\ o \in Obj /\ obj_req[o].state = "none" /\ o \notin has
      /\ obj_req' = [obj_req EXCEPT ![o].state = "WAITING"]
      /\ stack' = stack \o << Call("step"), Call("fill") >>
      /\ UNCHANGED <<registered, pending, queue, origin, lost>>
      /\ UNCHANGED <<slots, active_requests, curl_session_count>>
      /\ UNCHANGED <<got_alternates, alts, has>>
  BY FirstUnknown DEF HwInv, prefetch, multiVars, slotVars, At
<1> HIDE DEF o
<1>2. ObjTypes /\ obj_req \in [Obj -> ReqType] /\ obj_req[o] \in ReqType
  BY <1>1 DEF ObjPart, ObjTypes
<1>3. r \in ReqType /\ r.state = "WAITING" /\ r.slot = obj_req[o].slot
  BY <1>2 DEF ReqType
<1>4. obj_req' = [obj_req EXCEPT ![o] = r]
  BY <1>1
<1> HIDE DEF r
<1>5. obj_req' \in [Obj -> ReqType] /\ obj_req'[o] = r
      /\ \A p \in Obj \ {o} : obj_req'[p] = obj_req[p]
  BY <1>1, <1>2, <1>3, <1>4, RequestType
<1>6. /\ Call("step") \in CallType /\ Call("step").pc = "step"
      /\ Call("fill") \in CallType /\ Call("fill").pc = "fill"
  BY CallTypes DEF PCs
<1>7. Depth = 1
  BY <1>1, Places
<1>8. /\ Kept(Depth) /\ Depth' = 3 /\ stack'[2].pc = "step" /\ stack'[3].pc = "fill"
  BY <1>1, <1>6, <1>7, PushedTwo
<1>9. ObjTypes'
  BY <1>1, <1>2, <1>5 DEF ObjTypes
<1>10. \A p \in Obj : SameService(p)
  BY <1>1, <1>3, <1>5 DEF SameService
<1>11. Covered'
  <2>1. 2 \in 1 .. Depth' /\ stack'[2].pc \in Emptying
    BY <1>8 DEF Emptying
  <2> QED
    BY <2>1, CoveredBy
<1>12. AskPart'
  <2>1. \A d \in 1 .. Depth : stack[d].pc \notin Asking
    BY <1>1, <1>7, StackFacts DEF Asking
  <2>2. \A d \in Depth + 1 .. Depth' : d = 2 \/ d = 3
    BY <1>7, <1>8
  <2>3. \A d \in Depth + 1 .. Depth' : stack'[d].pc \notin Asking
    BY <1>8, <2>2 DEF Asking
  <2> QED
    BY <1>1, <1>7, <1>8, <2>1, <2>3, KeptStands, AskStands
<1>13. WaitPart'
  <2>1. \A p \in Obj : obj_req[p].state # "WAITING"
    BY <1>1, NotWaiting
  <2>2. active_requests' < max_requests
    BY <1>1, <1>7, Alone DEF Emptying
  <2>3. \A p \in Obj : obj_req'[p].state = "WAITING" => p = o
    BY <1>5, <2>1
  <2>4. o \notin has' /\ Depth' \in {3, 4} /\ Depth' # 4
    BY <1>1, <1>8
  <2> QED
    BY <1>8, <2>2, <2>3, <2>4 DEF WaitPart
<1>14. \A d \in Depth + 1 .. Depth' : CallOK(d)' /\ stack'[d].pc \notin OnTop
  <2>1. \A d \in Depth + 1 .. Depth' : d \in Nat /\ d >= 2 /\ stack'[d].pc \in Plain
    <3>1. \A d \in Depth + 1 .. Depth' : d = 2 \/ d = 3
      BY <1>7, <1>8
    <3> QED
      BY <1>8, <3>1 DEF Plain
  <2> QED
    BY <2>1, PlainCalls
<1>15. Returned(Depth) /\ Top.pc \notin OnTop /\ Top.pc \notin {"finish", "response", "perform"}
  BY <1>1, <1>7 DEF Returned, OnTop
<1>16. Depth' >= 1
  BY <1>8
<1> QED
  BY <1>1, <1>8, <1>9, <1>10, <1>11, <1>12, <1>13, <1>14, <1>15, <1>16, Rewalked

\* An object that is here needs no request.
LEMMA ScanOnlyStep == ASSUME HwInv, ScanOnly PROVE HwInv'
<1> DEFINE o == First(Obj \ Known)
           r == [obj_req[o] EXCEPT !.state = "gone"]
<1>1. /\ CallPart /\ WaitPart /\ Covered /\ ObjPart /\ AskPart /\ Top.pc = "walk"
      /\ o \in Obj /\ obj_req[o].state = "none"
      /\ obj_req' = [obj_req EXCEPT ![o].state = "gone"]
      /\ UNCHANGED stack
      /\ UNCHANGED <<registered, pending, queue, origin, lost>>
      /\ UNCHANGED <<slots, active_requests, curl_session_count>>
      /\ UNCHANGED <<got_alternates, alts, has>>
  BY FirstUnknown DEF HwInv, ScanOnly, multiVars, slotVars, At
<1> HIDE DEF o
<1>2. ObjTypes /\ obj_req \in [Obj -> ReqType] /\ obj_req[o] \in ReqType
  BY <1>1 DEF ObjPart, ObjTypes
<1>3. r \in ReqType /\ r.state = "gone" /\ r.slot = obj_req[o].slot
  BY <1>2 DEF ReqType
<1>4. obj_req' = [obj_req EXCEPT ![o] = r]
  BY <1>1
<1> HIDE DEF r
<1>5. obj_req' \in [Obj -> ReqType] /\ obj_req'[o] = r
      /\ \A p \in Obj \ {o} : obj_req'[p] = obj_req[p]
  BY <1>1, <1>2, <1>3, <1>4, RequestType
<1>6. Depth = 1 /\ Depth' = 1 /\ Kept(1) /\ Top' = Top
  BY <1>1, Places, StackFacts DEF Kept, Depth, Top
<1>7. ObjTypes'
  BY <1>1, <1>2, <1>5 DEF ObjTypes
<1>8. \A p \in Obj : SameService(p)
  BY <1>1, <1>3, <1>5 DEF SameService
<1>9. Covered'
  BY <1>1, <1>6 DEF Covered, At
<1>10. AskPart'
  <2>1. \A d \in 1 .. 1 : stack[d].pc \notin Asking
    BY <1>1, <1>6, StackFacts DEF Asking
  <2> QED
    BY <1>1, <1>6, <2>1, KeptStands, AskStands
<1>11. WaitPart'
  BY <1>1, <1>3, <1>5, NotWaiting DEF WaitPart
<1>12. Returned(1) /\ Top.pc \notin OnTop /\ Top.pc \notin {"finish", "response", "perform"}
  BY <1>1, <1>6 DEF Returned, OnTop
<1>13. Depth' >= 1 /\ \A d \in 1 + 1 .. Depth' : CallOK(d)' /\ stack'[d].pc \notin OnTop
  BY <1>6
<1> QED
  BY <1>1, <1>6, <1>7, <1>8, <1>9, <1>10, <1>11, <1>12, <1>13, Rewalked

\* fill_active_slots() starts the request that waits, the only one.
LEMMA FillOneStep == ASSUME HwInv, FillOne PROVE HwInv'
<1> DEFINE o == First(Startable)
<1>1. /\ CallPart /\ WaitPart /\ Covered /\ ObjPart /\ AskPart /\ Top.pc = "fill"
      /\ Startable # {} /\ active_requests < max_requests
      /\ stack' = Append(stack, CallFor("start", o))
      /\ obj_req' = [p \in Obj |-> IF p \in Arrived
                                   THEN [obj_req[p] EXCEPT !.state = "COMPLETE"]
                                   ELSE obj_req[p]]
      /\ UNCHANGED <<registered, pending, queue, origin, lost>>
      /\ UNCHANGED <<slots, active_requests, curl_session_count>>
      /\ UNCHANGED <<got_alternates, alts, has>>
  BY DEF HwInv, FillOne, multiVars, slotVars, At
<1>2. o \in Obj /\ obj_req[o].state = "WAITING" /\ o \notin has
  <2>1. Startable \subseteq Obj /\ Startable \subseteq Nat
    BY Basics DEF Startable
  <2> QED
    BY <1>1, <2>1, FirstIn DEF Startable
<1> HIDE DEF o
<1>3. obj_req' = obj_req
  <2>1. Arrived = {}
    BY <1>1 DEF WaitPart, Arrived, ObjPart, ObjTypes
  <2>2. obj_req = [p \in Obj |-> obj_req[p]]
    BY <1>1 DEF ObjPart, ObjTypes
  <2> QED
    BY <1>1, <2>1, <2>2
<1>4. /\ Depth = 3 /\ stack[1].pc \in {"walk", "failed"} /\ stack[2].pc = "step"
      /\ stack[3].pc = "fill" /\ \A p \in Obj : obj_req[p].state = "WAITING" => p = o
  <2>1. /\ Depth \in {3, 4} /\ stack[2].pc = "step" /\ stack[3].pc = "fill"
        /\ Depth = 4 => Top.pc = "start"
        /\ \A p \in Obj : obj_req[p].state = "WAITING" => p = o
    BY <1>1, <1>2 DEF WaitPart, At
  <2>2. Depth = 3
    BY <1>1, <2>1
  <2>3. CallOK(1)
    BY <1>1, <2>2 DEF CallPart
  <2> QED
    BY <2>1, <2>2, <2>3 DEF CallOK
<1>5. /\ CallFor("start", o) \in CallType /\ CallFor("start", o).pc = "start"
      /\ CallFor("start", o).o = o
  BY <1>2, CallTypes DEF PCs
<1>6. /\ Kept(Depth) /\ Depth' = 4 /\ stack'[4].pc = "start" /\ stack'[4].o = o
      /\ Top' = stack'[4] /\ \A d \in 1 .. 3 : stack'[d] = stack[d]
  BY <1>1, <1>4, <1>5, Pushed DEF Kept
<1>7. ObjTypes' /\ \A p \in Obj : SameService(p)
  BY <1>1, <1>3 DEF ObjPart, ObjTypes, SameService
<1>8. Covered'
  <2>1. 2 \in 1 .. Depth' /\ stack'[2].pc \in Emptying
    BY <1>4, <1>6 DEF Emptying
  <2> QED
    BY <2>1, CoveredBy
<1>9. AskPart'
  <2>1. \A d \in 1 .. Depth' : stack'[d].pc \in Asking => d = 4
    BY <1>4, <1>6 DEF Asking
  <2> QED
    BY <1>2, <1>3, <1>6, <2>1 DEF AskPart
<1>10. WaitPart'
  <2>1. stack'[2].pc = "step" /\ stack'[3].pc = "fill" /\ Top'.pc = "start" /\ Top'.o = o
    BY <1>4, <1>6
  <2>2. \A p \in Obj : obj_req'[p].state = "WAITING" => p = o
    BY <1>3, <1>4
  <2>3. o \notin has' /\ active_requests' < max_requests /\ Depth' \in {3, 4}
    BY <1>1, <1>2, <1>6
  <2> QED
    BY <2>1, <2>2, <2>3 DEF WaitPart, At
<1>11. \A d \in Depth + 1 .. Depth' : CallOK(d)' /\ stack'[d].pc \notin OnTop
  <2>1. \E c \in 1 .. 3 : stack'[c].pc \in Emptying
    BY <1>4, <1>6 DEF Emptying
  <2>2. CallOK(4)'
    BY <1>2, <1>6, <2>1 DEF CallOK, OnTop, Inside, Outer
  <2>3. \A d \in Depth + 1 .. Depth' : d = 4
    BY <1>4, <1>6
  <2> QED
    BY <1>6, <2>2, <2>3 DEF OnTop
<1>12. Returned(Depth) /\ Top.pc \notin OnTop /\ Top.pc \notin {"finish", "response", "perform"}
  BY <1>1, <1>4 DEF Returned, OnTop
<1>13. Depth' >= 1
  BY <1>6
<1> QED
  BY <1>1, <1>6, <1>7, <1>8, <1>9, <1>10, <1>11, <1>12, <1>13, Rewalked

\* process_object_response() keeps the result of the request that is over.
LEMMA ResponseStep == ASSUME HwInv, process_object_response PROVE HwInv'
<1> DEFINE o == Top.o
           res == slots[obj_req[o].slot].result
           r == [obj_req[o] EXCEPT !.state = "COMPLETE", !.slot = 0, !.result = res]
           c == CallFor("try_next", o)
           e == Call("fetch_alternates")
<1>1. /\ SlotPart /\ ObjPart /\ CallPart /\ WaitPart /\ Covered /\ AskPart /\ Top.pc = "response"
  BY DEF HwInv, process_object_response, At
<1>2. /\ o \in Obj /\ Depth \in Nat /\ Depth >= 2 /\ Top = stack[Depth]
      /\ stack[Depth - 1].pc = "process"
  BY <1>1, Places, StackFacts DEF AboutObject, CallOK, Inside
<1>3. Answering = {o}
  BY <1>1, <1>2 DEF Answering, At
<1>4. obj_req[o].state = "ACTIVE" /\ obj_req[o].slot \in Slots /\ obj_req[o].slot # 0
  BY <1>1, <1>2, <1>3, SlotSets DEF ObjPart, SlotPart, Types
<1>5. /\ obj_req' = [obj_req EXCEPT ![o].state = "COMPLETE", ![o].slot = 0, ![o].result = res]
      /\ has' = IF res = "ok" THEN has \cup {o} ELSE has
      /\ Become(IF res = "missing" THEN <<c, e>> ELSE <<>>)
      /\ UNCHANGED <<registered, pending, queue, origin, lost>>
      /\ UNCHANGED <<slots, active_requests, curl_session_count>>
      /\ UNCHANGED <<got_alternates, alts>>
  BY <1>4 DEF process_object_response, multiVars, slotVars
<1>6. res \in Outcomes
  BY <1>1, <1>4, SlotSets DEF SlotPart, Types, SlotType
<1>7. ObjTypes /\ obj_req \in [Obj -> ReqType] /\ obj_req[o] \in ReqType
  BY <1>1, <1>2 DEF ObjPart, ObjTypes
<1>8. obj_req' = [obj_req EXCEPT ![o] = r]
  BY <1>2, <1>5, <1>7
<1> HIDE DEF res
<1>9. r \in ReqType /\ r.state = "COMPLETE" /\ r.slot = 0
  BY <1>6, <1>7 DEF ReqType
<1> HIDE DEF r
<1>10. /\ obj_req' \in [Obj -> ReqType] /\ obj_req'[o] = r
       /\ \A p \in Obj \ {o} : obj_req'[p] = obj_req[p]
  BY <1>2, <1>7, <1>8, <1>9, RequestType
<1>11. ObjTypes'
  BY <1>2, <1>5, <1>7, <1>10 DEF ObjTypes
<1>12. /\ c \in CallType /\ c.pc = "try_next" /\ c.o = o
       /\ e \in CallType /\ e.pc = "fetch_alternates"
  BY <1>2, CallTypes DEF PCs
<1> HIDE DEF c, e, o
<1>13. /\ Kept(Depth - 1)
       /\ \/ Depth' = Depth - 1
          \/ Depth' = Depth + 1 /\ stack'[Depth] = c /\ stack'[Depth + 1] = e
  BY <1>1, <1>5, <1>12, Popped, ReplacedByNone, ReplacedByTwo
<1>14. \A d \in Depth .. Depth' : (d = Depth \/ d = Depth + 1) /\ Depth' = Depth + 1
  BY <1>2, <1>13
<1>15. /\ Depth' \in Nat /\ Depth' >= 1 /\ Depth - 1 \in 1 .. Depth'
       /\ stack'[Depth - 1].pc = "process"
  <2>1. Depth - 1 \in 1 .. Depth - 1 /\ Depth' \in Nat /\ Depth - 1 <= Depth'
    BY <1>2, <1>13 DEF Kept
  <2> QED
    BY <1>2, <1>13, <2>1 DEF Kept
<1>16. Covered'
  BY <1>15, CoveredBy DEF Emptying
<1>17. \A d \in Depth - 1 + 1 .. Depth' : CallOK(d)' /\ stack'[d].pc \notin OnTop
  <2>1. SUFFICES ASSUME NEW d \in Nat, d \in Depth .. Depth'
                 PROVE  CallOK(d)' /\ stack'[d].pc \notin OnTop
    BY <1>2
  <2>2. stack'[Depth] = c /\ stack'[Depth + 1] = e /\ (d = Depth \/ d = Depth + 1)
    BY <1>2, <1>13, <1>14, <2>1
  <2>3. CASE d = Depth
    <3>1. \E b \in 1 .. d - 1 : stack'[b].pc \in Emptying
      BY <1>2, <1>15, <2>3 DEF Emptying
    <3>2. stack'[d].pc = "try_next" /\ stack'[d].o \in Obj /\ d # 1
      BY <1>2, <1>12, <2>2, <2>3
    <3> QED
      BY <3>1, <3>2 DEF CallOK, OnTop, Inside, Outer
  <2>4. CASE d = Depth + 1
    <3>1. stack'[d].pc \in Plain /\ d >= 2
      BY <1>2, <1>12, <2>2, <2>4 DEF Plain
    <3> QED
      BY <3>1, PlainCalls
  <2> QED
    BY <2>2, <2>3, <2>4
<1>18. ObjPart'
  <2>1. Slots' = Slots /\ InUse' = InUse
    BY <1>5 DEF Slots, InUse
  <2>2. Answering' = {}
    <3>1. Depth - 1 < Depth
      BY <1>2
    <3>2. Top'.pc \notin OnTop
      BY <1>1, <1>13, <1>15, <1>17, <3>1, KeptStands, NewTop
    <3> QED
      BY <3>2 DEF Answering, At, OnTop
  <2>3. \A p \in Obj, s \in Slots : Serves(s, p)' <=> Serves(s, p)
    BY <1>5, <2>1 DEF Serves
  <2>4. \A s \in Slots : ~Serves(s, o)
    BY <1>1, <1>2, <1>3, <1>4 DEF ObjPart
  <2>5. \A p \in Obj, s \in Slots :
          Serves(s, p)' => obj_req'[p].state = "ACTIVE" /\ obj_req'[p].slot = s
    BY <1>1, <1>10, <2>3, <2>4 DEF ObjPart
  <2>6. \A p \in Obj : obj_req'[p].state = "ACTIVE" =>
          obj_req'[p].slot \in Slots' /\ Serves(obj_req[p].slot, p)'
    BY <1>1, <1>3, <1>9, <1>10, <2>1, <2>3 DEF ObjPart
  <2>7. \A p \in Obj : obj_req'[p].state # "ACTIVE" => obj_req'[p].slot = 0
    BY <1>1, <1>9, <1>10 DEF ObjPart
  <2> QED
    BY <1>11, <2>1, <2>2, <2>5, <2>6, <2>7 DEF ObjPart
<1>19. WaitPart'
  <2>1. \A p \in Obj : obj_req[p].state # "WAITING"
    BY <1>1, NotWaiting
  <2> QED
    BY <1>9, <1>10, <2>1 DEF WaitPart
<1>20. AskPart'
  <2>1. \A d \in 1 .. Depth - 1 : d \in 1 .. Depth /\ d < Depth /\ stack'[d] = stack[d]
    BY <1>2, <1>13 DEF Kept
  <2>2. \A d \in 1 .. Depth - 1 : stack[d].pc \in Asking =>
            stack[d].o # o /\ obj_req[stack[d].o].state \in {"WAITING", "COMPLETE"}
            /\ stack[d].o \in Obj
    BY <1>1, <1>4, <2>1 DEF AskPart, CallPart, CallOK, AboutObject, Asking
  <2>3. \A d \in 1 .. Depth' : stack'[d].pc \in Asking =>
            d \in 1 .. Depth - 1 \/ (d = Depth /\ stack'[d] = c)
    <3>1. \A d \in 1 .. Depth' : d \in 1 .. Depth - 1 \/ d \in Depth .. Depth'
      BY <1>2, <1>15
    <3> QED
      BY <1>12, <1>13, <1>14, <3>1 DEF Asking
  <2>4. \A d \in 1 .. Depth' :
          stack'[d].pc \in Asking => obj_req'[stack'[d].o].state \in {"WAITING", "COMPLETE"}
    BY <1>9, <1>10, <1>12, <2>1, <2>2, <2>3
  <2>5. \A d, f \in 1 .. Depth' :
          /\ stack'[d].pc \in Asking /\ stack'[f].pc \in Asking
          /\ stack'[d].o = stack'[f].o
          => d = f
    BY <1>1, <1>12, <2>1, <2>2, <2>3 DEF AskPart
  <2> QED
    BY <2>4, <2>5 DEF AskPart
<1>21. Returned(Depth - 1) /\ Depth - 1 < Depth
  BY <1>1, <1>2 DEF Returned
<1>22. Top.pc \notin {"finish", "perform"}
  BY <1>1
<1> QED
  BY <1>5, <1>13, <1>15, <1>16, <1>17, <1>18, <1>19, <1>20, <1>21, <1>22, OffSlots

\* A request that is over, or was never started, is forgotten; the call that
\* did so stands right above the walk.
LEMMA Forgotten ==
    ASSUME HwInv, Top.pc \in {"fetch_object", "await"},
           obj_req[Top.o].state # "ACTIVE",
           obj_req' = [obj_req EXCEPT ![Top.o] = [@ EXCEPT !.state = "gone"]],
           UNCHANGED <<registered, pending, queue, origin, lost>>,
           UNCHANGED <<slots, active_requests, curl_session_count>>,
           UNCHANGED <<got_alternates, alts, has>>,
           Kept(1), Depth' = 1 \/ (Depth' = 2 /\ stack'[2].pc = "packs" /\ stack'[2].o = Top.o)
    PROVE  HwInv'
<1> DEFINE o == Top.o
           r == [obj_req[o] EXCEPT !.state = "gone"]
<1>1. CallPart /\ WaitPart /\ Covered /\ ObjPart /\ AskPart
  BY DEF HwInv
<1>2. Depth = 2 /\ o \in Obj /\ Top = stack[2]
  BY <1>1, Places, StackFacts DEF Outer, AboutObject
<1>3. ObjTypes /\ obj_req \in [Obj -> ReqType] /\ obj_req[o] \in ReqType
  BY <1>1, <1>2 DEF ObjPart, ObjTypes
<1>4. r \in ReqType /\ r.state = "gone" /\ r.slot = obj_req[o].slot
  BY <1>3 DEF ReqType
<1>5. obj_req' = [obj_req EXCEPT ![o] = r]
  BY <1>3
<1> HIDE DEF r
<1>6. /\ obj_req' \in [Obj -> ReqType] /\ obj_req'[o] = r
      /\ \A p \in Obj \ {o} : obj_req'[p] = obj_req[p]
  BY <1>2, <1>3, <1>4, <1>5, RequestType
<1>7. ObjTypes' /\ \A p \in Obj : SameService(p)
  BY <1>3, <1>4, <1>6 DEF ObjTypes, SameService
<1>8. /\ Returned(1) /\ Top.pc \notin OnTop /\ Top.pc \notin {"finish", "response", "perform"}
      /\ 1 < Depth /\ Depth' >= 1
      /\ \A d \in 1 + 1 .. Depth : d = 2
      /\ \A d \in 1 + 1 .. Depth' : d = 2 /\ stack'[d].pc = "packs" /\ stack'[d].o = o
  BY <1>2 DEF Returned, OnTop
<1>9. \A d \in 1 + 1 .. Depth' : CallOK(d)' /\ stack'[d].pc \notin OnTop
  <2>1. SUFFICES ASSUME 2 \in 1 + 1 .. Depth'
                 PROVE  CallOK(2)' /\ stack'[2].pc \notin OnTop
    BY <1>8
  <2>2. stack'[2].pc = "packs" /\ stack'[2].o \in Obj
    BY <1>2, <1>8, <2>1
  <2> QED
    BY <2>2 DEF CallOK, OnTop, Inside, Asking
<1>10. Covered'
  <2>1. \A d \in 1 + 1 .. Depth : ~Drains(stack[d])
    BY <1>2, <1>8 DEF Drains, Emptying
  <2>2. Top'.pc # "perform"
    BY <1>1, <1>8, <1>9, KeptStands, NewTop DEF OnTop
  <2> QED
    BY <1>1, <2>1, <2>2, KeptStands, CoverStands
<1>11. AskPart'
  <2>1. CallOK(1)
    BY <1>1, <1>2 DEF CallPart
  <2>2. stack[1].pc \in {"walk", "failed"}
    BY <2>1 DEF CallOK
  <2>3. \A d \in 1 .. 1 : stack[d].pc \notin Asking
    BY <2>2 DEF Asking
  <2>4. \A d \in 1 + 1 .. Depth' : stack'[d].pc \notin Asking
    BY <1>8 DEF Asking
  <2> QED
    BY <1>1, <1>2, <2>3, <2>4, KeptStands, AskStands
<1>12. WaitPart'
  <2>1. \A p \in Obj : obj_req[p].state # "WAITING"
    BY <1>1, NotWaiting
  <2> QED
    BY <1>4, <1>6, <2>1 DEF WaitPart
<1> QED
  BY <1>7, <1>8, <1>9, <1>10, <1>11, <1>12, Rewalked

\* fetch_object() is done with a request that is over.
LEMMA FetchEndStep == ASSUME HwInv, FetchEnd PROVE HwInv'
<1> DEFINE o == Top.o
           c == [CallFor("packs", o) EXCEPT !.repo = 1]
<1>1. /\ CallPart /\ ObjPart /\ Top.pc = "await" /\ obj_req[o].state = "COMPLETE"
      /\ obj_req' = [obj_req EXCEPT ![o].state = "gone"]
      /\ Become(IF obj_req[o].result = "ok" THEN <<>> ELSE << c >>)
      /\ UNCHANGED <<registered, pending, queue, origin, lost>>
      /\ UNCHANGED <<slots, active_requests, curl_session_count>>
      /\ UNCHANGED <<got_alternates, alts, has>>
  BY DEF HwInv, FetchEnd, multiVars, slotVars, At
<1>2. Depth = 2 /\ o \in Obj
  BY <1>1, Places DEF Outer, AboutObject
<1>3. c \in CallType /\ c.pc = "packs" /\ c.o = o
  <2>1. CallFor("packs", o) \in CallType /\ CallFor("packs", o).pc = "packs"
        /\ CallFor("packs", o).o = o
    BY <1>2, CallTypes DEF PCs
  <2> QED
    BY <2>1 DEF CallType
<1> HIDE DEF c
<1>4. Kept(1) /\ (Depth' = 1 \/ (Depth' = 2 /\ stack'[2] = c))
  BY <1>1, <1>2, <1>3, Popped, ReplacedByNone, Replaced
<1> QED
  BY <1>1, <1>3, <1>4, Forgotten

\* The next repository is asked.
LEMMA TryNextStep == ASSUME HwInv, TryNextRepo PROVE HwInv'
<1> DEFINE o == Top.o
           r == [obj_req[o] EXCEPT !.repo = @ + 1]
           c == CallFor("start", o)
<1>1. /\ CallPart /\ WaitPart /\ Covered /\ ObjPart /\ AskPart /\ Top.pc = "try_next"
      /\ IF obj_req[o].repo < alts
         THEN /\ obj_req' = [obj_req EXCEPT ![o].repo = @ + 1]
              /\ Become(<< c >>)
         ELSE Return /\ UNCHANGED obj_req
      /\ UNCHANGED <<registered, pending, queue, origin, lost>>
      /\ UNCHANGED <<slots, active_requests, curl_session_count>>
      /\ UNCHANGED <<got_alternates, alts, has>>
  BY DEF HwInv, TryNextRepo, multiVars, slotVars, At
<1>2. /\ Depth \in Nat /\ Depth >= 2 /\ o \in Obj /\ Top = stack[Depth] /\ CallOK(Depth)
      /\ \A d \in 1 .. Depth : d \in Nat
  BY <1>1, Places, StackFacts DEF AboutObject
<1>3. ObjTypes /\ obj_req \in [Obj -> ReqType] /\ obj_req[o] \in ReqType
  BY <1>1, <1>2 DEF ObjPart, ObjTypes
<1>4. \A p \in Obj : obj_req[p].state # "WAITING"
  BY <1>1, NotWaiting
<1>5. CASE ~(obj_req[o].repo < alts)
  <2>1. Return /\ UNCHANGED obj_req
    BY <1>1, <1>5
  <2>2. ObjTypes'
    BY <1>1, <1>3, <2>1 DEF ObjTypes
  <2> QED
    BY <1>1, <1>2, <1>4, <2>1, <2>2, PlainReturn DEF Emptying
<1>6. CASE obj_req[o].repo < alts
  <2>1. obj_req' = [obj_req EXCEPT ![o] = r] /\ Become(<< c >>)
    BY <1>1, <1>3, <1>6
  <2>2. r \in ReqType /\ r.state = obj_req[o].state /\ r.slot = obj_req[o].slot
    BY <1>3 DEF ReqType
  <2> HIDE DEF r
  <2>3. /\ obj_req' \in [Obj -> ReqType] /\ obj_req'[o] = r
        /\ \A p \in Obj \ {o} : obj_req'[p] = obj_req[p]
    BY <1>2, <1>3, <2>1, <2>2, RequestType
  <2>4. ObjTypes' /\ \A p \in Obj : SameService(p) /\ obj_req'[p].state = obj_req[p].state
    BY <1>1, <1>3, <2>2, <2>3 DEF ObjTypes, SameService
  <2>5. c \in CallType /\ c.pc = "start" /\ c.o = o
    BY <1>2, CallTypes DEF PCs
  <2> HIDE DEF c
  <2>6. Kept(Depth - 1) /\ Depth' = Depth /\ stack'[Depth] = c /\ Top' = c
    BY <1>1, <2>1, <2>5, Replaced
  <2>7. \A d \in 1 .. Depth - 1 : stack'[d] = stack[d] /\ d \in 1 .. Depth
    BY <1>2, <2>6 DEF Kept
  <2>8. \A d \in Depth - 1 + 1 .. Depth' : CallOK(d)' /\ stack'[d].pc \notin OnTop
    <3>1. SUFFICES ASSUME NEW d \in Nat, d = Depth
                   PROVE  CallOK(d)' /\ stack'[d].pc \notin OnTop
      BY <1>2, <2>6
    <3>2. \E b \in 1 .. d - 1 : stack'[b].pc \in Emptying
      BY <1>1, <1>2, <2>7, <3>1 DEF CallOK, Asking
    <3>3. stack'[d].pc = "start" /\ stack'[d].o \in Obj /\ d # 1
      BY <1>2, <2>5, <2>6, <3>1
    <3> QED
      BY <3>2, <3>3 DEF CallOK, OnTop, Inside, Outer
  <2>9. Covered'
    <3>1. \A d \in Depth - 1 + 1 .. Depth : ~Drains(stack[d])
      BY <1>1, <1>2 DEF Drains, Emptying
    <3>2. Top'.pc # "perform"
      BY <2>5, <2>6
    <3> QED
      BY <1>1, <2>6, <3>1, <3>2, KeptStands, CoverStands
  <2>10. \A d \in 1 .. Depth : stack'[d].o = stack[d].o
                              /\ (stack'[d].pc \in Asking <=> stack[d].pc \in Asking)
    <3>1. \A d \in 1 .. Depth : d \in 1 .. Depth - 1 \/ d = Depth
      BY <1>2
    <3> QED
      BY <1>1, <1>2, <2>5, <2>6, <2>7, <3>1 DEF Asking
  <2>11. AskPart'
    <3>1. \A d \in 1 .. Depth : stack[d].pc \in Asking => stack[d].o \in Obj
      BY <1>1 DEF CallPart, CallOK, AboutObject, Asking
    <3> QED
      BY <1>1, <2>4, <2>6, <2>10, <3>1 DEF AskPart
  <2>12. WaitPart'
    BY <1>4, <2>4 DEF WaitPart
  <2>13. Returned(Depth - 1) /\ Depth - 1 < Depth /\ Depth' >= 1
    BY <1>1, <1>2, <2>6 DEF Returned
  <2>14. Top.pc \notin {"finish", "response", "perform"}
    BY <1>1
  <2>15. /\ UNCHANGED <<registered, pending, queue, origin, lost>>
         /\ UNCHANGED <<slots, active_requests, curl_session_count>>
    BY <1>1
  <2> QED
    BY <2>4, <2>6, <2>8, <2>9, <2>11, <2>12, <2>13, <2>14, <2>15, Rewalked
<1> QED
  BY <1>5, <1>6

-----------------------------------------------------------------------------
(* Waiting for a slot *)

\* One slot is written.
LEMMA SlotWritten ==
    ASSUME slots \in Seq(SlotType), NEW s \in Slots, NEW v \in SlotType,
           slots' = [slots EXCEPT ![s] = v]
    PROVE  /\ slots' \in Seq(SlotType) /\ Slots' = Slots /\ slots'[s] = v
           /\ \A t \in Slots \ {s} : slots'[t] = slots[t]
<1>1. slots' \in Seq(SlotType) /\ Len(slots') = Len(slots)
  BY DEF Slots
<1> QED
  BY <1>1 DEF Slots

\* Slots in use keep their handles and requests, others may lose the handle.
LEMMA SlotsStand ==
    ASSUME SlotPart, UNCHANGED <<registered, pending, queue, origin, lost, active_requests>>,
           Types', Slots' = Slots, InUse' = InUse,
           \A s \in Slots : slots'[s].curl \in {slots[s].curl, NULL},
           \A s \in InUse : slots'[s].curl = slots[s].curl /\ slots'[s].of = slots[s].of,
           curl_session_count' = Cardinality(WithHandle'),
           pending = {}, Finishing = {}, Finishing' = {}
    PROVE  SlotPart'
<1>1. Queued' = Queued
  BY DEF Queued
<1>2. Silent' = Silent
  BY <1>1 DEF Silent
<1>3. \A s, t \in Slots' : slots'[s].curl = slots'[t].curl /\ slots'[s].curl # NULL => s = t
  BY DEF SlotPart
<1>4. \A i \in 1 .. Len(queue') : \E s \in InUse' :
          slots'[s].curl = queue'[i].easy /\ slots'[s].of = origin'[i]
  BY DEF SlotPart
<1>5. \A i, j \in 1 .. Len(queue') : queue'[i].easy = queue'[j].easy => i = j
  BY DEF SlotPart
<1>6. registered' = { slots'[s].curl : s \in InUse' } /\ \A s \in InUse' : slots'[s].curl # NULL
  BY DEF SlotPart
<1>7. /\ active_requests' = Cardinality(InUse')
      /\ active_requests' <= max_requests
      /\ Cardinality(Silent') <= lost'
      /\ pending' \cap Queued' = {} /\ pending' = {}
  BY <1>1, <1>2 DEF SlotPart
<1> QED
  BY <1>3, <1>4, <1>5, <1>6, <1>7 DEF SlotPart

\* A slot gets another waiter, or none, and nothing else changes.
LEMMA WaiterSet ==
    ASSUME HwInv, NEW s \in Slots, NEW f \in Nat,
           slots' = [slots EXCEPT ![s].finished = f],
           UNCHANGED <<registered, pending, queue, origin, lost>>,
           UNCHANGED <<active_requests, curl_session_count>>,
           UNCHANGED <<obj_req, got_alternates, alts, has>>,
           Top.pc \notin OnTop, Top'.pc \notin OnTop
    PROVE  /\ SlotPart' /\ ObjPart' /\ Slots' = Slots /\ InUse' = InUse
           /\ slots'[s].finished = f
           /\ \A t \in Slots \ {s} : slots'[t] = slots[t]
<1> DEFINE v == [slots[s] EXCEPT !.finished = f]
<1>1. SlotPart /\ ObjPart /\ Types /\ slots \in Seq(SlotType) /\ DOMAIN slots = Slots
  BY SlotSets DEF HwInv, SlotPart, Types
<1>2. slots[s] \in SlotType
  BY <1>1, SlotSets
<1>3. /\ v \in SlotType /\ v.curl = slots[s].curl /\ v.in_use = slots[s].in_use
      /\ v.of = slots[s].of /\ v.callback = slots[s].callback /\ v.finished = f
  BY <1>2 DEF SlotType
<1>4. slots' = [slots EXCEPT ![s] = v]
  OBVIOUS
<1> HIDE DEF v
<1>5. /\ slots' \in Seq(SlotType) /\ Slots' = Slots /\ slots'[s] = v
      /\ \A t \in Slots \ {s} : slots'[t] = slots[t]
  BY <1>1, <1>3, <1>4, SlotWritten
<1>6. \A t \in Slots : /\ slots'[t].curl = slots[t].curl /\ slots'[t].in_use = slots[t].in_use
                       /\ slots'[t].of = slots[t].of /\ slots'[t].callback = slots[t].callback
  BY <1>3, <1>5
<1>7. DOMAIN slots' = Slots
  BY <1>5 DEF Slots
<1>8. InUse' = InUse /\ InUse \subseteq Slots
  BY <1>1, <1>6, <1>7 DEF InUse
<1>9. WithHandle' = WithHandle
  BY <1>5, <1>6 DEF WithHandle
<1>10. /\ pending = {} /\ Finishing = {} /\ Finishing' = {}
       /\ Answering = {} /\ Answering' = {}
  BY <1>1 DEF SlotPart, Finishing, Answering, At, OnTop
<1>11. Types' /\ curl_session_count' = Cardinality(WithHandle')
  BY <1>1, <1>5, <1>9 DEF Types, SlotPart
<1>12. SlotPart'
  BY <1>1, <1>5, <1>6, <1>8, <1>10, <1>11, SlotsStand
<1>13. ObjPart'
  <2>1. ObjTypes' /\ \A o \in Obj : SameService(o)
    BY <1>1 DEF ObjPart, ObjTypes, SameService
  <2> QED
    BY <1>1, <1>5, <1>6, <1>8, <1>10, <2>1, RequestsKept
<1> QED
  BY <1>3, <1>5, <1>8, <1>12, <1>13

\* A call below the innermost one is written to.
AmendedTo(t, f, c) ==
    /\ t \in Seq(CallType) /\ Len(t) = Depth - 1 /\ t[f] = c
    /\ \A d \in 1 .. Depth - 1 : d # f => t[d] = stack[d]

\* Only that call changes.
LEMMA Amended ==
    ASSUME CallPart, NEW f \in 1 .. Depth - 1, NEW c \in CallType
    PROVE  AmendedTo([Below EXCEPT ![f] = c], f, c)
<1> DEFINE t == [Below EXCEPT ![f] = c]
<1>1. /\ Below \in Seq(CallType) /\ Len(Below) = Depth - 1 /\ Depth \in Nat /\ Depth >= 1
      /\ \A d \in 1 .. Depth - 1 : Below[d] = stack[d]
  BY StackFacts
<1>2. t \in Seq(CallType) /\ Len(t) = Len(Below)
  BY <1>1
<1>3. DOMAIN Below = 1 .. Depth - 1
  BY <1>1
<1>4. t[f] = c /\ \A d \in 1 .. Depth - 1 : d # f => t[d] = stack[d]
  BY <1>1, <1>2, <1>3
<1> QED
  BY <1>1, <1>2, <1>4 DEF AmendedTo

\* run_active_slot() returns what it has been told, or goes round again.
LEMMA RunStep == ASSUME HwInv, run_active_slot PROVE HwInv'
<1>1. /\ CallPart /\ WaitPart /\ Covered /\ AskPart /\ ObjPart /\ Top.pc = "run"
      /\ \A s \in InUse : WaiterOK(s)
      /\ UNCHANGED <<registered, pending, queue, origin, lost>>
      /\ UNCHANGED <<active_requests, curl_session_count>>
      /\ UNCHANGED <<obj_req, got_alternates, alts, has>>
  BY DEF HwInv, run_active_slot, multiVars, walkVars, At
<1>2. /\ Depth \in Nat /\ Depth >= 2 /\ Top = stack[Depth] /\ Top \in CallType
      /\ Top.slot \in Slots /\ Top.res \in Outcomes /\ Top.pc \notin OnTop
      /\ \A p \in Obj : obj_req[p].state # "WAITING"
  <2>1. /\ Depth \in Nat /\ Depth >= 1 /\ Top = stack[Depth] /\ Top \in CallType
        /\ CallOK(Depth)
    BY <1>1, StackFacts
  <2>2. Depth # 1 /\ Top.slot \in Slots /\ Top.pc \notin OnTop
    BY <1>1, <2>1 DEF CallOK, OnTop
  <2>3. Top.res \in Outcomes
    BY <2>1 DEF CallType
  <2>4. \A p \in Obj : obj_req[p].state # "WAITING"
    BY <1>1, NotWaiting
  <2> QED
    BY <2>1, <2>2, <2>3, <2>4
<1>3. CASE ~Top.finished
  <2>1. stack' = Append(stack, Call("step")) /\ UNCHANGED slots
    BY <1>3 DEF run_active_slot
  <2>2. "step" \in Plain /\ ObjTypes'
    BY <1>1 DEF Plain, ObjPart, ObjTypes
  <2> QED
    BY <1>1, <1>2, <2>1, <2>2, PlainPush
<1>4. CASE Top.finished
  <2> DEFINE s == Top.slot
             c == [stack[Depth - 1] EXCEPT !.res = Top.res]
  <2>1. /\ slots' = [slots EXCEPT ![s].finished = 0]
        /\ stack' = [Below EXCEPT ![Depth - 1].res = Top.res]
    BY <1>4 DEF run_active_slot
  <2>2. stack[Depth - 1] \in CallType /\ Depth - 1 \in 1 .. Depth - 1
        /\ Below[Depth - 1] = stack[Depth - 1]
    BY <1>1, <1>2, StackFacts
  <2>3. /\ c \in CallType /\ c.pc = stack[Depth - 1].pc /\ c.o = stack[Depth - 1].o
        /\ c.slot = stack[Depth - 1].slot /\ c.finished = stack[Depth - 1].finished
    BY <1>2, <2>2 DEF CallType
  <2>4. stack' = [Below EXCEPT ![Depth - 1] = c]
    BY <2>1, <2>2
  <2> HIDE DEF c
  <2>5. /\ stack' \in Seq(CallType) /\ Len(stack') = Depth - 1 /\ stack'[Depth - 1] = c
        /\ \A d \in 1 .. Depth - 1 : d # Depth - 1 => stack'[d] = stack[d]
    <3>1. AmendedTo(stack', Depth - 1, c)
      BY <1>1, <2>2, <2>3, <2>4, Amended
    <3> QED
      BY <3>1 DEF AmendedTo
  <2>6. Depth' = Depth - 1
    BY <2>5 DEF Depth
  <2>7. Standing(Depth - 1) /\ Untold(Depth - 1)
    BY <1>2, <2>3, <2>5, <2>6 DEF Standing, Untold
  <2>8. /\ Depth' >= 1 /\ Depth - 1 < Depth /\ Returned(Depth - 1)
        /\ \A d \in Depth - 1 + 1 .. Depth' : FALSE
        /\ \A d \in Depth - 1 + 1 .. Depth : ~Drains(stack[d])
    BY <1>1, <1>2, <1>4, <2>6 DEF Returned, Drains, Emptying
  <2>9. Top'.pc \notin OnTop
    BY <1>1, <2>7, <2>8, NewTop
  <2>10. /\ SlotPart' /\ ObjPart' /\ Slots' = Slots /\ InUse' = InUse
         /\ slots'[s].finished = 0 /\ \A t \in Slots \ {s} : slots'[t] = slots[t]
    BY <1>1, <1>2, <2>1, <2>9, WaiterSet
  <2>11. CallPart'
    BY <1>1, <2>7, <2>8, <2>10, CallsStand
  <2>12. Covered'
    BY <1>1, <2>7, <2>8, <2>9, CoverStands DEF OnTop
  <2>13. AskPart'
    <3>1. \A d \in 1 .. Depth - 1 : stack[d].pc \in Asking =>
              obj_req'[stack[d].o].state \in {"WAITING", "COMPLETE"}
      BY <1>1, <1>2 DEF AskPart
    <3> QED
      BY <1>1, <1>2, <2>7, <2>8, <3>1, AskStands
  <2>14. TopPart' /\ WaitPart'
    BY <1>1, <1>2, <2>9 DEF TopPart, WaitPart, At, OnTop
  <2>15. \A t \in InUse' : WaiterOK(t)'
    <3>1. SUFFICES ASSUME NEW t \in InUse
                   PROVE  WaiterOK(t)'
      BY <2>10
    <3>2. CASE t = s
      BY <2>10, <3>2 DEF WaiterOK
    <3>3. CASE t # s
      <4>1. t \in Slots
        BY SlotSets DEF HwInv, SlotPart, Types
      <4> QED
        BY <1>1, <2>7, <2>8, <2>10, <3>3, <4>1, WaiterStands
    <3> QED
      BY <3>2, <3>3
  <2> QED
    BY <2>10, <2>11, <2>12, <2>13, <2>14, <2>15 DEF HwInv
<1> QED
  BY <1>3, <1>4

\* run_active_slot() on a slot.
LEMMA RunningCall ==
    ASSUME NEW s \in Nat
    PROVE  /\ Running(s) \in CallType /\ Running(s).pc = "run" /\ Running(s).slot = s
           /\ ~Running(s).finished
<1>1. Call("run") \in CallType /\ Call("run").pc = "run" /\ ~Call("run").finished
  BY CallTypes DEF PCs
<1> QED
  BY <1>1 DEF Running, CallType

\* fetch_object() runs the slot its request has.
LEMMA AwaitStep == ASSUME HwInv, AwaitRequest PROVE HwInv'
<1> DEFINE o == Top.o
           s == obj_req[o].slot
<1>1. /\ CallPart /\ WaitPart /\ Covered /\ AskPart /\ ObjPart /\ SlotPart /\ Top.pc = "await"
      /\ \A t \in InUse : WaiterOK(t)
      /\ UNCHANGED <<registered, pending, queue, origin, lost>>
      /\ UNCHANGED <<active_requests, curl_session_count>>
      /\ UNCHANGED <<obj_req, got_alternates, alts, has>>
  BY DEF HwInv, AwaitRequest, multiVars, walkVars, At
<1>2. /\ Depth = 2 /\ o \in Obj /\ Top.pc \notin OnTop
      /\ \A p \in Obj : obj_req[p].state # "WAITING"
  BY <1>1, Places, NotWaiting DEF Outer, AboutObject, OnTop
<1>3. /\ obj_req[o].state = "ACTIVE"
      /\ stack' = Append(stack, Running(s))
      /\ slots' = [slots EXCEPT ![s].finished = Depth + 1]
  BY <1>2 DEF AwaitRequest
<1>4. s \in Slots /\ s \in Nat
  BY <1>1, <1>2, <1>3, SlotSets DEF ObjPart, SlotPart, Types
<1> HIDE DEF s
<1>5. /\ Running(s) \in CallType /\ Running(s).pc = "run" /\ Running(s).slot = s
      /\ ~Running(s).finished
  BY <1>4, RunningCall
<1>6. Kept(2) /\ Depth' = 3 /\ stack'[3] = Running(s) /\ Top' = Running(s)
  <2>1. stack' = Append(stack, Running(s))
    BY <1>3
  <2>2. /\ Kept(Depth) /\ Depth' = Depth + 1 /\ stack'[Depth + 1] = Running(s)
        /\ Top' = Running(s)
    BY <1>1, <1>5, <2>1, Pushed
  <2> QED
    BY <1>2, <2>2
<1>7. Standing(2) /\ Untold(2)
  BY <1>6, KeptStands
<1>8. Top'.pc \notin OnTop
  BY <1>5, <1>6 DEF OnTop
<1>9. /\ SlotPart' /\ ObjPart' /\ Slots' = Slots /\ InUse' = InUse
      /\ slots'[s].finished = 3 /\ \A t \in Slots \ {s} : slots'[t] = slots[t]
  <2>1. slots' = [slots EXCEPT ![s].finished = 3]
    BY <1>2, <1>3
  <2> QED
    BY <1>1, <1>2, <1>4, <1>8, <2>1, WaiterSet
<1>10. /\ \A d \in 2 + 1 .. Depth' : d = 3
       /\ \A d \in 2 + 1 .. Depth : FALSE
       /\ Depth' >= 1 /\ Returned(2)
  BY <1>2, <1>6 DEF Returned
<1>11. CallPart'
  <2>1. CallOK(3)'
    BY <1>4, <1>5, <1>6, <1>9 DEF CallOK, OnTop, Inside, Outer, AboutObject, Asking
  <2> QED
    BY <1>1, <1>2, <1>7, <1>9, <1>10, <2>1, CallsStand
<1>12. Covered'
  BY <1>1, <1>7, <1>8, <1>10, CoverStands DEF OnTop
<1>13. AskPart'
  <2>1. \A d \in 1 .. 2 : stack[d].pc \in Asking =>
              obj_req'[stack[d].o].state \in {"WAITING", "COMPLETE"}
    BY <1>1, <1>2 DEF AskPart
  <2>2. \A d \in 2 + 1 .. Depth' : stack'[d].pc \notin Asking
    BY <1>5, <1>6, <1>10 DEF Asking
  <2> QED
    BY <1>1, <1>2, <1>7, <2>1, <2>2, AskStands
<1>14. TopPart' /\ WaitPart'
  BY <1>1, <1>2, <1>8 DEF TopPart, WaitPart, At, OnTop
<1>15. \A t \in InUse' : WaiterOK(t)'
  <2>1. SUFFICES ASSUME NEW t \in InUse
                 PROVE  WaiterOK(t)'
    BY <1>9
  <2>2. CASE t = s
    BY <1>5, <1>6, <1>9, <2>2 DEF WaiterOK, WaitsFor
  <2>3. CASE t # s
    <3>1. t \in Slots
      BY <1>1, SlotSets DEF SlotPart, Types
    <3> QED
      BY <1>1, <1>7, <1>9, <1>10, <2>3, <3>1, WaiterStands
  <2> QED
    BY <2>2, <2>3
<1> QED
  BY <1>9, <1>11, <1>12, <1>13, <1>14, <1>15 DEF HwInv

\* fill_active_slots() gives back the handles of surplus slots; it leaves
\* nothing waiting.
LEMMA FillEndStep == ASSUME HwInv, FillEnd PROVE HwInv'
<1>1. /\ CallPart /\ WaitPart /\ Covered /\ AskPart /\ ObjPart /\ SlotPart /\ Types
      /\ Top.pc = "fill" /\ Return /\ \A t \in InUse : WaiterOK(t)
  BY DEF HwInv, FillEnd, At, SlotPart
<1>2. /\ active_requests >= max_requests \/ Startable = {}
      /\ obj_req' = [o \in Obj |-> IF o \in Arrived /\ active_requests < max_requests
                                 THEN [obj_req[o] EXCEPT !.state = "COMPLETE"]
                                 ELSE obj_req[o]]
      /\ slots' = [s \in DOMAIN slots |-> IF s \in Surplus
                                        THEN [slots[s] EXCEPT !.curl = NULL]
                                        ELSE slots[s]]
      /\ curl_session_count' = curl_session_count - Cardinality(Surplus)
      /\ UNCHANGED <<registered, pending, queue, origin, lost>>
      /\ UNCHANGED active_requests /\ UNCHANGED <<got_alternates, alts, has>>
  BY DEF FillEnd, multiVars
<1>3. \A o \in Obj : obj_req[o].state # "WAITING"
  <2>1. SUFFICES ASSUME NEW o \in Obj, obj_req[o].state = "WAITING"
                 PROVE  FALSE
    OBVIOUS
  <2>2. o \notin has /\ active_requests < max_requests
    BY <1>1, <2>1 DEF WaitPart
  <2>3. o \in Startable
    BY <2>1, <2>2 DEF Startable
  <2> QED
    BY <1>1, <1>2, <2>2, <2>3, Basics DEF Types
<1>4. obj_req' = obj_req
  <2>1. Arrived = {}
    BY <1>1, <1>3 DEF Arrived, ObjPart, ObjTypes
  <2>2. obj_req = [p \in Obj |-> obj_req[p]]
    BY <1>1 DEF ObjPart, ObjTypes
  <2> QED
    BY <1>2, <2>1, <2>2
<1>5. /\ slots \in Seq(SlotType) /\ Len(slots) \in Nat /\ DOMAIN slots = Slots
      /\ \A s \in Slots : slots[s] \in SlotType
      /\ InUse \subseteq Slots /\ IsFiniteSet(WithHandle)
  BY <1>1, SlotSets DEF Types
<1>6. \A s \in Slots : /\ slots'[s] \in SlotType
                       /\ slots'[s].in_use = slots[s].in_use /\ slots'[s].of = slots[s].of
                       /\ slots'[s].callback = slots[s].callback
                       /\ slots'[s].finished = slots[s].finished
                       /\ slots'[s].curl = IF s \in Surplus THEN NULL ELSE slots[s].curl
  <2>1. SUFFICES ASSUME NEW s \in Slots
                 PROVE  /\ slots'[s] \in SlotType
                        /\ slots'[s].in_use = slots[s].in_use /\ slots'[s].of = slots[s].of
                        /\ slots'[s].callback = slots[s].callback
                        /\ slots'[s].finished = slots[s].finished
                        /\ slots'[s].curl = IF s \in Surplus THEN NULL ELSE slots[s].curl
    OBVIOUS
  <2>2. slots[s] \in SlotType
    BY <1>5
  <2>3. CASE s \in Surplus
    <3>1. slots'[s] = [slots[s] EXCEPT !.curl = NULL]
      BY <1>2, <1>5, <2>3
    <3> QED
      BY <2>2, <2>3, <3>1 DEF SlotType
  <2>4. CASE s \notin Surplus
    <3>1. slots'[s] = slots[s]
      BY <1>2, <1>5, <2>4
    <3> QED
      BY <2>2, <2>4, <3>1
  <2> QED
    BY <2>3, <2>4
<1>7. slots' \in Seq(SlotType) /\ Slots' = Slots /\ DOMAIN slots' = Slots
  <2>1. slots' = [s \in 1 .. Len(slots) |-> slots'[s]]
    BY <1>2, <1>5 DEF Slots
  <2>2. \A s \in 1 .. Len(slots) : slots'[s] \in SlotType
    BY <1>6 DEF Slots
  <2>3. slots' \in Seq(SlotType) /\ Len(slots') = Len(slots)
    BY <1>5, <2>1, <2>2
  <2> QED
    BY <2>3 DEF Slots
<1>8. InUse' = InUse
  BY <1>5, <1>6, <1>7 DEF InUse
<1>9. Surplus \subseteq WithHandle /\ Surplus \cap InUse = {}
  BY <1>5 DEF Surplus, Idle, WithHandle
<1>10. WithHandle' = WithHandle \ Surplus
  BY <1>6, <1>7 DEF WithHandle
<1>11. curl_session_count' = Cardinality(WithHandle') /\ curl_session_count' \in Nat
  <2>1. IsFiniteSet(Surplus) /\ WithHandle \cap Surplus = Surplus
    BY <1>5, <1>9, FS_Subset
  <2>2. Cardinality(WithHandle') = Cardinality(WithHandle) - Cardinality(Surplus)
    <3>1. Cardinality(WithHandle \ Surplus)
            = Cardinality(WithHandle) - Cardinality(WithHandle \cap Surplus)
      BY <1>5, <2>1, FS_Difference
    <3> QED
      BY <1>10, <2>1, <3>1
  <2>3. IsFiniteSet(WithHandle')
    BY <1>5, <1>10, FS_Subset
  <2>4. Cardinality(WithHandle') \in Nat
    BY <2>3, FS_CardinalityType
  <2> QED
    BY <1>1, <1>2, <2>2, <2>4 DEF SlotPart
<1>12. Types'
  BY <1>1, <1>2, <1>7, <1>11 DEF Types
<1>13. Depth >= 2 /\ Depth \in Nat /\ Top = stack[Depth]
  BY <1>1, Places, StackFacts
<1>14. /\ Standing(Depth - 1) /\ Untold(Depth - 1) /\ Depth' = Depth - 1
       /\ Depth' >= 1 /\ Depth - 1 < Depth
  BY <1>1, <1>13, Popped, KeptStands
<1>15. /\ \A d \in Depth - 1 + 1 .. Depth' : FALSE
       /\ Returned(Depth - 1)
       /\ \A d \in Depth - 1 + 1 .. Depth : ~Drains(stack[d])
  BY <1>1, <1>13, <1>14 DEF Returned, Drains, Emptying
<1>16. Top'.pc \notin OnTop
  BY <1>1, <1>14, <1>15, NewTop
<1>17. /\ pending = {} /\ Finishing = {} /\ Finishing' = {}
       /\ Answering = {} /\ Answering' = {}
  BY <1>1, <1>16 DEF SlotPart, Finishing, Answering, At, OnTop
<1>18. SlotPart'
  <2>1. \A s \in InUse : slots'[s].curl = slots[s].curl /\ slots'[s].of = slots[s].of
    BY <1>5, <1>6, <1>9
  <2>2. \A s \in Slots : slots'[s].curl \in {slots[s].curl, NULL}
    BY <1>6
  <2> QED
    BY <1>1, <1>2, <1>7, <1>8, <1>11, <1>12, <1>17, <2>1, <2>2, SlotsStand
<1>19. ObjPart'
  <2>1. ObjTypes' /\ \A o \in Obj : SameService(o)
    BY <1>1, <1>2, <1>4 DEF ObjPart, ObjTypes, SameService
  <2> QED
    BY <1>1, <1>6, <1>7, <1>8, <1>17, <2>1, RequestsKept
<1>20. CallPart'
  BY <1>1, <1>7, <1>14, <1>15, CallsStand
<1>21. Covered'
  BY <1>1, <1>2, <1>14, <1>15, <1>16, CoverStands DEF OnTop
<1>22. AskPart'
  <2>1. \A d \in 1 .. Depth - 1 : stack[d].pc \in Asking =>
              obj_req'[stack[d].o].state \in {"WAITING", "COMPLETE"}
    BY <1>1, <1>4, <1>13 DEF AskPart
  <2> QED
    BY <1>1, <1>13, <1>14, <1>15, <2>1, AskStands
<1>23. TopPart' /\ WaitPart'
  BY <1>3, <1>4, <1>16 DEF TopPart, WaitPart, At, OnTop
<1>24. \A t \in InUse' : WaiterOK(t)'
  BY <1>1, <1>5, <1>6, <1>8, <1>14, <1>15, WaiterStands
<1> QED
  BY <1>18, <1>19, <1>20, <1>21, <1>22, <1>23, <1>24 DEF HwInv

-----------------------------------------------------------------------------
(* Taking a slot *)

\* The slot is not in use; it is one of those there are, or the next.
LEMMA FreeSlotFacts ==
    ASSUME slots \in Seq(SlotType)
    PROVE  /\ FreeSlot \in Nat /\ FreeSlot > 0 /\ FreeSlot \notin InUse
           /\ FreeSlot \in Slots \/ FreeSlot = Len(slots) + 1
<1> DEFINE S == (DOMAIN slots \cup {Len(slots) + 1}) \ InUse
<1>1. /\ Len(slots) \in Nat /\ DOMAIN slots = Slots /\ InUse \subseteq Slots
      /\ \A s \in Slots : s \in Nat /\ s > 0
  BY SlotSets
<1>2. Len(slots) + 1 \in S
  <2>1. Len(slots) + 1 \notin Slots
    BY <1>1 DEF Slots
  <2> QED
    BY <1>1, <2>1
<1>3. S \subseteq Nat
  BY <1>1
<1>4. First(S) \in S
  BY <1>2, <1>3, FirstIn
<1> QED
  BY <1>1, <1>4 DEF FreeSlot

\* What get_active_slot() leaves in the slots.
LEMMA Occupation ==
    ASSUME slots \in Seq(SlotType), NEW s \in Nat, s \in Slots \/ s = Len(slots) + 1,
           NEW h \in Handles, NEW of \in Requests, NEW callback \in Callbacks,
           NEW waiter \in Nat, slots' = Occupied(s, h, of, callback, waiter)
    PROVE  /\ slots' \in Seq(SlotType) /\ Slots' = Slots \cup {s} /\ DOMAIN slots' = Slots'
           /\ slots'[s] = [curl |-> h, in_use |-> TRUE, of |-> of, callback |-> callback,
                           finished |-> waiter, result |-> "none"]
           /\ \A t \in Slots \ {s} : slots'[t] = slots[t]
<1> DEFINE v == [curl |-> h, in_use |-> TRUE, of |-> of, callback |-> callback,
                 finished |-> waiter, result |-> "none"]
<1>1. Len(slots) \in Nat /\ DOMAIN slots = Slots
  BY SlotSets
<1>2. v \in SlotType
  BY DEF SlotType, Outcomes
<1>3. slots' = IF s \in DOMAIN slots THEN [slots EXCEPT ![s] = v] ELSE Append(slots, v)
  BY DEF Occupied
<1> HIDE DEF v
<1>4. CASE s \in Slots
  <2>1. slots' = [slots EXCEPT ![s] = v]
    BY <1>1, <1>3, <1>4
  <2>2. /\ slots' \in Seq(SlotType) /\ Slots' = Slots /\ slots'[s] = v
        /\ \A t \in Slots \ {s} : slots'[t] = slots[t]
    BY <1>2, <1>4, <2>1, SlotWritten
  <2> QED
    BY <1>4, <2>2 DEF v, Slots
<1>5. CASE s \notin Slots
  <2>1. slots' = Append(slots, v) /\ s = Len(slots) + 1
    BY <1>1, <1>3, <1>5
  <2>2. slots' \in Seq(SlotType) /\ Len(slots') = s /\ slots'[s] = v
    BY <1>1, <1>2, <2>1
  <2>3. \A t \in Slots : slots'[t] = slots[t]
    BY <1>1, <2>1 DEF Slots
  <2>4. Slots' = Slots \cup {s} /\ DOMAIN slots' = Slots'
    BY <1>1, <2>1, <2>2 DEF Slots
  <2> QED
    BY <2>2, <2>3, <2>4 DEF v
<1> QED
  BY <1>4, <1>5

\* The slot becomes the one whose transfer is to be run.
LEMMA SlotTaken ==
    ASSUME SlotPart, NEW of \in Requests, NEW callback \in Callbacks, NEW waiter \in Nat,
           get_active_slot(of, callback, waiter),
           Top.pc \notin {"finish", "perform"}, Top'.pc = "perform",
           NEW s, s = FreeSlot
    PROVE  /\ SlotPart' /\ s \in Nat /\ s \notin InUse
           /\ Slots' = Slots \cup {s} /\ InUse' = InUse \cup {s}
           /\ slots'[s].callback = callback /\ slots'[s].finished = waiter
           /\ \A t \in Slots \ {s} : slots'[t] = slots[t]
<1>1. /\ Types /\ slots \in Seq(SlotType) /\ pending = {} /\ Finishing = {} /\ Finishing' = {}
  BY DEF SlotPart, Types, Finishing, At
<1>2. /\ Len(slots) \in Nat /\ DOMAIN slots = Slots /\ InUse \subseteq Slots
      /\ IsFiniteSet(InUse) /\ IsFiniteSet(WithHandle)
      /\ \A t \in Slots : slots[t] \in SlotType
  BY <1>1, SlotSets
<1>3. s \in Nat /\ s > 0 /\ s \notin InUse /\ (s \in Slots \/ s = Len(slots) + 1)
  BY <1>1, FreeSlotFacts
<1>4. /\ active_requests < max_requests
      /\ curl_session_count' = curl_session_count + (IF OldHandle(s) = NULL THEN 1 ELSE 0)
      /\ active_requests' = active_requests + 1
      /\ UNCHANGED <<origin, lost>>
  BY DEF get_active_slot
<1>5. PICK h \in IF OldHandle(s) # NULL THEN { OldHandle(s) }
                 ELSE Handles \ { slots[t].curl : t \in DOMAIN slots } :
        /\ slots' = Occupied(s, h, of, callback, waiter)
        /\ M!Register(h)
  BY DEF get_active_slot
<1>6. /\ h \notin registered /\ registered' = registered \cup {h} /\ pending' = {h}
      /\ UNCHANGED queue
  BY <1>1, <1>5 DEF M!Register
<1>7. h \in Handles /\ h # NULL /\ (OldHandle(s) # NULL => s \in Slots /\ slots[s].curl = h)
      /\ (OldHandle(s) = NULL => \A t \in Slots : slots[t].curl # h)
  BY <1>2, <1>5, Basics DEF OldHandle, SlotType
<1>8. OldHandle(s) = NULL <=> s \notin WithHandle
  BY <1>2 DEF OldHandle, WithHandle
<1> DEFINE v == [curl |-> h, in_use |-> TRUE, of |-> of, callback |-> callback,
                 finished |-> waiter, result |-> "none"]
<1>9. /\ slots' \in Seq(SlotType) /\ Slots' = Slots \cup {s} /\ DOMAIN slots' = Slots'
      /\ slots'[s] = v /\ \A t \in Slots \ {s} : slots'[t] = slots[t]
  BY <1>1, <1>3, <1>5, <1>7, Occupation
<1>10. /\ v.curl = h /\ v.in_use = TRUE /\ v.of = of /\ v.callback = callback
       /\ v.finished = waiter
  OBVIOUS
<1> HIDE DEF v
<1>11. InUse' = InUse \cup {s}
  BY <1>2, <1>9, <1>10 DEF InUse
<1>12. \A t \in InUse : slots'[t] = slots[t] /\ slots[t].curl \in registered /\ slots[t].curl # h
  BY <1>2, <1>3, <1>6, <1>9 DEF SlotPart
<1>13. WithHandle' = WithHandle \cup {s}
  BY <1>2, <1>7, <1>9, <1>10 DEF WithHandle
<1>14. /\ active_requests' = Cardinality(InUse') /\ active_requests' <= max_requests
       /\ active_requests' \in Nat
  <2>1. Cardinality(InUse') = Cardinality(InUse) + 1
    BY <1>2, <1>3, <1>11, FS_AddElement
  <2> QED
    BY <1>1, <1>4, <2>1, Basics DEF SlotPart, Types
<1>15. curl_session_count' = Cardinality(WithHandle') /\ curl_session_count' \in Nat
  <2>1. CASE s \in WithHandle
    <3>1. WithHandle' = WithHandle
      BY <1>13, <2>1
    <3> QED
      BY <1>1, <1>4, <1>8, <2>1, <3>1 DEF SlotPart, Types
  <2>2. CASE s \notin WithHandle
    <3>1. Cardinality(WithHandle') = Cardinality(WithHandle) + 1
      BY <1>2, <1>13, <2>2, FS_AddElement
    <3> QED
      BY <1>1, <1>4, <1>8, <2>2, <3>1 DEF SlotPart, Types
  <2> QED
    BY <2>1, <2>2
<1>16. Types'
  BY <1>1, <1>4, <1>6, <1>7, <1>9, <1>14, <1>15 DEF Types
<1>17. \A a, b \in Slots' : slots'[a].curl = slots'[b].curl /\ slots'[a].curl # NULL => a = b
  <2>1. \A t \in Slots \ {s} : slots[t].curl # h
    BY <1>7 DEF SlotPart
  <2>2. \A a, b \in Slots \ {s} : slots[a].curl = slots[b].curl /\ slots[a].curl # NULL => a = b
    BY DEF SlotPart
  <2> QED
    BY <1>9, <1>10, <2>1, <2>2
<1>18. registered' = { slots'[t].curl : t \in InUse' } /\ \A t \in InUse' : slots'[t].curl # NULL
  BY <1>6, <1>7, <1>9, <1>10, <1>11, <1>12 DEF SlotPart
<1>19. \A i \in 1 .. Len(queue') : \E t \in InUse' :
          slots'[t].curl = queue'[i].easy /\ slots'[t].of = origin'[i]
  BY <1>4, <1>6, <1>11, <1>12 DEF SlotPart
<1>20. Queued' = Queued /\ h \notin Queued
  BY <1>6, <1>12 DEF Queued, SlotPart
<1>21. Silent' = Silent
  <2>1. s \notin Silent'
    BY <1>6, <1>9, <1>10 DEF Silent
  <2>2. \A t \in InUse : t \in Silent' <=> t \in Silent
    BY <1>1, <1>6, <1>11, <1>12, <1>20 DEF Silent
  <2>3. Silent \subseteq InUse /\ Silent' \subseteq InUse'
    BY DEF Silent
  <2> QED
    BY <1>3, <1>11, <2>1, <2>2, <2>3
<1>22. pending' \cap Queued' = {} /\ (pending' # {} => At("perform")' /\ \E g \in Handles : pending' = {g})
  BY <1>6, <1>7, <1>20 DEF At
<1>23. \A i, j \in 1 .. Len(queue') : queue'[i].easy = queue'[j].easy => i = j
  BY <1>6 DEF SlotPart
<1>24. Cardinality(Silent') <= lost'
  BY <1>4, <1>21 DEF SlotPart
<1>25. SlotPart'
  BY <1>1, <1>14, <1>15, <1>16, <1>17, <1>18, <1>19, <1>22, <1>23, <1>24 DEF SlotPart
<1> QED
  BY <1>3, <1>9, <1>10, <1>11, <1>25

\* Callbacks are told apart by what they are for.
LEMMA CallbackFacts ==
    /\ \A o \in Obj : /\ <<"object", o>> \in Callbacks
                      /\ <<"object", o>>[1] = "object" /\ <<"object", o>>[2] = o
                      /\ <<"object", o>> # <<"alternates">> /\ <<"object", o>> # Nobody
    /\ \A o, p \in Obj : <<"object", o>> = <<"object", p>> => o = p
    /\ <<"alternates">> \in Callbacks /\ Nobody \in Callbacks
    /\ <<"alternates">>[1] = "alternates" /\ Nobody[1] = "none"
<1>1. /\ <<"alternates">> \in Callbacks /\ Nobody \in Callbacks
      /\ <<"alternates">>[1] = "alternates" /\ Nobody[1] = "none"
  BY DEF Callbacks, Nobody
<1>2. \A o \in Obj : /\ <<"object", o>> \in Callbacks
                     /\ <<"object", o>>[1] = "object" /\ <<"object", o>>[2] = o
  BY DEF Callbacks
<1> QED
  BY <1>1, <1>2

\* A slot taken for anything but an object serves none.
LEMMA OtherSlotTaken ==
    ASSUME ObjPart, ObjTypes', UNCHANGED obj_req, NEW s, s \notin InUse,
           InUse \subseteq Slots,
           Slots' = Slots \cup {s}, InUse' = InUse \cup {s},
           slots'[s].callback \in {<<"alternates">>, Nobody},
           \A t \in Slots \ {s} : slots'[t] = slots[t],
           Answering = {}, Answering' = {}
    PROVE  ObjPart'
<1>1. \A o \in Obj : ~Serves(s, o)'
  BY CallbackFacts DEF Serves
<1>2. \A o \in Obj, t \in Slots : t # s => (Serves(t, o)' <=> Serves(t, o))
  BY DEF Serves
<1>3. \A o \in Obj : ~Serves(s, o)
  BY DEF Serves
<1>4. \A o \in Obj, t \in Slots' :
          Serves(t, o)' => obj_req'[o].state = "ACTIVE" /\ obj_req'[o].slot = t
  BY <1>1, <1>2 DEF ObjPart
<1>5. \A o \in Obj : obj_req'[o].state = "ACTIVE" =>
          obj_req'[o].slot \in Slots' /\ Serves(obj_req[o].slot, o)'
  BY <1>2, <1>3 DEF ObjPart
<1>6. \A o \in Obj : obj_req'[o].state # "ACTIVE" => obj_req'[o].slot = 0
  BY DEF ObjPart
<1> QED
  BY <1>4, <1>5, <1>6 DEF ObjPart

\* A slot taken for an object that no slot serves.
LEMMA ObjectSlotTaken ==
    ASSUME ObjPart, NEW o \in Obj, obj_req[o].state # "ACTIVE",
           NEW s \in Nat, s \notin InUse, InUse \subseteq Slots,
           obj_req' = [obj_req EXCEPT ![o].state = "ACTIVE", ![o].slot = s],
           UNCHANGED <<got_alternates, alts, has>>,
           Slots' = Slots \cup {s}, InUse' = InUse \cup {s},
           slots'[s].callback = <<"object", o>>,
           \A t \in Slots \ {s} : slots'[t] = slots[t],
           Answering = {}, Answering' = {}
    PROVE  /\ ObjPart' /\ obj_req'[o].state = "ACTIVE"
           /\ \A p \in Obj \ {o} : obj_req'[p] = obj_req[p]
<1> DEFINE r == [obj_req[o] EXCEPT !.state = "ACTIVE", !.slot = s]
<1>1. ObjTypes /\ obj_req \in [Obj -> ReqType] /\ obj_req[o] \in ReqType
  BY DEF ObjPart, ObjTypes
<1>2. r \in ReqType /\ r.state = "ACTIVE" /\ r.slot = s
  BY <1>1 DEF ReqType
<1>3. obj_req' = [obj_req EXCEPT ![o] = r]
  BY <1>1
<1> HIDE DEF r
<1>4. /\ obj_req' \in [Obj -> ReqType] /\ obj_req'[o] = r
      /\ \A p \in Obj \ {o} : obj_req'[p] = obj_req[p]
  BY <1>1, <1>2, <1>3, RequestType
<1>5. ObjTypes'
  BY <1>1, <1>4 DEF ObjTypes
<1>6. Serves(s, o)' /\ \A p \in Obj : p # o => ~Serves(s, p)'
  BY CallbackFacts DEF Serves
<1>7. \A p \in Obj, t \in Slots : t # s => (Serves(t, p)' <=> Serves(t, p))
  BY DEF Serves
<1>8. \A p \in Obj : ~Serves(s, p)
  BY DEF Serves
<1>9. \A t \in Slots : ~Serves(t, o)
  BY DEF ObjPart
<1>10. \A p \in Obj, t \in Slots' :
          Serves(t, p)' => obj_req'[p].state = "ACTIVE" /\ obj_req'[p].slot = t
  <2>1. SUFFICES ASSUME NEW p \in Obj, NEW t \in Slots', Serves(t, p)'
                 PROVE  obj_req'[p].state = "ACTIVE" /\ obj_req'[p].slot = t
    OBVIOUS
  <2>2. CASE p = o
    BY <1>2, <1>4, <1>7, <1>9, <2>1, <2>2
  <2>3. CASE p # o
    BY <1>4, <1>6, <1>7, <2>1, <2>3 DEF ObjPart
  <2> QED
    BY <2>2, <2>3
<1>11. \A p \in Obj : obj_req'[p].state = "ACTIVE" =>
          obj_req'[p].slot \in Slots' /\ Serves(obj_req[p].slot, p)'
  <2>1. SUFFICES ASSUME NEW p \in Obj, obj_req'[p].state = "ACTIVE"
                 PROVE  obj_req'[p].slot \in Slots' /\ Serves(obj_req[p].slot, p)'
    OBVIOUS
  <2>2. CASE p = o
    BY <1>2, <1>4, <1>6, <2>2
  <2>3. CASE p # o
    BY <1>4, <1>7, <1>8, <2>1, <2>3 DEF ObjPart
  <2> QED
    BY <2>2, <2>3
<1>12. \A p \in Obj : obj_req'[p].state # "ACTIVE" => obj_req'[p].slot = 0
  BY <1>2, <1>4 DEF ObjPart
<1> QED
  BY <1>2, <1>4, <1>5, <1>10, <1>11, <1>12 DEF ObjPart

\* Requests as they are kept in a slot.
LEMMA RequestTypes ==
    /\ \A o \in Obj, n \in Nat : /\ <<"object", o, n>> \in Requests
                                 /\ <<"pack", o, n>> \in Requests
    /\ <<"alternates", 1>> \in Requests /\ <<"alternates", 2>> \in Requests
BY DEF Requests

\* start_object_request(): the only call that asks for the object.
LEMMA StartObjectStep == ASSUME HwInv, start_object_request PROVE HwInv'
<1> DEFINE o == Top.o
           of == <<"object", o, obj_req[o].repo>>
           callback == <<"object", o>>
<1>1. /\ CallPart /\ WaitPart /\ Covered /\ AskPart /\ ObjPart /\ SlotPart /\ Types
      /\ Top.pc = "start" /\ \A t \in InUse : WaiterOK(t)
  BY DEF HwInv, start_object_request, At, SlotPart
<1>2. /\ get_active_slot(of, callback, 0)
      /\ obj_req' = [obj_req EXCEPT ![o].state = "ACTIVE", ![o].slot = FreeSlot]
      /\ UNCHANGED <<got_alternates, alts, has>>
  BY DEF start_object_request
<1>3. /\ o \in Obj /\ Depth \in Nat /\ Depth >= 2 /\ Top = stack[Depth]
      /\ Depth \in 1 .. Depth
      /\ \E c \in 1 .. Depth - 1 : stack[c].pc \in Emptying
  BY <1>1, Places, StackFacts DEF AboutObject, CallOK, Asking
<1>4. obj_req[o].state \in {"WAITING", "COMPLETE"} /\ obj_req[o].repo \in Nat
  <2>1. obj_req[o] \in ReqType
    BY <1>1, <1>3 DEF ObjPart, ObjTypes
  <2> QED
    BY <1>1, <1>3, <2>1 DEF AskPart, Asking, ReqType
<1>5. of \in Requests /\ callback \in Callbacks
  BY <1>3, <1>4, RequestTypes, CallbackFacts
<1>6. /\ Call("perform") \in CallType /\ Call("perform").pc = "perform"
  BY CallTypes DEF PCs
<1>7. Become(<< Call("perform") >>)
  <2>1. Become(<<>> \o << Call("perform") >>)
    BY <1>2 DEF get_active_slot
  <2>2. <<>> \o << Call("perform") >> = << Call("perform") >>
    BY <1>6
  <2> QED
    BY <2>1, <2>2 DEF Become
<1>8. /\ Kept(Depth - 1) /\ Standing(Depth - 1) /\ Untold(Depth - 1)
      /\ Depth' = Depth /\ stack'[Depth].pc = "perform" /\ Top'.pc = "perform"
  BY <1>1, <1>6, <1>7, Replaced, KeptStands
<1> HIDE DEF of, callback
<1>9. PICK s : s = FreeSlot
  OBVIOUS
<1>10. /\ SlotPart' /\ s \in Nat /\ s \notin InUse
       /\ Slots' = Slots \cup {s} /\ InUse' = InUse \cup {s}
       /\ slots'[s].callback = callback /\ slots'[s].finished = 0
       /\ \A t \in Slots \ {s} : slots'[t] = slots[t]
  BY <1>1, <1>2, <1>5, <1>8, <1>9, SlotTaken
<1>11. Answering = {} /\ Answering' = {}
  BY <1>1, <1>8 DEF Answering, At
<1>12. InUse \subseteq Slots
  BY <1>1, SlotSets DEF Types
<1>13. /\ ObjPart' /\ obj_req'[o].state = "ACTIVE"
       /\ \A p \in Obj \ {o} : obj_req'[p] = obj_req[p]
  BY <1>1, <1>2, <1>3, <1>4, <1>9, <1>10, <1>11, <1>12, ObjectSlotTaken DEF callback
<1>14. /\ Depth' >= 1 /\ Depth - 1 < Depth /\ Returned(Depth - 1)
       /\ \A d \in Depth - 1 + 1 .. Depth' : d = Depth
  BY <1>1, <1>3, <1>8 DEF Returned
<1>15. CallPart'
  <2>1. \A d \in Depth - 1 + 1 .. Depth' : CallOK(d)'
    <3>1. SUFFICES ASSUME NEW d \in Nat, d = Depth
                   PROVE  CallOK(d)'
      BY <1>3, <1>14
    <3>2. stack'[d].pc = "perform" /\ d # 1 /\ d = Depth'
      BY <1>3, <1>8, <3>1
    <3> QED
      BY <3>2 DEF CallOK, OnTop, Inside, Outer, AboutObject, Asking
  <2> QED
    BY <1>1, <1>8, <1>10, <1>14, <2>1, CallsStand
<1>16. Covered'
  <2>1. PICK c \in 1 .. Depth - 1 : stack[c].pc \in Emptying
    BY <1>3
  <2>2. stack'[c].pc \in Emptying /\ c \in 1 .. Depth'
    BY <1>3, <1>8, <2>1 DEF Standing
  <2> QED
    BY <2>2, CoveredBy
<1>17. AskPart'
  <2>1. \A d \in 1 .. Depth - 1 : stack[d].pc \in Asking =>
              obj_req'[stack[d].o].state \in {"WAITING", "COMPLETE"}
    <3>1. SUFFICES ASSUME NEW d \in 1 .. Depth - 1, stack[d].pc \in Asking
                   PROVE  obj_req'[stack[d].o].state \in {"WAITING", "COMPLETE"}
      OBVIOUS
    <3>2. d \in 1 .. Depth /\ d # Depth
      BY <1>3
    <3>3. stack[d].o # o /\ obj_req[stack[d].o].state \in {"WAITING", "COMPLETE"}
      BY <1>1, <1>3, <3>1, <3>2 DEF AskPart, Asking
    <3>4. stack[d].o \in Obj
      BY <1>1, <3>1, <3>2 DEF CallPart, CallOK, AboutObject, Asking
    <3> QED
      BY <1>13, <3>3, <3>4
  <2>2. \A d \in Depth - 1 + 1 .. Depth' : stack'[d].pc \notin Asking
    BY <1>8, <1>14 DEF Asking
  <2> QED
    BY <1>1, <1>3, <1>8, <2>1, <2>2, AskStands
<1>18. TopPart'
  BY <1>8 DEF TopPart, At
<1>19. WaitPart'
  <2>1. \A p \in Obj : obj_req[p].state = "WAITING" => p = o
    <3>1. SUFFICES ASSUME NEW p \in Obj, obj_req[p].state = "WAITING"
                   PROVE  p = o
      OBVIOUS
    <3>2. /\ Depth \in {3, 4} /\ stack[3].pc = "fill"
          /\ Depth = 4 => Top.o = p
      BY <1>1, <3>1 DEF WaitPart
    <3> QED
      BY <1>1, <1>3, <3>2
  <2> QED
    BY <1>13, <2>1 DEF WaitPart
<1>20. \A t \in InUse' : WaiterOK(t)'
  <2>1. SUFFICES ASSUME NEW t \in InUse'
                 PROVE  WaiterOK(t)'
    OBVIOUS
  <2>2. CASE t = s
    BY <1>10, <2>2 DEF WaiterOK
  <2>3. CASE t # s
    <3>1. t \in InUse /\ slots'[t] = slots[t]
      BY <1>10, <1>12, <2>1, <2>3
    <3> QED
      BY <1>1, <1>8, <1>14, <3>1, WaiterStands
  <2> QED
    BY <2>2, <2>3
<1> QED
  BY <1>10, <1>13, <1>15, <1>16, <1>17, <1>18, <1>19, <1>20 DEF HwInv

\* A request that is run to its end: for the list of alternates or a pack.
LEMMA RunStarted ==
    ASSUME HwInv, NEW of \in Requests, NEW callback \in {<<"alternates">>, Nobody},
           Top.pc \in {"alternates_start", "pack_start"},
           get_active_slot(of, callback, Depth),
           UNCHANGED <<obj_req, got_alternates, alts, has>>
    PROVE  HwInv'
<1>1. /\ CallPart /\ WaitPart /\ Covered /\ AskPart /\ ObjPart /\ SlotPart /\ Types
      /\ \A t \in InUse : WaiterOK(t)
  BY DEF HwInv, SlotPart
<1>2. /\ Depth \in Nat /\ Depth >= 2 /\ Top = stack[Depth]
      /\ \A p \in Obj : obj_req[p].state # "WAITING"
  BY <1>1, Places, StackFacts, NotWaiting
<1>3. callback \in Callbacks
  BY CallbackFacts
<1>4. PICK s : s = FreeSlot
  OBVIOUS
<1>5. s \in Nat
  BY <1>1, <1>4, FreeSlotFacts DEF Types
<1> DEFINE c == Running(s)
           e == Call("perform")
<1>6. /\ c \in CallType /\ c.pc = "run" /\ c.slot = s /\ ~c.finished
      /\ e \in CallType /\ e.pc = "perform"
  BY <1>5, CallTypes, RunningCall DEF PCs
<1>7. Become(<<c, e>>)
  <2>1. Become(<< c >> \o << e >>)
    BY <1>2, <1>4 DEF get_active_slot
  <2> HIDE DEF c, e
  <2>2. << c >> \o << e >> = <<c, e>>
    <3> DEFINE one == << c >>
               two == << e >>
               both == <<c, e>>
    <3>1. /\ one \in Seq(CallType) /\ Len(one) = 1 /\ one[1] = c
          /\ two \in Seq(CallType) /\ Len(two) = 1 /\ two[1] = e
          /\ both \in Seq(CallType) /\ Len(both) = 2 /\ both[1] = c /\ both[2] = e
      BY <1>6
    <3> HIDE DEF one, two, both
    <3>2. /\ one \o two \in Seq(CallType) /\ Len(one \o two) = Len(one) + Len(two)
          /\ \A i \in 1 .. Len(one) + Len(two) :
                (one \o two)[i] = IF i <= Len(one) THEN one[i] ELSE two[i - Len(one)]
      <4>1. one \in Seq(CallType) /\ two \in Seq(CallType)
        BY <3>1
      <4> QED
        BY ONLY <4>1, ConcatProperties
    <3>3. Len(one \o two) = 2 /\ \A i \in 1 .. 2 : (one \o two)[i] = both[i]
      BY ONLY <3>1, <3>2
    <3>4. one \o two = both
      BY <3>1, <3>2, <3>3, SeqEqual
    <3> QED
      BY <3>4 DEF one, two, both
  <2> QED
    BY <2>1, <2>2 DEF Become
<1> HIDE DEF c, e
<1>8. /\ Kept(Depth - 1) /\ Standing(Depth - 1) /\ Untold(Depth - 1)
      /\ Depth' = Depth + 1 /\ stack'[Depth] = c /\ stack'[Depth + 1] = e /\ Top'.pc = "perform"
  BY <1>1, <1>6, <1>7, ReplacedByTwo, KeptStands
<1>9. /\ SlotPart' /\ s \in Nat /\ s \notin InUse
      /\ Slots' = Slots \cup {s} /\ InUse' = InUse \cup {s}
      /\ slots'[s].callback = callback /\ slots'[s].finished = Depth
      /\ \A t \in Slots \ {s} : slots'[t] = slots[t]
  BY <1>1, <1>2, <1>3, <1>4, <1>8, SlotTaken
<1>10. InUse \subseteq Slots
  BY <1>1, SlotSets DEF Types
<1>11. ObjPart'
  <2>1. Answering = {} /\ Answering' = {}
    BY <1>8 DEF Answering, At
  <2>2. ObjTypes'
    BY <1>1 DEF ObjPart, ObjTypes
  <2> QED
    BY <1>1, <1>9, <1>10, <2>1, <2>2, OtherSlotTaken
<1>12. /\ Depth' >= 1 /\ Depth - 1 < Depth /\ Returned(Depth - 1)
       /\ \A d \in Depth - 1 + 1 .. Depth' : d = Depth \/ d = Depth + 1
  BY <1>2, <1>8 DEF Returned
<1>13. CallPart'
  <2>1. \A d \in Depth - 1 + 1 .. Depth' : CallOK(d)'
    <3>1. SUFFICES ASSUME NEW d \in Nat, d = Depth \/ d = Depth + 1
                   PROVE  CallOK(d)'
      BY <1>2, <1>12
    <3>2. CASE d = Depth
      <4>1. stack'[d].pc = "run" /\ stack'[d].slot \in Slots' /\ d # 1
        BY <1>2, <1>6, <1>8, <1>9, <3>2
      <4> QED
        BY <4>1 DEF CallOK, OnTop, Inside, Outer, AboutObject, Asking
    <3>3. CASE d = Depth + 1
      <4>1. stack'[d].pc = "perform" /\ d # 1 /\ d = Depth'
        BY <1>2, <1>6, <1>8, <3>3
      <4> QED
        BY <4>1 DEF CallOK, OnTop, Inside, Outer, AboutObject, Asking
    <3> QED
      BY <3>1, <3>2, <3>3
  <2> QED
    BY <1>1, <1>8, <1>9, <1>12, <2>1, CallsStand
<1>14. Covered'
  <2>1. Depth \in 1 .. Depth' /\ Drains(stack'[Depth])
    BY <1>2, <1>6, <1>8 DEF Drains
  <2> QED
    BY <2>1 DEF Covered, Drains
<1>15. AskPart'
  <2>1. \A d \in 1 .. Depth - 1 : stack[d].pc \in Asking =>
              obj_req'[stack[d].o].state \in {"WAITING", "COMPLETE"}
    BY <1>1, <1>2 DEF AskPart
  <2>2. \A d \in Depth - 1 + 1 .. Depth' : stack'[d].pc \notin Asking
    BY <1>6, <1>8, <1>12 DEF Asking
  <2> QED
    BY <1>1, <1>2, <1>8, <2>1, <2>2, AskStands
<1>16. TopPart' /\ WaitPart'
  BY <1>2, <1>8 DEF TopPart, WaitPart, At
<1>17. \A t \in InUse' : WaiterOK(t)'
  <2>1. SUFFICES ASSUME NEW t \in InUse'
                 PROVE  WaiterOK(t)'
    OBVIOUS
  <2>2. CASE t = s
    <3>1. Depth \in 1 .. Depth'
      BY <1>2, <1>8
    <3> QED
      BY <1>6, <1>8, <1>9, <2>2, <3>1 DEF WaiterOK, WaitsFor
  <2>3. CASE t # s
    <3>1. t \in InUse /\ slots'[t] = slots[t]
      BY <1>9, <1>10, <2>1, <2>3
    <3> QED
      BY <1>1, <1>8, <1>12, <3>1, WaiterStands
  <2> QED
    BY <2>2, <2>3
<1> QED
  BY <1>9, <1>11, <1>13, <1>14, <1>15, <1>16, <1>17 DEF HwInv

\* fetch_alternates() asks for the list, http_fetch_pack() for a pack.
LEMMA StartRunStep == ASSUME HwInv, start_alternates \/ start_pack PROVE HwInv'
<1>1. CallPart
  BY DEF HwInv
<1>2. CASE start_alternates
  <2>1. /\ Top.pc = "alternates_start"
        /\ get_active_slot(<<"alternates", 1>>, <<"alternates">>, Depth)
        /\ UNCHANGED <<obj_req, got_alternates, alts, has>>
    BY <1>2 DEF start_alternates, At, walkVars
  <2> QED
    BY <2>1, RequestTypes, RunStarted
<1>3. CASE start_pack
  <2> DEFINE of == <<"pack", Top.o, Top.repo>>
  <2>1. /\ Top.pc = "pack_start"
        /\ get_active_slot(of, Nobody, Depth)
        /\ UNCHANGED <<obj_req, got_alternates, alts, has>>
    BY <1>3 DEF start_pack, At, walkVars
  <2>2. Top.o \in Obj /\ Top.repo \in Nat
    BY <1>1, <2>1, Places, StackFacts DEF AboutObject, CallType
  <2>3. of \in Requests
    BY <2>2, RequestTypes
  <2> HIDE DEF of
  <2> QED
    BY <2>1, <2>3, RunStarted
<1> QED
  BY <1>2, <1>3

-----------------------------------------------------------------------------
(* The transfer *)

\* curl_multi_perform() returns with the transfer run.
LEMMA PerformReturns ==
    ASSUME HwInv, Top.pc = "perform", Return,
           UNCHANGED <<slots, active_requests, curl_session_count>>,
           UNCHANGED <<obj_req, got_alternates, alts, has>>,
           Top'.pc \notin OnTop => SlotPart'
    PROVE  HwInv'
<1>1. /\ CallPart /\ WaitPart /\ Covered /\ AskPart /\ ObjPart
      /\ \A t \in InUse : WaiterOK(t)
  BY DEF HwInv
<1>2. /\ Depth \in Nat /\ Depth >= 2 /\ Top = stack[Depth]
      /\ \A p \in Obj : obj_req[p].state # "WAITING"
  BY <1>1, Places, StackFacts, NotWaiting
<1>3. /\ Standing(Depth - 1) /\ Untold(Depth - 1) /\ Depth' = Depth - 1
      /\ Depth' >= 1 /\ Depth - 1 < Depth
  BY <1>1, <1>2, Popped, KeptStands
<1>4. /\ \A d \in Depth - 1 + 1 .. Depth' : FALSE
      /\ Returned(Depth - 1)
      /\ \A d \in Depth - 1 + 1 .. Depth : ~Drains(stack[d])
  BY <1>1, <1>2, <1>3 DEF Returned, Drains, Emptying
<1>5. Top'.pc \notin OnTop
  BY <1>1, <1>3, <1>4, NewTop
<1>6. Slots' = Slots /\ InUse' = InUse
  BY DEF Slots, InUse
<1>7. ObjPart'
  <2>1. ObjTypes' /\ \A o \in Obj : SameService(o)
    BY <1>1 DEF ObjPart, ObjTypes, SameService
  <2>2. Answering = {} /\ Answering' = {}
    BY <1>5 DEF Answering, At, OnTop
  <2> QED
    BY <1>1, <1>6, <2>1, <2>2, RequestsKept
<1>8. CallPart'
  BY <1>1, <1>3, <1>4, <1>6, CallsStand
<1>9. Covered'
  BY <1>1, <1>3, <1>4, CoverStands DEF At
<1>10. AskPart'
  <2>1. \A d \in 1 .. Depth - 1 : stack[d].pc \in Asking =>
              obj_req'[stack[d].o].state \in {"WAITING", "COMPLETE"}
    BY <1>1, <1>2 DEF AskPart
  <2> QED
    BY <1>1, <1>2, <1>3, <1>4, <2>1, AskStands
<1>11. TopPart' /\ WaitPart'
  BY <1>2, <1>5 DEF TopPart, WaitPart, At, OnTop
<1>12. \A t \in InUse' : WaiterOK(t)'
  BY <1>1, <1>3, <1>4, <1>6, WaiterStands
<1> QED
  BY <1>5, <1>7, <1>8, <1>9, <1>10, <1>11, <1>12 DEF HwInv

\* The transfer whose turn it is belongs to one slot in use.
LEMMA PendingSlot ==
    ASSUME SlotPart, NEW h \in pending
    PROVE  /\ h \in Handles /\ pending = {h} /\ h \notin Queued
           /\ \E s \in InUse : slots[s].curl = h /\ RequestOn(h) = slots[s].of
<1>1. Types /\ h \in registered /\ h \in Handles /\ pending = {h} /\ h \notin Queued
  BY DEF SlotPart, Types
<1>2. PICK s \in InUse : slots[s].curl = h
  BY <1>1 DEF SlotPart
<1>3. /\ DOMAIN slots = Slots /\ s \in Slots /\ slots[s] \in SlotType
  BY <1>1, <1>2, SlotSets DEF Types
<1>4. h # NULL
  BY <1>1, Basics
<1>5. \A slot \in Range(slots) : slot.curl = h => slot = slots[s]
  BY <1>2, <1>3, <1>4 DEF SlotPart, Range
<1>6. slots[s] \in Range(slots)
  BY <1>3 DEF Range
<1>7. (CHOOSE slot \in Range(slots) : slot.curl = h) = slots[s]
  BY <1>2, <1>5, <1>6
<1> QED
  BY <1>1, <1>2, <1>7 DEF RequestOn

\* A transfer runs, and its completion is queued.
LEMMA StartActiveSlotStep == ASSUME HwInv, start_active_slot PROVE HwInv'
<1>1. SlotPart /\ Types /\ Top.pc = "perform" /\ Return
  BY DEF HwInv, SlotPart, start_active_slot, At
<1>2. PICK h \in pending, r \in Results :
        M!Complete(h, r) /\ origin' = Append(origin, RequestOn(h))
  BY DEF start_active_slot
<1> DEFINE m == [easy |-> h, res |-> r]
<1>3. /\ pending' = pending \ {h} /\ queue' = Append(queue, m)
      /\ origin' = Append(origin, RequestOn(h))
      /\ UNCHANGED <<registered, lost>>
      /\ UNCHANGED <<slots, active_requests, curl_session_count>>
      /\ UNCHANGED <<obj_req, got_alternates, alts, has>>
  BY <1>2 DEF start_active_slot, M!Complete, slotVars, walkVars
<1>4. h \in Handles /\ pending = {h} /\ h \notin Queued
  BY <1>1, PendingSlot
<1>5. PICK s \in InUse : slots[s].curl = h /\ RequestOn(h) = slots[s].of
  BY <1>1, PendingSlot
<1>6. m \in [easy: Handles, res: Results] /\ m.easy = h
  BY <1>4
<1> HIDE DEF m
<1>7. RequestOn(h) \in Requests
  BY <1>1, <1>5, SlotSets DEF Types, SlotType
<1>8. /\ queue' \in Seq([easy: Handles, res: Results]) /\ origin' \in Seq(Requests)
      /\ Len(queue) \in Nat /\ Len(queue') = Len(queue) + 1 /\ Len(origin') = Len(queue) + 1
      /\ queue'[Len(queue) + 1] = m /\ origin'[Len(queue) + 1] = RequestOn(h)
      /\ \A i \in 1 .. Len(queue) : queue'[i] = queue[i] /\ origin'[i] = origin[i]
  <2>1. /\ queue \in Seq([easy: Handles, res: Results]) /\ origin \in Seq(Requests)
        /\ Len(origin) = Len(queue)
    BY <1>1 DEF Types
  <2>2. /\ queue' \in Seq([easy: Handles, res: Results]) /\ Len(queue') = Len(queue) + 1
        /\ Len(queue) \in Nat /\ queue'[Len(queue) + 1] = m
        /\ \A i \in 1 .. Len(queue) : queue'[i] = queue[i]
    BY <1>3, <1>6, <2>1
  <2>3. /\ origin' \in Seq(Requests) /\ Len(origin') = Len(origin) + 1
        /\ origin'[Len(origin) + 1] = RequestOn(h)
        /\ \A i \in 1 .. Len(origin) : origin'[i] = origin[i]
    BY <1>3, <1>7, <2>1
  <2> QED
    BY <2>1, <2>2, <2>3
<1>9. \A i \in 1 .. Len(queue') : i \in 1 .. Len(queue) \/ i = Len(queue) + 1
  BY <1>8
<1>10. Queued' = Queued \cup {h}
  <2>1. \A i \in 1 .. Len(queue) : i \in 1 .. Len(queue')
    BY <1>8
  <2>2. Len(queue) + 1 \in 1 .. Len(queue')
    BY <1>8
  <2>3. Queued \cup {h} \subseteq Queued'
    BY <1>6, <1>8, <2>1, <2>2 DEF Queued
  <2>4. Queued' \subseteq Queued \cup {h}
    BY <1>6, <1>8, <1>9 DEF Queued
  <2> QED
    BY <2>3, <2>4
<1>11. Slots' = Slots /\ InUse' = InUse /\ WithHandle' = WithHandle /\ pending' = {}
  BY <1>3, <1>4 DEF Slots, InUse, WithHandle
<1>12. ASSUME Top'.pc \notin OnTop
       PROVE  SlotPart'
  <2>1. Finishing = {} /\ Finishing' = {}
    BY <1>1, <1>12 DEF Finishing, At, OnTop
  <2>2. Silent' = Silent
    BY <1>3, <1>4, <1>10, <1>11, <2>1 DEF Silent
  <2>3. Types'
    BY <1>1, <1>3, <1>8, <1>11 DEF Types
  <2>4. \A i \in 1 .. Len(queue') : \E t \in InUse' :
          slots'[t].curl = queue'[i].easy /\ slots'[t].of = origin'[i]
    <3>1. SUFFICES ASSUME NEW i \in 1 .. Len(queue')
                   PROVE  \E t \in InUse : slots[t].curl = queue'[i].easy /\ slots[t].of = origin'[i]
      BY <1>3, <1>11
    <3>2. CASE i \in 1 .. Len(queue)
      BY <1>1, <1>8, <3>2 DEF SlotPart
    <3>3. CASE i = Len(queue) + 1
      BY <1>5, <1>6, <1>8, <3>3
    <3> QED
      BY <1>9, <3>2, <3>3
  <2>5. \A i, j \in 1 .. Len(queue') : queue'[i].easy = queue'[j].easy => i = j
    <3>1. \A i \in 1 .. Len(queue) : queue[i].easy # h
      BY <1>4 DEF Queued
    <3>2. \A i, j \in 1 .. Len(queue) : queue[i].easy = queue[j].easy => i = j
      BY <1>1 DEF SlotPart
    <3> QED
      BY <1>6, <1>8, <1>9, <3>1, <3>2
  <2>6. /\ \A a, b \in Slots' : slots'[a].curl = slots'[b].curl /\ slots'[a].curl # NULL => a = b
        /\ registered' = { slots'[t].curl : t \in InUse' }
        /\ \A t \in InUse' : slots'[t].curl # NULL
    BY <1>1, <1>3, <1>11 DEF SlotPart
  <2>7. /\ active_requests' = Cardinality(InUse') /\ active_requests' <= max_requests
        /\ curl_session_count' = Cardinality(WithHandle')
        /\ Cardinality(Silent') <= lost'
    BY <1>1, <1>3, <1>11, <2>2 DEF SlotPart
  <2> QED
    BY <1>11, <2>1, <2>3, <2>4, <2>5, <2>6, <2>7 DEF SlotPart
<1> QED
  BY <1>1, <1>3, <1>12, PerformReturns

\* A transfer runs, and nobody will hear of it.
LEMMA StartLosesStep == ASSUME HwInv, StartLosesMessage PROVE HwInv'
<1>1. SlotPart /\ Types /\ Top.pc = "perform" /\ Return
  BY DEF HwInv, SlotPart, StartLosesMessage, At
<1>2. PICK h \in pending, r \in Results : M!CompleteSilently(h, r)
  BY DEF StartLosesMessage
<1>3. /\ pending' = pending \ {h} /\ UNCHANGED <<registered, queue, origin>>
      /\ lost' = lost + 1
      /\ UNCHANGED <<slots, active_requests, curl_session_count>>
      /\ UNCHANGED <<obj_req, got_alternates, alts, has>>
  BY <1>2 DEF StartLosesMessage, M!CompleteSilently, slotVars, walkVars
<1>4. h \in Handles /\ pending = {h} /\ h \notin Queued
  BY <1>1, PendingSlot
<1>5. PICK s \in InUse : slots[s].curl = h
  BY <1>1, PendingSlot
<1>6. /\ Slots' = Slots /\ InUse' = InUse /\ WithHandle' = WithHandle /\ Queued' = Queued
      /\ pending' = {}
  BY <1>3, <1>4 DEF Slots, InUse, WithHandle, Queued
<1>7. ASSUME Top'.pc \notin OnTop
      PROVE  SlotPart'
  <2>1. Finishing = {} /\ Finishing' = {}
    BY <1>1, <1>7 DEF Finishing, At, OnTop
  <2>2. Silent' = Silent \cup {s}
    <3>1. s \in Slots /\ InUse \subseteq Slots
      BY <1>1, SlotSets DEF Types
    <3>2. \A t \in InUse : slots[t].curl = h => t = s
      BY <1>1, <1>4, <1>5, <3>1, Basics DEF SlotPart
    <3> QED
      BY <1>3, <1>4, <1>5, <1>6, <2>1, <3>2 DEF Silent
  <2>3. Cardinality(Silent') <= lost' /\ lost' \in Nat
    <3>1. s \notin Silent
      BY <1>4, <1>5 DEF Silent
    <3>2. IsFiniteSet(Silent)
      BY <1>1, SlotSets DEF Types
    <3>3. Cardinality(Silent') = Cardinality(Silent) + 1
      BY <2>2, <3>1, <3>2, FS_AddElement
    <3>4. Cardinality(Silent) <= lost /\ lost \in Nat /\ Cardinality(Silent) \in Nat
      BY <1>1, <3>2, FS_CardinalityType DEF SlotPart, Types
    <3> QED
      BY <1>3, <3>3, <3>4
  <2>4. Types'
    BY <1>1, <1>3, <1>6, <2>3 DEF Types
  <2>5. /\ \A a, b \in Slots' : slots'[a].curl = slots'[b].curl /\ slots'[a].curl # NULL => a = b
        /\ registered' = { slots'[t].curl : t \in InUse' }
        /\ \A t \in InUse' : slots'[t].curl # NULL
    BY <1>1, <1>3, <1>6 DEF SlotPart
  <2>6. /\ active_requests' = Cardinality(InUse') /\ active_requests' <= max_requests
        /\ curl_session_count' = Cardinality(WithHandle')
    BY <1>1, <1>3, <1>6 DEF SlotPart
  <2>7. /\ \A i \in 1 .. Len(queue') : \E t \in InUse' :
              slots'[t].curl = queue'[i].easy /\ slots'[t].of = origin'[i]
        /\ \A i, j \in 1 .. Len(queue') : queue'[i].easy = queue'[j].easy => i = j
    BY <1>1, <1>3, <1>6 DEF SlotPart
  <2> QED
    BY <1>6, <2>1, <2>3, <2>4, <2>5, <2>6, <2>7 DEF SlotPart
<1> QED
  BY <1>1, <1>3, <1>7, PerformReturns

-----------------------------------------------------------------------------
(* Completions *)

\* The queue without its first message.
LEMMA Taken ==
    ASSUME Types, queue # <<>>, queue' = Tail(queue), origin' = Tail(origin)
    PROVE  /\ Len(queue) \in Nat /\ Len(queue) >= 1 /\ Len(queue') = Len(queue) - 1
           /\ Head(queue) = queue[1] /\ Head(origin) = origin[1] /\ 1 \in 1 .. Len(queue)
           /\ queue' \in Seq([easy: Handles, res: Results]) /\ origin' \in Seq(Requests)
           /\ queue[1] \in [easy: Handles, res: Results] /\ origin[1] \in Requests
           /\ Len(origin') = Len(queue')
           /\ \A i \in 1 .. Len(queue') : /\ i + 1 \in 1 .. Len(queue)
                                          /\ queue'[i] = queue[i + 1]
                                          /\ origin'[i] = origin[i + 1]
<1>1. /\ queue \in Seq([easy: Handles, res: Results]) /\ origin \in Seq(Requests)
      /\ Len(origin) = Len(queue)
  BY DEF Types
<1>2. Len(queue) \in Nat /\ Len(queue) >= 1 /\ 1 \in 1 .. Len(queue)
  BY <1>1
<1>3. origin # <<>>
  BY <1>1, <1>2
<1>4. /\ Len(queue') = Len(queue) - 1 /\ Head(queue) = queue[1]
      /\ queue' \in Seq([easy: Handles, res: Results])
      /\ queue[1] \in [easy: Handles, res: Results]
      /\ \A i \in 1 .. Len(queue') : queue'[i] = queue[i + 1]
  <2> DEFINE S == [easy: Handles, res: Results]
  <2>1. queue \in Seq(S)
    BY <1>1
  <2> HIDE DEF S
  <2>2. /\ Len(Tail(queue)) = Len(queue) - 1 /\ Tail(queue) \in Seq(S)
        /\ \A i \in 1 .. Len(Tail(queue)) : Tail(queue)[i] = queue[i + 1]
    BY <2>1, HeadTailProperties
  <2>3. Head(queue) = queue[1] /\ queue[1] \in S
    BY <1>2, <2>1
  <2> QED
    BY <2>2, <2>3 DEF S
<1>5. /\ Len(origin') = Len(origin) - 1 /\ Head(origin) = origin[1]
      /\ origin' \in Seq(Requests) /\ origin[1] \in Requests
      /\ \A i \in 1 .. Len(origin') : origin'[i] = origin[i + 1]
  BY <1>1, <1>2, <1>3
<1>6. \A i \in 1 .. Len(queue') : i + 1 \in 1 .. Len(queue)
  BY <1>2, <1>4
<1> QED
  BY <1>1, <1>2, <1>4, <1>5, <1>6

\* A completion is read, and finds the slot in use it is of.
LEMMA ProcessTakeStep ==
    ASSUME HwInv, process_curl_messages, queue # <<>>
    PROVE  HwInv'
<1> DEFINE h == Head(queue).easy
           c == [Call("finish") EXCEPT !.slot = First(SlotsOf(h)),
                                       !.res = Head(queue).res, !.of = Head(origin)]
<1>1. /\ CallPart /\ WaitPart /\ Covered /\ AskPart /\ ObjPart /\ SlotPart /\ Types
      /\ Top.pc = "process" /\ \A t \in InUse : WaiterOK(t)
  BY DEF HwInv, process_curl_messages, At, SlotPart
<1>2. /\ queue' = Tail(queue) /\ origin' = Tail(origin) /\ UNCHANGED <<registered, pending, lost>>
      /\ IF SlotsOf(h) = {} THEN UNCHANGED stack ELSE stack' = Append(stack, c)
      /\ UNCHANGED <<slots, active_requests, curl_session_count>>
      /\ UNCHANGED <<obj_req, got_alternates, alts, has>>
  BY DEF process_curl_messages, M!Take, slotVars, walkVars
<1>3. /\ Len(queue) \in Nat /\ Len(queue) >= 1 /\ Len(queue') = Len(queue) - 1
      /\ Head(queue) = queue[1] /\ Head(origin) = origin[1] /\ 1 \in 1 .. Len(queue)
      /\ queue' \in Seq([easy: Handles, res: Results]) /\ origin' \in Seq(Requests)
      /\ queue[1] \in [easy: Handles, res: Results] /\ origin[1] \in Requests
      /\ Len(origin') = Len(queue')
      /\ \A i \in 1 .. Len(queue') : /\ i + 1 \in 1 .. Len(queue)
                                     /\ queue'[i] = queue[i + 1]
                                     /\ origin'[i] = origin[i + 1]
  BY <1>1, <1>2, Taken
<1>4. h \in Handles /\ h # NULL /\ h = queue[1].easy
  BY <1>3, Basics
<1>5. PICK s \in InUse : slots[s].curl = h /\ slots[s].of = origin[1]
  BY <1>1, <1>3, <1>4 DEF SlotPart
<1>6. DOMAIN slots = Slots /\ InUse \subseteq Slots /\ s \in Slots /\ s \in Nat
  BY <1>1, <1>5, SlotSets DEF Types
<1> HIDE DEF h
<1>7. SlotsOf(h) = {s}
  <2>1. \A t \in Slots : slots[t].curl = h => t = s
    BY <1>1, <1>4, <1>5, <1>6 DEF SlotPart
  <2> QED
    BY <1>5, <1>6, <2>1 DEF SlotsOf
<1>8. First(SlotsOf(h)) = s
  <2>1. SlotsOf(h) \subseteq Nat /\ SlotsOf(h) # {}
    BY <1>6, <1>7
  <2> QED
    BY <1>7, <2>1, FirstIn
<1>9. /\ c \in CallType /\ c.pc = "finish" /\ c.slot = s /\ c.res = queue[1].res
      /\ c.of = origin[1] /\ queue[1].res \in Results
  <2>1. Call("finish") \in CallType /\ Call("finish").pc = "finish"
    BY CallTypes DEF PCs
  <2>2. queue[1].res \in Results /\ queue[1].res \in Outcomes
    BY <1>3 DEF Outcomes
  <2> QED
    BY <1>3, <1>6, <1>8, <2>1, <2>2 DEF CallType
<1>10. stack' = Append(stack, c)
  BY <1>2, <1>7
<1> HIDE DEF c
<1>11. /\ Kept(Depth) /\ Standing(Depth) /\ Untold(Depth) /\ Depth' = Depth + 1
       /\ stack'[Depth + 1] = c /\ Top' = c
       /\ Depth \in Nat /\ Depth >= 2 /\ Top = stack[Depth]
       /\ Top.pc \notin OnTop /\ \A p \in Obj : obj_req[p].state # "WAITING"
  BY <1>1, <1>9, <1>10, Pushed, KeptStands, Places, StackFacts, NotWaiting DEF OnTop
<1>12. Slots' = Slots /\ InUse' = InUse /\ WithHandle' = WithHandle /\ pending = {} /\ pending' = {}
  BY <1>1, <1>2 DEF Slots, InUse, WithHandle, SlotPart, At
<1>13. Finishing = {} /\ Finishing' = {s} /\ Answering = {} /\ Answering' = {}
  BY <1>1, <1>6, <1>9, <1>11, <1>12 DEF Finishing, Answering, At
<1>14. Queued' = Queued \ {h}
  <2>1. \A i \in 1 .. Len(queue') : queue[i + 1].easy # h
    <3>1. \A i \in 1 .. Len(queue') : i + 1 # 1 /\ i + 1 \in 1 .. Len(queue)
      BY <1>3
    <3> QED
      BY <1>1, <1>3, <1>4, <3>1 DEF SlotPart
  <2>2. Queued' \subseteq Queued \ {h}
    <3>1. SUFFICES ASSUME NEW i \in 1 .. Len(queue')
                   PROVE  queue'[i].easy \in Queued \ {h}
      BY DEF Queued
    <3>2. queue'[i] = queue[i + 1] /\ i + 1 \in 1 .. Len(queue)
      BY <1>3
    <3> QED
      BY <2>1, <3>2 DEF Queued
  <2>3. \A j \in 1 .. Len(queue) : j # 1 => j - 1 \in 1 .. Len(queue') /\ j - 1 + 1 = j
    BY <1>3
  <2>4. Queued \ {h} \subseteq Queued'
    <3>1. SUFFICES ASSUME NEW j \in 1 .. Len(queue), queue[j].easy # h
                   PROVE  queue[j].easy \in Queued'
      BY DEF Queued
    <3>2. j - 1 \in 1 .. Len(queue') /\ j - 1 + 1 = j
      BY <1>4, <2>3, <3>1
    <3>3. queue'[j - 1] = queue[j]
      BY <1>3, <3>2
    <3> QED
      BY <3>2, <3>3 DEF Queued
  <2> QED
    BY <2>2, <2>4
<1>15. h \in Queued
  BY <1>3, <1>4 DEF Queued
<1>16. Silent' = Silent
  <2>1. \A t \in InUse : slots[t].curl = h => t = s
    BY <1>1, <1>4, <1>5, <1>6 DEF SlotPart
  <2> QED
    BY <1>2, <1>5, <1>12, <1>13, <1>14, <1>15, <2>1 DEF Silent
<1>17. SlotPart'
  <2>1. Types'
    BY <1>1, <1>2, <1>3, <1>12 DEF Types
  <2>2. \A i \in 1 .. Len(queue') : \E t \in InUse' :
          slots'[t].curl = queue'[i].easy /\ slots'[t].of = origin'[i]
    BY <1>1, <1>2, <1>3, <1>12 DEF SlotPart
  <2>3. \A i, j \in 1 .. Len(queue') : queue'[i].easy = queue'[j].easy => i = j
    <3>1. SUFFICES ASSUME NEW i \in 1 .. Len(queue'), NEW j \in 1 .. Len(queue'),
                          queue'[i].easy = queue'[j].easy
                   PROVE  i = j
      OBVIOUS
    <3>2. /\ queue[i + 1].easy = queue[j + 1].easy
          /\ i + 1 \in 1 .. Len(queue) /\ j + 1 \in 1 .. Len(queue)
      BY <1>3, <3>1
    <3>3. i + 1 = j + 1
      BY <1>1, <3>2 DEF SlotPart
    <3> QED
      BY <1>3, <3>3
  <2>4. /\ \A a, b \in Slots' : slots'[a].curl = slots'[b].curl /\ slots'[a].curl # NULL => a = b
        /\ registered' = { slots'[t].curl : t \in InUse' }
        /\ \A t \in InUse' : slots'[t].curl # NULL
    BY <1>1, <1>2, <1>12 DEF SlotPart
  <2>5. /\ active_requests' = Cardinality(InUse') /\ active_requests' <= max_requests
        /\ curl_session_count' = Cardinality(WithHandle')
        /\ Cardinality(Silent') <= lost'
    BY <1>1, <1>2, <1>12, <1>16 DEF SlotPart
  <2>6. \A t \in Finishing' : t \in InUse' /\ slots'[t].curl \notin Queued'
    BY <1>2, <1>5, <1>12, <1>13, <1>14
  <2> QED
    BY <1>12, <2>1, <2>2, <2>3, <2>4, <2>5, <2>6 DEF SlotPart
<1>18. ObjPart'
  <2>1. ObjTypes' /\ \A o \in Obj : SameService(o)
    BY <1>1, <1>2 DEF ObjPart, ObjTypes, SameService
  <2> QED
    BY <1>1, <1>2, <1>12, <1>13, <2>1, RequestsKept
<1>19. /\ Depth' >= 1 /\ Returned(Depth)
       /\ \A d \in Depth + 1 .. Depth' : d = Depth + 1
       /\ Depth \in 1 .. Depth' /\ Depth \in 1 .. Depth
  BY <1>11 DEF Returned
<1>20. CallPart'
  <2>1. \A d \in Depth + 1 .. Depth' : CallOK(d)'
    <3>1. SUFFICES ASSUME NEW d \in Nat, d = Depth + 1
                   PROVE  CallOK(d)'
      BY <1>11, <1>19
    <3>2. stack'[d].pc = "finish" /\ d # 1 /\ d = Depth' /\ d - 1 = Depth
      BY <1>9, <1>11, <3>1
    <3>3. stack'[d - 1].pc = "process"
      BY <1>1, <1>11, <1>19, <3>2 DEF Standing
    <3> QED
      BY <3>2, <3>3 DEF CallOK, OnTop, Inside, Outer, AboutObject, Asking
  <2> QED
    BY <1>1, <1>11, <1>12, <1>19, <2>1, CallsStand
<1>21. Covered'
  <2>1. stack'[Depth].pc \in Emptying
    BY <1>1, <1>11, <1>19 DEF Standing, Emptying
  <2> QED
    BY <1>19, <2>1 DEF Covered, Drains
<1>22. AskPart'
  <2>1. \A d \in 1 .. Depth : stack[d].pc \in Asking =>
              obj_req'[stack[d].o].state \in {"WAITING", "COMPLETE"}
    BY <1>1, <1>2 DEF AskPart
  <2>2. \A d \in Depth + 1 .. Depth' : stack'[d].pc \notin Asking
    BY <1>9, <1>11, <1>19 DEF Asking
  <2> QED
    BY <1>1, <1>11, <2>1, <2>2, AskStands
<1>23. TopPart'
  BY <1>2, <1>5, <1>6, <1>9, <1>11, <1>12 DEF TopPart, At
<1>24. WaitPart'
  BY <1>2, <1>11 DEF WaitPart
<1>25. \A t \in InUse' : WaiterOK(t)'
  BY <1>1, <1>2, <1>11, <1>12, <1>19, WaiterStands
<1> QED
  BY <1>17, <1>18, <1>20, <1>21, <1>22, <1>23, <1>24, <1>25 DEF HwInv

\* process_curl_messages() reads completions until there is none.
LEMMA ProcessStep == ASSUME HwInv, process_curl_messages PROVE HwInv'
<1>1. CASE queue # <<>>
  BY <1>1, ProcessTakeStep
<1>2. CASE queue = <<>>
  <2>1. /\ CallPart /\ WaitPart /\ ObjPart /\ Top.pc = "process" /\ Return
        /\ UNCHANGED <<registered, pending, queue, origin, lost>>
        /\ UNCHANGED <<slots, active_requests, curl_session_count>>
        /\ UNCHANGED <<obj_req, got_alternates, alts, has>>
    BY <1>2 DEF HwInv, process_curl_messages, multiVars, slotVars, walkVars, At
  <2>2. /\ Depth >= 2 /\ \A p \in Obj : obj_req[p].state # "WAITING"
    BY <2>1, Places, StackFacts, NotWaiting
  <2>3. ObjTypes'
    BY <2>1 DEF ObjPart, ObjTypes
  <2> QED
    BY <1>2, <2>1, <2>2, <2>3, PlainReturn
<1> QED
  BY <1>1, <1>2

\* The innermost call returns after telling another one, unless f is 0.
TellAs(f, c) == IF f = 0 THEN Below ELSE [Below EXCEPT ![f] = c]

\* What is said is who has been told, not what the call is about.
Telling(f, c) ==
    /\ f \in 0 .. Depth - 1
    /\ f # 0 => /\ c \in CallType
                /\ c.pc = stack[f].pc /\ c.o = stack[f].o /\ c.slot = stack[f].slot

\* The calls after that, n of them as they were but for the one told.
ToldTo(f, c) ==
    /\ Standing(Depth - 1)
    /\ \A d \in 1 .. Depth - 1 : d # f => stack'[d] = stack[d]
    /\ f # 0 => stack'[f] = c

\* What is left of the calls then.
LEMMA Told ==
    ASSUME CallPart, NEW f, NEW c, Telling(f, c)
    PROVE  /\ TellAs(f, c) \in Seq(CallType) /\ Len(TellAs(f, c)) = Depth - 1
           /\ \A d \in 1 .. Depth - 1 :
                 /\ TellAs(f, c)[d].pc = stack[d].pc /\ TellAs(f, c)[d].o = stack[d].o
                 /\ TellAs(f, c)[d].slot = stack[d].slot
                 /\ d # f => TellAs(f, c)[d] = stack[d]
           /\ f # 0 => TellAs(f, c)[f] = c
<1>1. /\ Depth \in Nat /\ Depth >= 1 /\ Below \in Seq(CallType) /\ Len(Below) = Depth - 1
      /\ \A d \in 1 .. Depth - 1 : Below[d] = stack[d]
  BY StackFacts
<1>2. CASE f = 0
  BY <1>1, <1>2 DEF TellAs
<1>3. CASE f # 0
  <2>1. f \in 1 .. Depth - 1 /\ c \in CallType
    BY <1>1, <1>3 DEF Telling
  <2>2. TellAs(f, c) = [Below EXCEPT ![f] = c]
    BY <1>3 DEF TellAs
  <2>3. AmendedTo(TellAs(f, c), f, c)
    BY <2>1, <2>2, Amended
  <2> QED
    BY <1>3, <2>3 DEF AmendedTo, Telling
<1> QED
  BY <1>2, <1>3

\* It tells the other one and returns ...
LEMMA TellAndReturn ==
    ASSUME CallPart, NEW f, NEW c, Telling(f, c), stack' = TellAs(f, c)
    PROVE  ToldTo(f, c) /\ Depth' = Depth - 1
<1>1. Depth \in Nat /\ Depth >= 1
  BY StackFacts
<1>2. /\ stack' \in Seq(CallType) /\ Len(stack') = Depth - 1
      /\ \A d \in 1 .. Depth - 1 :
            /\ stack'[d].pc = stack[d].pc /\ stack'[d].o = stack[d].o
            /\ stack'[d].slot = stack[d].slot
            /\ d # f => stack'[d] = stack[d]
      /\ f # 0 => stack'[f] = c
  BY Told
<1>3. Depth' = Depth - 1
  BY <1>2 DEF Depth
<1> QED
  BY <1>1, <1>2, <1>3 DEF ToldTo, Standing

\* ... or goes on with another call.
LEMMA TellAndCall ==
    ASSUME CallPart, NEW f, NEW c, Telling(f, c), NEW e \in CallType,
           stack' = Append(TellAs(f, c), e)
    PROVE  ToldTo(f, c) /\ Depth' = Depth /\ stack'[Depth] = e /\ Top' = e
<1> DEFINE t == TellAs(f, c)
<1>1. Depth \in Nat /\ Depth >= 1 /\ stack' = Append(t, e)
  BY StackFacts
<1>2. /\ t \in Seq(CallType) /\ Len(t) = Depth - 1
      /\ \A d \in 1 .. Depth - 1 :
            /\ t[d].pc = stack[d].pc /\ t[d].o = stack[d].o /\ t[d].slot = stack[d].slot
            /\ d # f => t[d] = stack[d]
      /\ f # 0 => t[f] = c
  BY Told
<1> HIDE DEF t
<1>3. stack' \in Seq(CallType) /\ Len(stack') = Depth
  BY <1>1, <1>2
<1>4. stack'[Depth] = e /\ \A d \in 1 .. Depth - 1 : stack'[d] = t[d]
  BY <1>1, <1>2
<1>5. Depth' = Depth /\ Top' = e
  BY <1>3, <1>4 DEF Depth, Top
<1>6. f # 0 => stack'[f] = c
  BY <1>1, <1>2, <1>4 DEF Telling
<1>7. \A d \in 1 .. Depth - 1 :
            /\ stack'[d].pc = stack[d].pc /\ stack'[d].o = stack[d].o
            /\ stack'[d].slot = stack[d].slot
            /\ d # f => stack'[d] = stack[d]
  BY <1>2, <1>4
<1>8. Standing(Depth - 1)
  BY <1>1, <1>3, <1>5, <1>7 DEF Standing
<1> QED
  BY <1>4, <1>5, <1>6, <1>7, <1>8 DEF ToldTo

\* A slot is released: its handle is removed, and no completion of it waits.
LEMMA SlotReleased ==
    ASSUME SlotPart, NEW s \in InUse, slots[s].curl \notin Queued, pending = {},
           Finishing \subseteq {s}, Finishing' = {},
           xmulti_remove_handle(slots[s].curl), UNCHANGED <<origin, lost>>,
           active_requests' = active_requests - 1,
           Types', Slots' = Slots, InUse' = InUse \ {s},
           slots'[s].curl \in {slots[s].curl, NULL},
           \A t \in Slots \ {s} : slots'[t] = slots[t],
           curl_session_count' = Cardinality(WithHandle')
    PROVE  SlotPart'
<1> DEFINE h == slots[s].curl
<1>1. Types /\ InUse \subseteq Slots /\ IsFiniteSet(InUse) /\ IsFiniteSet(Silent)
  BY SlotSets DEF SlotPart, Types
<1>2. h \in registered /\ h # NULL
  BY DEF SlotPart
<1>3. /\ registered' = registered \ {h} /\ pending' = {} /\ UNCHANGED queue
  BY <1>2 DEF xmulti_remove_handle, M!Unregister
<1>4. \A t \in InUse' : t # s /\ t \in InUse /\ slots'[t] = slots[t] /\ slots[t].curl # h
  BY <1>1, <1>2 DEF SlotPart
<1> HIDE DEF h
<1>5. Queued' = Queued
  BY <1>3 DEF Queued
<1>6. \A a, b \in Slots' : slots'[a].curl = slots'[b].curl /\ slots'[a].curl # NULL => a = b
  <2>1. \A t \in Slots : slots'[t].curl \in {slots[t].curl, NULL}
    OBVIOUS
  <2> QED
    BY <2>1 DEF SlotPart
<1>7. registered' = { slots'[t].curl : t \in InUse' } /\ \A t \in InUse' : slots'[t].curl # NULL
  <2>1. \A t \in InUse : slots[t].curl # h => t \in InUse'
    BY DEF h
  <2> QED
    BY <1>3, <1>4, <2>1 DEF SlotPart
<1>8. active_requests' = Cardinality(InUse') /\ active_requests' <= max_requests
  <2>1. Cardinality(InUse') = Cardinality(InUse) - 1
    BY <1>1, FS_RemoveElement
  <2> QED
    BY <1>1, <2>1, Basics DEF SlotPart, Types
<1>9. \A i \in 1 .. Len(queue') : \E t \in InUse' :
          slots'[t].curl = queue'[i].easy /\ slots'[t].of = origin'[i]
  <2>1. SUFFICES ASSUME NEW i \in 1 .. Len(queue)
                 PROVE  \E t \in InUse' : slots'[t].curl = queue[i].easy /\ slots'[t].of = origin[i]
    BY <1>3
  <2>2. PICK t \in InUse : slots[t].curl = queue[i].easy /\ slots[t].of = origin[i]
    BY DEF SlotPart
  <2>3. t # s
    BY <2>2 DEF Queued
  <2> QED
    BY <1>4, <2>2, <2>3
<1>10. \A i, j \in 1 .. Len(queue') : queue'[i].easy = queue'[j].easy => i = j
  BY <1>3 DEF SlotPart
<1>11. Cardinality(Silent') <= lost'
  <2>1. Silent' \subseteq Silent
    BY <1>3, <1>4, <1>5 DEF Silent
  <2>2. Cardinality(Silent') <= Cardinality(Silent)
    BY <1>1, <2>1, FS_Subset
  <2>3. Cardinality(Silent) <= lost /\ Cardinality(Silent) \in Nat /\ lost \in Nat
    BY <1>1, FS_CardinalityType DEF SlotPart, Types
  <2>4. IsFiniteSet(Silent')
    BY <1>1, <2>1, FS_Subset
  <2>5. Cardinality(Silent') \in Nat
    BY <2>4, FS_CardinalityType
  <2> QED
    BY <2>2, <2>3, <2>5
<1> QED
  BY <1>3, <1>6, <1>7, <1>8, <1>9, <1>10, <1>11 DEF SlotPart

\* A slot in use is counted.
LEMMA SomeInUse ==
    ASSUME SlotPart, NEW s \in InUse
    PROVE  active_requests \in Nat /\ active_requests >= 1 /\ active_requests - 1 \in Nat
           /\ active_requests <= max_requests
<1>1. IsFiniteSet(InUse) /\ active_requests \in Nat
  BY SlotSets DEF SlotPart, Types
<1>2. Cardinality(InUse) # 0
  BY <1>1, FS_EmptySet
<1> QED
  BY <1>1, <1>2 DEF SlotPart

\* The request served by a slot that is finished: its callback is called ...
LEMMA ServiceAnswered ==
    ASSUME ObjPart, NEW s \in InUse, InUse \subseteq Slots, NEW o \in Obj,
           slots[s].callback = <<"object", o>>,
           UNCHANGED <<obj_req, got_alternates, alts, has>>,
           Slots' = Slots, InUse' = InUse \ {s},
           \A t \in Slots \ {s} : slots'[t] = slots[t],
           Answering = {}, Answering' = {o}
    PROVE  ObjPart'
<1>1. ObjTypes'
  BY DEF ObjPart, ObjTypes
<1>2. \A p \in Obj : Serves(s, p) <=> p = o
  BY CallbackFacts DEF Serves
<1>3. \A p \in Obj : ~Serves(s, p)'
  BY DEF Serves
<1>4. \A p \in Obj, t \in Slots : t # s => (Serves(t, p)' <=> Serves(t, p))
  BY DEF Serves
<1>5. obj_req[o].state = "ACTIVE" /\ obj_req[o].slot = s
  BY <1>2 DEF ObjPart
<1>6. \A p \in Obj, t \in Slots' :
          Serves(t, p)' => obj_req'[p].state = "ACTIVE" /\ obj_req'[p].slot = t
  BY <1>3, <1>4 DEF ObjPart
<1>7. \A p \in Obj : obj_req[p].state = "ACTIVE" /\ p # o => obj_req[p].slot # s
  BY <1>2 DEF ObjPart
<1>8. \A p \in Obj : obj_req'[p].state = "ACTIVE" =>
          obj_req'[p].slot \in Slots' /\ (Serves(obj_req[p].slot, p)' <=> p # o)
  <2>1. SUFFICES ASSUME NEW p \in Obj, obj_req[p].state = "ACTIVE"
                 PROVE  obj_req[p].slot \in Slots' /\ (Serves(obj_req[p].slot, p)' <=> p # o)
    OBVIOUS
  <2>2. obj_req[p].slot \in Slots /\ Serves(obj_req[p].slot, p)
    BY <2>1 DEF ObjPart
  <2>3. CASE p = o
    <3>1. obj_req'[p].slot = s
      BY <1>5, <2>3
    <3> QED
      BY <1>3, <2>2, <2>3, <3>1
  <2>4. CASE p # o
    <3>1. obj_req[p].slot # s
      BY <1>7, <2>1, <2>4
    <3>2. PICK t \in Slots : t = obj_req[p].slot
      BY <2>2
    <3>3. Serves(t, p)' /\ t = obj_req'[p].slot
      BY <1>4, <2>2, <3>1, <3>2
    <3> QED
      BY <2>2, <2>4, <3>3
  <2> QED
    BY <2>3, <2>4
<1>9. \A p \in Obj : obj_req'[p].state # "ACTIVE" => obj_req'[p].slot = 0
  BY DEF ObjPart
<1> QED
  BY <1>1, <1>5, <1>6, <1>8, <1>9 DEF ObjPart

\* ... and nothing changes for the requests when it serves none.
LEMMA ServiceUnchanged ==
    ASSUME ObjPart, ObjTypes', NEW s, InUse \subseteq Slots,
           \A o \in Obj : ~Serves(s, o) /\ ~Serves(s, o)' /\ SameService(o),
           Slots' = Slots, \A t \in Slots : t # s => (t \in InUse' <=> t \in InUse),
           \A t \in Slots \ {s} : slots'[t].callback = slots[t].callback,
           Answering = {}, Answering' = {}
    PROVE  ObjPart'
<1>1. \A p \in Obj, t \in Slots : t # s => (Serves(t, p)' <=> Serves(t, p))
  BY DEF Serves
<1>2. \A p \in Obj, t \in Slots' :
          Serves(t, p)' => obj_req'[p].state = "ACTIVE" /\ obj_req'[p].slot = t
  BY <1>1 DEF ObjPart, SameService
<1>3. \A p \in Obj : obj_req'[p].state = "ACTIVE" =>
          obj_req'[p].slot \in Slots' /\ Serves(obj_req[p].slot, p)'
  <2>1. SUFFICES ASSUME NEW p \in Obj, obj_req'[p].state = "ACTIVE"
                 PROVE  obj_req'[p].slot \in Slots' /\ Serves(obj_req[p].slot, p)'
    OBVIOUS
  <2>2. PICK t \in Slots : t = obj_req[p].slot /\ Serves(t, p)
    BY <2>1 DEF ObjPart, SameService
  <2>3. t # s /\ t = obj_req'[p].slot
    BY <2>2 DEF SameService
  <2> QED
    BY <1>1, <2>2, <2>3
<1>4. \A p \in Obj : obj_req'[p].state # "ACTIVE" => obj_req'[p].slot = 0
  BY DEF ObjPart, SameService
<1> QED
  BY <1>2, <1>3, <1>4 DEF ObjPart

\* finish_active_slot(): the slot is free, its waiter is told, its callback runs.
LEMMA FinishStep == ASSUME HwInv, finish_active_slot PROVE HwInv'
<1> DEFINE s == Top.slot
           slot == slots[s]
           f == slot.finished
           c == [stack[f] EXCEPT !.finished = TRUE, !.res = Top.res]
           v == [slot EXCEPT !.in_use = FALSE, !.result = Top.res]
           response == CallFor("response", slot.callback[2])
           alternates == [Call("alternates_response") EXCEPT !.slot = s]
<1>1. /\ CallPart /\ WaitPart /\ Covered /\ AskPart /\ ObjPart /\ SlotPart /\ Types /\ TopPart
      /\ Top.pc = "finish" /\ \A t \in InUse : WaiterOK(t)
  BY DEF HwInv, finish_active_slot, At, SlotPart
<1>2. /\ xmulti_remove_handle(slot.curl)
      /\ active_requests' = active_requests - 1
      /\ slots' = [slots EXCEPT ![s].in_use = FALSE, ![s].result = Top.res]
      /\ UNCHANGED <<curl_session_count, origin, lost>>
      /\ UNCHANGED <<obj_req, got_alternates, alts, has>>
  BY DEF finish_active_slot, walkVars
<1>3. LET told == IF slot.finished = 0 THEN Below
                  ELSE [Below EXCEPT ![slot.finished].finished = TRUE,
                                     ![slot.finished].res = Top.res]
      IN stack' = CASE slot.callback[1] = "object" -> Append(told, response)
                    [] slot.callback[1] = "alternates" -> Append(told, alternates)
                    [] OTHER -> told
  BY DEF finish_active_slot
<1>4. /\ Depth \in Nat /\ Depth >= 2 /\ Top = stack[Depth] /\ Top \in CallType
      /\ stack[Depth - 1].pc = "process" /\ Depth - 1 \in 1 .. Depth - 1
      /\ \A p \in Obj : obj_req[p].state # "WAITING"
  BY <1>1, Places, StackFacts, NotWaiting DEF CallOK, Inside
<1>5. /\ s \in Slots /\ s \in InUse /\ Finishing = {s} /\ slot.curl \notin Queued
      /\ Top.res \in Results /\ Top.res \in Outcomes /\ pending = {}
  BY <1>1 DEF TopPart, SlotPart, Finishing, At, Outcomes
<1>6. /\ slot \in SlotType /\ InUse \subseteq Slots /\ s \in Nat /\ DOMAIN slots = Slots
      /\ slots \in Seq(SlotType) /\ f \in Nat
  BY <1>1, <1>5, SlotSets DEF Types, SlotType
<1>7. /\ v \in SlotType /\ v.in_use = FALSE /\ v.curl = slot.curl /\ v.of = slot.of
      /\ v.callback = slot.callback /\ v.finished = f
  BY <1>5, <1>6 DEF SlotType
<1>8. slots' = [slots EXCEPT ![s] = v]
  BY <1>2
<1>9. f # 0 => /\ f \in 1 .. Depth - 1 /\ stack[f].pc = "run" /\ stack[f].slot = s
               /\ stack[f] \in CallType
  <2>1. SUFFICES ASSUME f # 0
                 PROVE  /\ f \in 1 .. Depth - 1 /\ stack[f].pc = "run" /\ stack[f].slot = s
                        /\ stack[f] \in CallType
    OBVIOUS
  <2>2. f \in 1 .. Depth /\ stack[f].pc = "run" /\ stack[f].slot = s
    BY <1>1, <1>5, <2>1 DEF WaiterOK, WaitsFor
  <2> QED
    BY <1>1, <1>4, <2>2, StackFacts
<1> HIDE DEF v
<1>10. /\ slots' \in Seq(SlotType) /\ Slots' = Slots /\ slots'[s] = v
       /\ \A t \in Slots \ {s} : slots'[t] = slots[t]
  BY <1>5, <1>6, <1>7, <1>8, SlotWritten
<1>11. InUse' = InUse \ {s} /\ WithHandle' = WithHandle
  <2>1. DOMAIN slots' = Slots
    BY <1>10 DEF Slots
  <2> QED
    BY <1>6, <1>7, <1>10, <2>1 DEF InUse, WithHandle
<1>12. Telling(f, c)
  <2>1. CASE f = 0
    BY <1>4, <2>1 DEF Telling
  <2>2. CASE f # 0
    <3>1. c \in CallType /\ c.pc = stack[f].pc /\ c.o = stack[f].o /\ c.slot = stack[f].slot
      BY <1>5, <1>9, <2>2 DEF CallType
    <3> QED
      BY <1>4, <1>9, <2>2, <3>1 DEF Telling
  <2> QED
    BY <2>1, <2>2
<1>13. TellAs(f, c) = IF slot.finished = 0 THEN Below
                      ELSE [Below EXCEPT ![slot.finished].finished = TRUE,
                                         ![slot.finished].res = Top.res]
  <2>1. CASE f = 0
    BY <2>1 DEF TellAs
  <2>2. CASE f # 0
    <3>1. Below[f] = stack[f] /\ f \in DOMAIN Below
      BY <1>1, <1>4, <1>9, <2>2, StackFacts
    <3> QED
      BY <2>2, <3>1 DEF TellAs
  <2> QED
    BY <2>1, <2>2
<1> HIDE DEF c
<1>14. stack' = CASE slot.callback[1] = "object" -> Append(TellAs(f, c), response)
                  [] slot.callback[1] = "alternates" -> Append(TellAs(f, c), alternates)
                  [] OTHER -> TellAs(f, c)
  BY <1>3, <1>13
<1> HIDE DEF response, alternates
<1>15. ASSUME ToldTo(f, c), Depth' = Depth \/ Depth' = Depth - 1,
              Depth' = Depth => CallOK(Depth)' /\ stack'[Depth].pc \in {"response", "alternates_response"},
              ObjPart', TopPart'
       PROVE  HwInv'
  <2>1. /\ Standing(Depth - 1) /\ Depth - 1 < Depth
        /\ \A d \in 1 .. Depth - 1 : d # f => stack'[d] = stack[d]
        /\ Depth' >= 1 /\ Depth' \in Nat /\ Depth - 1 \in 1 .. Depth'
    BY <1>4, <1>15 DEF ToldTo
  <2>2. \A d \in Depth - 1 + 1 .. Depth' : d = Depth /\ Depth' = Depth
    BY <1>4, <1>15
  <2>3. Top'.pc \notin {"finish", "perform"}
    <3>1. CASE Depth' = Depth
      BY <1>15, <3>1 DEF Top
    <3>2. CASE Depth' = Depth - 1
      <4>1. Top'.pc = "process"
        BY <1>4, <2>1, <3>2 DEF Top, Standing
      <4> QED
        BY <4>1
    <3> QED
      BY <1>15, <3>1, <3>2
  <2>4. Finishing' = {}
    BY <2>3 DEF Finishing, At
  <2>5. SlotPart'
    <3>1. registered' \subseteq Handles /\ pending' \subseteq registered' /\ UNCHANGED queue
      BY <1>1, <1>2 DEF Types, xmulti_remove_handle, M!Unregister
    <3>2. active_requests' \in Nat
      BY <1>1, <1>2, <1>5, SomeInUse
    <3>3. Types'
      BY <1>1, <1>2, <1>10, <3>1, <3>2 DEF Types
    <3>4. curl_session_count' = Cardinality(WithHandle')
      BY <1>1, <1>2, <1>11 DEF SlotPart
    <3>5. slots'[s].curl \in {slots[s].curl, NULL}
      BY <1>7, <1>10
    <3> QED
      BY <1>1, <1>2, <1>5, <1>10, <1>11, <2>4, <3>3, <3>4, <3>5, SlotReleased
  <2>6. CallPart'
    <3>1. \A d \in Depth - 1 + 1 .. Depth' : CallOK(d)'
      BY <1>15, <2>2
    <3> QED
      BY <1>1, <1>10, <2>1, <3>1, CallsStand
  <2>7. Covered'
    <3>1. stack'[Depth - 1].pc \in Emptying
      BY <1>4, <2>1 DEF Standing, Emptying
    <3> QED
      BY <2>1, <3>1 DEF Covered, Drains
  <2>8. AskPart'
    <3>1. \A d \in 1 .. Depth - 1 : stack[d].pc \in Asking =>
                obj_req'[stack[d].o].state \in {"WAITING", "COMPLETE"}
      BY <1>1, <1>2, <1>4 DEF AskPart
    <3>2. \A d \in Depth - 1 + 1 .. Depth' : stack'[d].pc \notin Asking
      BY <1>15, <2>2 DEF Asking
    <3> QED
      BY <1>1, <1>4, <2>1, <3>1, <3>2, AskStands
  <2>9. WaitPart'
    BY <1>2, <1>4 DEF WaitPart
  <2>10. \A t \in InUse' : WaiterOK(t)'
    <3>1. SUFFICES ASSUME NEW t \in InUse, t # s, slots[t].finished # 0
                   PROVE  WaiterOK(t)'
      BY <1>6, <1>10, <1>11 DEF WaiterOK
    <3>2. PICK g : g = slots[t].finished
      OBVIOUS
    <3>3. g \in 1 .. Depth /\ stack[g].pc = "run" /\ stack[g].slot = t /\ ~stack[g].finished
      BY <1>1, <3>1, <3>2 DEF WaiterOK, WaitsFor
    <3>4. g \in 1 .. Depth - 1 /\ g # f
      BY <1>1, <1>4, <1>9, <3>1, <3>3
    <3>5. stack'[g] = stack[g] /\ g \in 1 .. Depth' /\ slots'[t].finished = g
      BY <1>4, <1>6, <1>10, <2>1, <3>1, <3>2, <3>4
    <3> QED
      BY <3>3, <3>5 DEF WaiterOK, WaitsFor
  <2> QED
    BY <1>15, <2>5, <2>6, <2>7, <2>8, <2>9, <2>10 DEF HwInv
<1>16. slot.callback \in Callbacks
  BY <1>6 DEF SlotType
<1>17. Answering = {}
  BY <1>1 DEF Answering, At
<1>18. ObjTypes'
  BY <1>1, <1>2 DEF ObjPart, ObjTypes
<1>19. CASE \E p \in Obj : slot.callback = <<"object", p>>
  <2>1. PICK p \in Obj : slot.callback = <<"object", p>>
    BY <1>19
  <2>2. slot.callback[1] = "object" /\ slot.callback[2] = p
    BY <2>1
  <2>3. response \in CallType /\ response.pc = "response" /\ response.o = p
    BY <2>2, Basics DEF response, CallFor, Call, CallType, PCs, Requests, Outcomes
  <2>4. stack' = Append(TellAs(f, c), response)
    BY <1>14, <2>2
  <2>5. ToldTo(f, c) /\ Depth' = Depth /\ stack'[Depth] = response /\ Top' = response
    BY <1>1, <1>12, <2>3, <2>4, TellAndCall
  <2>6. Answering' = {p}
    BY <2>3, <2>5 DEF Answering, At
  <2>7. ObjPart'
    BY <1>1, <1>2, <1>5, <1>6, <1>10, <1>11, <1>17, <2>1, <2>6, ServiceAnswered
  <2>8. TopPart'
    BY <2>3, <2>5 DEF TopPart, At
  <2>9. stack'[Depth - 1].pc = "process"
    BY <1>4, <2>5 DEF ToldTo, Standing
  <2>10. CallOK(Depth)'
    BY <1>4, <2>3, <2>5, <2>9 DEF CallOK, Outer, OnTop, Inside, AboutObject, Asking
  <2>11. stack'[Depth].pc \in {"response", "alternates_response"}
    BY <2>3, <2>5
  <2> QED
    BY <1>15, <2>5, <2>7, <2>8, <2>10, <2>11
<1>20. CASE slot.callback \in {<<"alternates">>, Nobody}
  <2>1. PICK z \in InUse : z = s
    BY <1>5
  <2>2. /\ \A p \in Obj : ~Serves(z, p) /\ ~Serves(z, p)' /\ SameService(p)
        /\ \A t \in Slots : t # z => (t \in InUse' <=> t \in InUse)
        /\ \A t \in Slots \ {z} : slots'[t].callback = slots[t].callback
    <3>1. slots[z].callback \in {<<"alternates">>, Nobody} /\ z \notin InUse'
      BY <1>11, <1>20, <2>1
    <3>2. \A p \in Obj : ~Serves(z, p) /\ ~Serves(z, p)'
      BY <3>1, CallbackFacts DEF Serves
    <3> QED
      BY <1>2, <1>10, <1>11, <2>1, <3>2 DEF SameService
  <2>3. ASSUME Answering' = {}
        PROVE  ObjPart'
    BY <1>1, <1>6, <1>10, <1>17, <1>18, <2>2, <2>3, ServiceUnchanged
  <2>4. CASE slot.callback = <<"alternates">>
    <3>1. slot.callback[1] = "alternates"
      BY <2>4
    <3>2. /\ alternates \in CallType /\ alternates.pc = "alternates_response"
          /\ alternates.slot = s
      <4>1. PICK num \in Nat : num = s
        BY <1>6
      <4>2. alternates = [Call("alternates_response") EXCEPT !.slot = num]
        BY <4>1 DEF alternates
      <4>3. /\ alternates \in CallType /\ alternates.pc = "alternates_response"
            /\ alternates.slot = num
        <5>1. /\ Call("alternates_response") \in CallType
              /\ Call("alternates_response").pc = "alternates_response"
          BY CallTypes DEF PCs
        <5> QED
          BY <4>1, <4>2, <5>1 DEF CallType
      <4> QED
        BY <4>1, <4>3
    <3>3. stack' = Append(TellAs(f, c), alternates)
      BY <1>14, <3>1
    <3>4. ToldTo(f, c) /\ Depth' = Depth /\ stack'[Depth] = alternates /\ Top' = alternates
      BY <1>1, <1>12, <3>2, <3>3, TellAndCall
    <3>5. Answering' = {}
      BY <3>2, <3>4 DEF Answering, At
    <3>6. stack'[Depth - 1].pc = "process"
      BY <1>4, <3>4 DEF ToldTo, Standing
    <3>7. CallOK(Depth)'
      BY <1>4, <3>2, <3>4, <3>6 DEF CallOK, Outer, OnTop, Inside, AboutObject, Asking
    <3>8. f # 0 => f \in 1 .. Depth' - 1 /\ stack'[f].pc = "run" /\ stack'[f].slot = s
      BY <1>9, <3>4 DEF ToldTo, Standing
    <3>9. /\ Top'.slot = s /\ Top'.pc = "alternates_response" /\ s \in Slots' \ InUse'
          /\ slots'[s].curl # NULL /\ slots'[s].finished = f
          /\ slots'[s].callback = <<"alternates">>
      BY <1>1, <1>5, <1>7, <1>10, <1>11, <2>4, <3>2, <3>4 DEF SlotPart
    <3>10. active_requests' < max_requests'
      BY <1>1, <1>2, <1>5, SomeInUse, Basics
    <3>11. TopPart'
      BY <3>8, <3>9, <3>10 DEF TopPart, At, WaitsFor
    <3>12. stack'[Depth].pc \in {"response", "alternates_response"}
      BY <3>2, <3>4
    <3> QED
      BY <1>15, <2>3, <3>4, <3>5, <3>7, <3>11, <3>12
  <2>5. CASE slot.callback = Nobody
    <3>1. slot.callback[1] # "object" /\ slot.callback[1] # "alternates"
      BY <2>5 DEF Nobody
    <3>2. stack' = TellAs(f, c)
      BY <1>14, <3>1
    <3>3. ToldTo(f, c) /\ Depth' = Depth - 1
      BY <1>1, <1>12, <3>2, TellAndReturn
    <3>4. Top'.pc = "process"
      BY <1>4, <3>3 DEF ToldTo, Standing, Top
    <3>5. Answering' = {} /\ TopPart'
      BY <3>4 DEF Answering, TopPart, At
    <3> QED
      BY <1>4, <1>15, <2>3, <3>3, <3>5
  <2> QED
    BY <1>20, <2>4, <2>5
<1> QED
  BY <1>16, <1>19, <1>20 DEF Callbacks

\* A slot that is free and has its handle is put to work again.
LEMMA SlotRestarted ==
    ASSUME SlotPart, NEW s \in Slots, s \notin InUse, slots[s].curl # NULL,
           active_requests < max_requests, active_requests' = active_requests + 1,
           M!Register(slots[s].curl), UNCHANGED <<origin, lost, curl_session_count>>,
           NEW v \in SlotType, slots' = [slots EXCEPT ![s] = v],
           v.in_use = TRUE, v.curl = slots[s].curl,
           Top.pc \notin {"finish", "perform"}, Top'.pc = "perform"
    PROVE  /\ SlotPart' /\ Slots' = Slots /\ InUse' = InUse \cup {s} /\ slots'[s] = v
           /\ \A t \in Slots \ {s} : slots'[t] = slots[t]
<1> DEFINE h == slots[s].curl
<1>1. /\ Types /\ slots \in Seq(SlotType) /\ pending = {} /\ Finishing = {} /\ Finishing' = {}
  BY DEF SlotPart, Types, Finishing, At
<1>2. /\ Len(slots) \in Nat /\ DOMAIN slots = Slots /\ InUse \subseteq Slots
      /\ IsFiniteSet(InUse) /\ \A t \in Slots : slots[t] \in SlotType
  BY <1>1, SlotSets
<1>3. /\ h \notin registered /\ registered' = registered \cup {h} /\ pending' = {h}
      /\ UNCHANGED queue
  BY <1>1 DEF M!Register
<1>4. h \in Handles /\ h # NULL
  BY <1>2 DEF SlotType
<1>5. /\ slots' \in Seq(SlotType) /\ Slots' = Slots /\ slots'[s] = v
      /\ \A t \in Slots \ {s} : slots'[t] = slots[t]
  BY <1>1, SlotWritten
<1>6. DOMAIN slots' = Slots
  BY <1>5 DEF Slots
<1>7. InUse' = InUse \cup {s} /\ WithHandle' = WithHandle
  BY <1>2, <1>5, <1>6 DEF InUse, WithHandle
<1>8. \A t \in InUse : slots'[t] = slots[t] /\ slots[t].curl \in registered /\ slots[t].curl # h
  BY <1>2, <1>3, <1>5 DEF SlotPart
<1>9. \A t \in Slots : slots'[t].curl = slots[t].curl
  BY <1>5
<1>10. v.curl = h
  OBVIOUS
<1> HIDE DEF h
<1>11. /\ active_requests' = Cardinality(InUse') /\ active_requests' <= max_requests
       /\ active_requests' \in Nat
  <2>1. Cardinality(InUse') = Cardinality(InUse) + 1
    BY <1>2, <1>7, FS_AddElement
  <2> QED
    BY <1>1, <2>1, Basics DEF SlotPart, Types
<1>12. Types'
  BY <1>1, <1>3, <1>4, <1>5, <1>11 DEF Types
<1>13. \A a, b \in Slots' : slots'[a].curl = slots'[b].curl /\ slots'[a].curl # NULL => a = b
  BY <1>5, <1>9 DEF SlotPart
<1>14. registered' = { slots'[t].curl : t \in InUse' } /\ \A t \in InUse' : slots'[t].curl # NULL
  BY <1>3, <1>4, <1>5, <1>7, <1>8, <1>10 DEF SlotPart
<1>15. \A i \in 1 .. Len(queue') : \E t \in InUse' :
          slots'[t].curl = queue'[i].easy /\ slots'[t].of = origin'[i]
  BY <1>3, <1>7, <1>8 DEF SlotPart
<1>16. Queued' = Queued /\ h \notin Queued
  BY <1>3, <1>8 DEF Queued, SlotPart
<1>17. Silent' = Silent
  <2>1. s \notin Silent'
    BY <1>3, <1>5, <1>10 DEF Silent
  <2>2. \A t \in InUse : t \in Silent' <=> t \in Silent
    BY <1>1, <1>3, <1>7, <1>8, <1>16 DEF Silent
  <2>3. Silent \subseteq InUse /\ Silent' \subseteq InUse'
    BY DEF Silent
  <2> QED
    BY <1>7, <2>1, <2>2, <2>3
<1>18. pending' \cap Queued' = {} /\ (pending' # {} => At("perform")' /\ \E g \in Handles : pending' = {g})
  BY <1>3, <1>4, <1>16 DEF At
<1>19. \A i, j \in 1 .. Len(queue') : queue'[i].easy = queue'[j].easy => i = j
  BY <1>3 DEF SlotPart
<1>20. Cardinality(Silent') <= lost' /\ curl_session_count' = Cardinality(WithHandle')
  BY <1>7, <1>17 DEF SlotPart
<1>21. SlotPart'
  BY <1>1, <1>11, <1>12, <1>13, <1>14, <1>15, <1>18, <1>19, <1>20 DEF SlotPart
<1> QED
  BY <1>5, <1>7, <1>21

\* process_alternates_response() puts its slot to work again.
LEMMA RetryStep == ASSUME HwInv, RetryAlternates PROVE HwInv'
<1>1. /\ CallPart /\ WaitPart /\ Covered /\ AskPart /\ ObjPart /\ SlotPart /\ Types /\ TopPart
      /\ Top.pc = "alternates_response" /\ \A t \in InUse : WaiterOK(t)
  BY DEF HwInv, RetryAlternates, At, SlotPart
<1>2. PICK s \in Slots : s = Top.slot
  BY <1>1 DEF TopPart, At
<1> DEFINE f == slots[s].finished
           c == [stack[f] EXCEPT !.finished = FALSE]
           v == [slots[s] EXCEPT !.in_use = TRUE, !.of = <<"alternates", 2>>]
<1>3. /\ active_requests' = active_requests + 1
      /\ slots' = [slots EXCEPT ![s].in_use = TRUE, ![s].of = <<"alternates", 2>>]
      /\ M!Register(slots[s].curl)
      /\ stack' = Append(IF slots[s].finished = 0 THEN Below
                         ELSE [Below EXCEPT ![slots[s].finished].finished = FALSE],
                         Call("perform"))
      /\ UNCHANGED <<curl_session_count, origin, lost>>
      /\ UNCHANGED <<obj_req, got_alternates, alts, has>>
  BY <1>2 DEF RetryAlternates, walkVars
<1>4. /\ Depth \in Nat /\ Depth >= 2 /\ Top = stack[Depth] /\ Top \in CallType
      /\ stack[Depth - 1].pc = "process" /\ Depth - 1 \in 1 .. Depth - 1
      /\ \A p \in Obj : obj_req[p].state # "WAITING"
  BY <1>1, Places, StackFacts, NotWaiting DEF CallOK, Inside
<1>5. /\ s \notin InUse /\ slots[s].curl # NULL /\ slots[s].callback = <<"alternates">>
      /\ active_requests < max_requests
      /\ f # 0 => f \in 1 .. Depth - 1 /\ stack[f].pc = "run" /\ stack[f].slot = s
  BY <1>1, <1>2 DEF TopPart, At, WaitsFor
<1>6. /\ slots[s] \in SlotType /\ InUse \subseteq Slots /\ s \in Nat /\ DOMAIN slots = Slots
      /\ slots \in Seq(SlotType) /\ f \in Nat
  BY <1>1, SlotSets DEF Types, SlotType
<1>7. /\ v \in SlotType /\ v.in_use = TRUE /\ v.curl = slots[s].curl
      /\ v.callback = slots[s].callback /\ v.finished = f
  BY <1>6 DEF SlotType, Requests
<1>8. slots' = [slots EXCEPT ![s] = v]
  BY <1>3
<1> HIDE DEF v
<1>9. f # 0 => stack[f] \in CallType
  BY <1>1, <1>4, <1>5, StackFacts
<1>10. f # 0 => /\ c \in CallType /\ c.pc = "run" /\ c.slot = s /\ c.o = stack[f].o
                /\ ~c.finished
  BY <1>5, <1>9 DEF CallType
<1>11. Telling(f, c)
  BY <1>4, <1>5, <1>6, <1>10 DEF Telling
<1>12. stack' = Append(TellAs(f, c), Call("perform"))
  <2>1. CASE f = 0
    BY <1>3, <2>1 DEF TellAs
  <2>2. CASE f # 0
    <3>1. Below[f] = stack[f] /\ f \in DOMAIN Below
      BY <1>1, <1>4, <1>5, <2>2, StackFacts
    <3> QED
      BY <1>3, <2>2, <3>1 DEF TellAs
  <2> QED
    BY <2>1, <2>2
<1> HIDE DEF c
<1>13. Call("perform") \in CallType /\ Call("perform").pc = "perform"
  BY CallTypes DEF PCs
<1>14. ToldTo(f, c) /\ Depth' = Depth /\ stack'[Depth].pc = "perform" /\ Top'.pc = "perform"
  BY <1>1, <1>11, <1>12, <1>13, TellAndCall
<1>15. /\ SlotPart' /\ Slots' = Slots /\ InUse' = InUse \cup {s} /\ slots'[s] = v
       /\ \A t \in Slots \ {s} : slots'[t] = slots[t]
  BY <1>1, <1>3, <1>5, <1>7, <1>8, <1>14, SlotRestarted
<1>16. ObjPart'
  <2>1. ObjTypes'
    BY <1>1, <1>3 DEF ObjPart, ObjTypes
  <2>2. Answering = {} /\ Answering' = {}
    BY <1>1, <1>14 DEF Answering, At
  <2>3. Slots' = Slots \cup {s} /\ slots'[s].callback \in {<<"alternates">>, Nobody}
    BY <1>5, <1>7, <1>15
  <2> QED
    BY <1>1, <1>3, <1>5, <1>6, <1>15, <2>1, <2>2, <2>3, OtherSlotTaken
<1>17. /\ Standing(Depth - 1) /\ Depth - 1 < Depth
       /\ \A d \in 1 .. Depth - 1 : d # f => stack'[d] = stack[d]
       /\ f # 0 => stack'[f] = c
  BY <1>4, <1>14 DEF ToldTo
<1>18. CallOK(Depth)'
  BY <1>4, <1>14 DEF CallOK, Outer, OnTop, Inside, AboutObject, Asking
<1>19. \A d \in Depth - 1 + 1 .. Depth' : d = Depth /\ Depth' = Depth
  BY <1>4, <1>14
<1>20. CallPart'
  <2>1. \A d \in Depth - 1 + 1 .. Depth' : CallOK(d)'
    BY <1>18, <1>19
  <2> QED
    BY <1>1, <1>4, <1>14, <1>15, <1>17, <2>1, CallsStand
<1>21. Covered'
  <2>1. stack'[Depth - 1].pc \in Emptying /\ Depth - 1 \in 1 .. Depth'
    BY <1>4, <1>14, <1>17 DEF Standing, Emptying
  <2> QED
    BY <2>1 DEF Covered, Drains
<1>22. AskPart'
  <2>1. \A d \in 1 .. Depth - 1 : stack[d].pc \in Asking =>
              obj_req'[stack[d].o].state \in {"WAITING", "COMPLETE"}
    BY <1>1, <1>3, <1>4 DEF AskPart
  <2>2. \A d \in Depth - 1 + 1 .. Depth' : stack'[d].pc \notin Asking
    BY <1>14, <1>19 DEF Asking
  <2> QED
    BY <1>1, <1>4, <1>17, <2>1, <2>2, AskStands
<1>23. TopPart' /\ WaitPart'
  BY <1>3, <1>4, <1>14 DEF TopPart, WaitPart, At
<1>24. WaiterOK(s)'
  <2>1. slots'[s].finished = f
    BY <1>7, <1>15
  <2>2. CASE f = 0
    BY <2>1, <2>2 DEF WaiterOK
  <2>3. CASE f # 0
    BY <1>4, <1>5, <1>10, <1>14, <1>17, <2>1, <2>3 DEF WaiterOK, WaitsFor
  <2> QED
    BY <2>2, <2>3
<1>25. ASSUME NEW t \in InUse, slots[t].finished # 0
       PROVE  WaiterOK(t)'
  <2>1. PICK g : g = slots[t].finished
    OBVIOUS
  <2>2. g \in 1 .. Depth /\ stack[g].pc = "run" /\ stack[g].slot = t /\ ~stack[g].finished
    BY <1>1, <1>25, <2>1 DEF WaiterOK, WaitsFor
  <2>3. g \in 1 .. Depth - 1 /\ g # f /\ t # s
    BY <1>1, <1>4, <1>5, <2>2
  <2>4. stack'[g] = stack[g] /\ g \in 1 .. Depth' /\ slots'[t].finished = g
    BY <1>4, <1>6, <1>14, <1>15, <1>17, <2>1, <2>3
  <2> QED
    BY <2>2, <2>4 DEF WaiterOK, WaitsFor
<1>26. \A t \in InUse' : WaiterOK(t)'
  <2>1. \A t \in InUse : slots[t].finished = 0 => WaiterOK(t)'
    BY <1>5, <1>6, <1>15 DEF WaiterOK
  <2> QED
    BY <1>15, <1>24, <1>25, <2>1
<1> QED
  BY <1>15, <1>16, <1>20, <1>21, <1>22, <1>23, <1>26 DEF HwInv

\* release_active_slot(): the request is dropped, and with it the slot it has,
\* whose completion does not wait as long as not all slots are silent.
LEMMA AbortReleases ==
    ASSUME HwInv, SlotsRemain, AbortRequest, NEW o \in Obj, o = Top.o,
           NEW s, s = obj_req[o].slot, s # 0
    PROVE  HwInv'
<1> DEFINE close == curl_session_count > min_curl_sessions
           v == [slots[s] EXCEPT !.in_use = FALSE, !.callback = Nobody,
                                 !.curl = IF close THEN NULL ELSE @]
<1>1. /\ CallPart /\ WaitPart /\ AskPart /\ ObjPart /\ SlotPart /\ Types
      /\ Top.pc = "fetch_object" /\ \A t \in InUse : WaiterOK(t)
  BY DEF HwInv, AbortRequest, At, SlotPart
<1>2. /\ obj_req' = [obj_req EXCEPT ![o].state = "gone", ![o].slot = 0]
      /\ active_requests' = active_requests - 1
      /\ xmulti_remove_handle(slots[s].curl)
      /\ slots' = [slots EXCEPT ![s].in_use = FALSE, ![s].callback = Nobody,
                                ![s].curl = IF close THEN NULL ELSE @]
      /\ curl_session_count' = curl_session_count - (IF close THEN 1 ELSE 0)
      /\ Become(<< Call("fill") >>)
      /\ UNCHANGED <<origin, lost>> /\ UNCHANGED <<got_alternates, alts, has>>
  BY DEF AbortRequest
<1>3. /\ Depth = 2 /\ stack[1].pc \in {"walk", "failed"} /\ Top = stack[2]
      /\ \A p \in Obj : obj_req[p].state # "WAITING"
  BY <1>1, Places, StackFacts, NotWaiting DEF Outer
<1>4. queue = <<>>
  BY <1>1, <1>3, Alone DEF Emptying
<1>5. Answering = {} /\ Finishing = {} /\ pending = {} /\ Queued = {}
  BY <1>1, <1>4 DEF Answering, Finishing, SlotPart, At, Queued
<1>6. obj_req[o].state = "ACTIVE" /\ s \in Slots /\ Serves(s, o) /\ s \in InUse
  BY <1>1, <1>5 DEF ObjPart, Serves
<1>7. /\ slots[s] \in SlotType /\ InUse \subseteq Slots /\ DOMAIN slots = Slots
      /\ slots \in Seq(SlotType) /\ IsFiniteSet(WithHandle)
  BY <1>1, <1>6, SlotSets DEF Types
<1>8. /\ v \in SlotType /\ v.in_use = FALSE
      /\ v.curl = IF close THEN NULL ELSE slots[s].curl
  <2>1. NULL \in Handles \cup {NULL} /\ Nobody \in Callbacks
    BY DEF Callbacks
  <2>2. PICK h \in Handles \cup {NULL} : h = IF close THEN NULL ELSE slots[s].curl
    BY <1>7 DEF SlotType
  <2>3. v = [slots[s] EXCEPT !.in_use = FALSE, !.callback = Nobody, !.curl = h]
    BY <2>2
  <2> HIDE DEF close, v
  <2>4. v \in SlotType /\ v.in_use = FALSE /\ v.curl = h
    BY <1>7, <2>1, <2>3 DEF SlotType
  <2> QED
    BY <2>2, <2>4
<1>9. slots' = [slots EXCEPT ![s] = v]
  BY <1>2
<1> HIDE DEF v
<1>10. /\ slots' \in Seq(SlotType) /\ Slots' = Slots /\ slots'[s] = v
       /\ \A t \in Slots \ {s} : slots'[t] = slots[t]
  BY <1>6, <1>7, <1>8, <1>9, SlotWritten
<1>11. DOMAIN slots' = Slots
  BY <1>10 DEF Slots
<1>12. InUse' = InUse \ {s}
  BY <1>7, <1>8, <1>10, <1>11 DEF InUse
<1>13. curl_session_count' = Cardinality(WithHandle') /\ curl_session_count' \in Nat
  <2>1. s \in WithHandle
    BY <1>1, <1>6 DEF SlotPart, WithHandle
  <2>2. curl_session_count \in Nat /\ curl_session_count = Cardinality(WithHandle)
    BY <1>1 DEF SlotPart, Types
  <2>3. CASE close
    <3>1. WithHandle' = WithHandle \ {s}
      BY <1>8, <1>10, <2>3 DEF WithHandle
    <3>2. Cardinality(WithHandle') = Cardinality(WithHandle) - 1
      BY <1>7, <2>1, <3>1, FS_RemoveElement
    <3>3. curl_session_count' = curl_session_count - 1 /\ curl_session_count > 1
      BY <1>2, <2>3 DEF min_curl_sessions
    <3> QED
      BY <2>2, <3>2, <3>3
  <2>4. CASE ~close
    <3>1. WithHandle' = WithHandle
      BY <1>6, <1>8, <1>10, <2>4 DEF WithHandle
    <3> QED
      BY <1>2, <2>2, <2>4, <3>1
  <2> QED
    BY <2>3, <2>4
<1>14. Call("fill") \in CallType /\ Call("fill").pc = "fill"
  BY CallTypes DEF PCs
<1>15. /\ Kept(1) /\ Depth' = 2 /\ stack'[2].pc = "fill" /\ Top'.pc = "fill"
  <2>1. /\ Kept(Depth - 1) /\ Depth' = Depth /\ stack'[Depth] = Call("fill")
        /\ Top' = Call("fill")
    BY <1>1, <1>2, <1>14, Replaced
  <2>2. Depth - 1 = 1
    BY <1>3
  <2> QED
    BY <1>3, <1>14, <2>1, <2>2
<1>16. SlotPart'
  <2>1. registered' \subseteq Handles /\ pending' \subseteq registered' /\ UNCHANGED queue
    BY <1>1, <1>2 DEF Types, xmulti_remove_handle, M!Unregister
  <2>2. active_requests' \in Nat
    BY <1>1, <1>2, <1>6, SomeInUse
  <2>3. Types'
    BY <1>1, <1>2, <1>10, <1>13, <2>1, <2>2 DEF Types
  <2>4. slots'[s].curl \in {slots[s].curl, NULL}
    BY <1>8, <1>10
  <2>5. Finishing' = {} /\ slots[s].curl \notin Queued
    BY <1>5, <1>15 DEF Finishing, At
  <2> QED
    BY <1>1, <1>2, <1>5, <1>6, <1>10, <1>12, <1>13, <2>3, <2>4, <2>5, SlotReleased
<1>17. /\ obj_req' \in [Obj -> ReqType] /\ obj_req'[o].state = "gone" /\ obj_req'[o].slot = 0
       /\ \A p \in Obj : p # o => obj_req'[p] = obj_req[p]
  <2> DEFINE w == [obj_req[o] EXCEPT !.state = "gone", !.slot = 0]
  <2>1. obj_req \in [Obj -> ReqType] /\ obj_req[o] \in ReqType
    BY <1>1 DEF ObjPart, ObjTypes
  <2>2. w \in ReqType /\ w.state = "gone" /\ w.slot = 0
    BY <2>1 DEF ReqType
  <2>3. obj_req' = [obj_req EXCEPT ![o] = w]
    BY <1>2
  <2> HIDE DEF w
  <2> QED
    BY <2>1, <2>2, <2>3
<1>18. ObjPart'
  <2>1. ObjTypes'
    BY <1>1, <1>2, <1>17 DEF ObjPart, ObjTypes
  <2>2. Answering' = {}
    BY <1>15 DEF Answering, At
  <2>3. \A p \in Obj : ~Serves(s, p)'
    BY <1>12 DEF Serves
  <2>4. \A p \in Obj, t \in Slots : t # s => (Serves(t, p)' <=> Serves(t, p))
    BY <1>10, <1>12 DEF Serves
  <2>5. \A p \in Obj, t \in Slots : Serves(t, p)' => p # o
    BY <1>1, <1>6, <2>3, <2>4 DEF ObjPart
  <2>6. \A p \in Obj, t \in Slots' :
            Serves(t, p)' => obj_req'[p].state = "ACTIVE" /\ obj_req'[p].slot = t
    BY <1>1, <1>10, <1>17, <2>3, <2>4, <2>5 DEF ObjPart
  <2>7. ASSUME NEW p \in Obj, obj_req'[p].state = "ACTIVE"
        PROVE  obj_req'[p].slot \in Slots' /\ Serves(obj_req[p].slot, p)'
    <3>1. p # o /\ obj_req'[p] = obj_req[p] /\ obj_req[p].state = "ACTIVE"
      BY <1>17, <2>7
    <3>2. PICK t \in Slots : t = obj_req[p].slot /\ Serves(t, p)
      BY <1>1, <1>5, <3>1 DEF ObjPart
    <3>3. t # s
      BY <1>6, <3>1, <3>2, CallbackFacts DEF Serves
    <3>4. Serves(t, p)' /\ t = obj_req'[p].slot
      BY <2>4, <3>1, <3>2, <3>3
    <3> QED
      BY <1>10, <3>4
  <2>8. \A p \in Obj : obj_req'[p].state # "ACTIVE" => obj_req'[p].slot = 0
    BY <1>1, <1>17 DEF ObjPart
  <2> QED
    BY <2>1, <2>2, <2>6, <2>7, <2>8 DEF ObjPart
<1>19. Standing(1) /\ \A d \in 1 + 1 .. Depth' : d = 2
  BY <1>15, KeptStands
<1>20. CallPart'
  <2>1. \A d \in 1 + 1 .. Depth' : CallOK(d)'
    BY <1>15, <1>19 DEF CallOK, Outer, OnTop, Inside, AboutObject, Asking
  <2> QED
    BY <1>1, <1>3, <1>10, <1>15, <1>19, <2>1, CallsStand
<1>21. Covered'
  <2>1. UNCHANGED queue
    BY <1>2 DEF xmulti_remove_handle, M!Unregister
  <2> QED
    BY <1>4, <1>15, <2>1 DEF Covered, At
<1>22. AskPart'
  <2>1. \A d \in 1 .. 1 : stack[d].pc \notin Asking
    BY <1>3 DEF Asking
  <2>2. \A d \in 1 + 1 .. Depth' : stack'[d].pc \notin Asking
    BY <1>15, <1>19 DEF Asking
  <2> QED
    BY <1>1, <1>3, <1>19, <2>1, <2>2, AskStands
<1>23. TopPart'
  BY <1>15 DEF TopPart, At
<1>24. WaitPart'
  <2>1. \A p \in Obj : obj_req'[p].state # "WAITING"
    BY <1>3, <1>17
  <2> QED
    BY <2>1 DEF WaitPart
<1>25. \A t \in InUse' : WaiterOK(t)'
  <2>1. SUFFICES ASSUME NEW t \in InUse, t # s
                 PROVE  WaiterOK(t)'
    BY <1>12
  <2>2. slots[t].finished = 0
    <3>1. SUFFICES ASSUME slots[t].finished # 0
                   PROVE  FALSE
      OBVIOUS
    <3>2. slots[t].finished \in 1 .. 2 /\ stack[slots[t].finished].pc = "run"
      BY <1>1, <1>3, <3>1 DEF WaiterOK, WaitsFor
    <3>3. stack[1].pc # "run" /\ stack[2].pc # "run"
      BY <1>1, <1>3
    <3> QED
      BY <3>2, <3>3
  <2>3. slots'[t] = slots[t]
    BY <1>7, <1>10, <2>1
  <2> QED
    BY <2>2, <2>3 DEF WaiterOK
<1> QED
  BY <1>16, <1>18, <1>20, <1>21, <1>22, <1>23, <1>24, <1>25 DEF HwInv

\* abort_object_request(), with a slot to release or without.
LEMMA AbortStep == ASSUME HwInv, SlotsRemain, AbortRequest PROVE HwInv'
<1>1. CallPart /\ ObjPart /\ SlotPart /\ Top.pc = "fetch_object"
  BY DEF HwInv, AbortRequest, At
<1>2. /\ Depth = 2 /\ Top.o \in Obj /\ Top = stack[2]
  BY <1>1, Places, StackFacts DEF Outer, AboutObject
<1>3. PICK o \in Obj : o = Top.o
  BY <1>2
<1>4. CASE obj_req[o].slot # 0
  BY <1>3, <1>4, AbortReleases
<1>5. CASE obj_req[o].slot = 0
  <2>1. /\ obj_req' = [obj_req EXCEPT ![o].state = "gone", ![o].slot = 0]
        /\ Return
        /\ UNCHANGED <<registered, pending, queue, origin, lost>>
        /\ UNCHANGED <<slots, active_requests, curl_session_count>>
        /\ UNCHANGED <<got_alternates, alts, has>>
    BY <1>3, <1>5 DEF AbortRequest, multiVars, slotVars
  <2>2. obj_req \in [Obj -> ReqType] /\ obj_req[o] \in ReqType
    BY <1>1 DEF ObjPart, ObjTypes
  <2>3. obj_req[o].state # "ACTIVE"
    <3>1. 0 \notin Slots
      BY DEF Slots
    <3> QED
      BY <1>1, <1>5, <3>1 DEF ObjPart
  <2>4. [obj_req[o] EXCEPT !.state = "gone", !.slot = 0] = [obj_req[o] EXCEPT !.state = "gone"]
    BY <1>5, <2>2 DEF ReqType
  <2>5. obj_req' = [obj_req EXCEPT ![o] = [@ EXCEPT !.state = "gone"]]
    BY <2>1, <2>4
  <2>6. Kept(1) /\ Depth' = 1
    BY <1>1, <1>2, <2>1, Popped
  <2> QED
    BY <1>1, <1>3, <2>1, <2>3, <2>5, <2>6, Forgotten
<1> QED
  BY <1>4, <1>5

-----------------------------------------------------------------------------
(* The theorems *)

\* As long as not all slots are silent the invariant holds.
Sound == lost \in Nat /\ (SlotsRemain => HwInv)

\* A completion is lost at a time, so that the slots do not come back.
LEMMA LostGrows ==
    ASSUME lost \in Nat, HwNext
    PROVE  lost' \in Nat /\ (SlotsRemain' => SlotsRemain)
<1>1. lost' = lost \/ lost' = lost + 1
  BY DEF HwNext, prefetch, ScanOnly, fetch, FillOne, FillEnd, WaitForSlot,
         start_object_request, start_alternates, start_pack, get_active_slot,
         start_active_slot, StartLosesMessage, run_active_slot, step_active_slots,
         process_curl_messages, finish_active_slot, process_object_response,
         TryNextRepo, fetch_alternates, RetryAlternates, AlternatesArrive,
         AbortRequest, FetchBegin, AwaitRequest, FetchEnd, http_fetch_pack,
         PackFetched, PackMissing, multiVars
<1> QED
  BY <1>1, Basics DEF SlotsRemain

\* Every step keeps the invariant.
LEMMA NextKeeps == ASSUME HwInv, SlotsRemain, HwNext PROVE HwInv'
<1>1. CASE prefetch \/ ScanOnly \/ fetch
  BY <1>1, PrefetchStep, ScanOnlyStep, FetchStep
<1>2. CASE FillOne \/ FillEnd \/ WaitForSlot
  BY <1>2, FillOneStep, FillEndStep, WaitForSlotStep
<1>3. CASE start_object_request \/ start_alternates \/ start_pack
  BY <1>3, StartObjectStep, StartRunStep
<1>4. CASE start_active_slot \/ StartLosesMessage
  BY <1>4, StartActiveSlotStep, StartLosesStep
<1>5. CASE run_active_slot \/ step_active_slots \/ process_curl_messages
  BY <1>5, RunStep, StepStep, ProcessStep
<1>6. CASE finish_active_slot
  BY <1>6, FinishStep
<1>7. CASE process_object_response \/ TryNextRepo \/ fetch_alternates
  BY <1>7, ResponseStep, TryNextStep, FetchAlternatesStep
<1>8. CASE RetryAlternates \/ AlternatesArrive
  BY <1>8, RetryStep, AlternatesArriveStep
<1>9. CASE AbortRequest \/ FetchBegin \/ AwaitRequest \/ FetchEnd
  BY <1>9, AbortStep, FetchBeginStep, AwaitStep, FetchEndStep
<1>10. CASE http_fetch_pack \/ PackFetched \/ PackMissing
  BY <1>10, FetchPackStep, PackFetchedStep, PackMissingStep
<1> QED
  BY <1>1, <1>2, <1>3, <1>4, <1>5, <1>6, <1>7, <1>8, <1>9, <1>10 DEF HwNext

\* Nothing happens.
LEMMA Stutters == ASSUME Sound, UNCHANGED hwVars PROVE Sound'
<1>1. /\ UNCHANGED <<registered, pending, queue, origin, lost>>
      /\ UNCHANGED <<slots, active_requests, curl_session_count>>
      /\ UNCHANGED <<obj_req, got_alternates, alts, has, stack>>
  BY DEF hwVars, multiVars, slotVars, walkVars
<1>2. /\ Types' = Types /\ ObjTypes' = ObjTypes /\ Slots' = Slots /\ InUse' = InUse
      /\ Queued' = Queued /\ WithHandle' = WithHandle /\ Depth' = Depth /\ Top' = Top
  BY <1>1 DEF Types, ObjTypes, Slots, InUse, Queued, WithHandle, Depth, Top
<1>3. Finishing' = Finishing /\ Answering' = Answering /\ SlotsRemain' = SlotsRemain
  BY <1>1, <1>2 DEF Finishing, Answering, At, SlotsRemain
<1>4. Silent' = Silent
  BY <1>1, <1>2, <1>3 DEF Silent
<1>5. SlotPart' = SlotPart
  BY <1>1, <1>2, <1>3, <1>4 DEF SlotPart, At
<1>6. ObjPart' = ObjPart
  BY <1>1, <1>2, <1>3 DEF ObjPart, Serves
<1>7. CallPart' = CallPart
  BY <1>1, <1>2 DEF CallPart, CallOK
<1>8. Covered' = Covered /\ AskPart' = AskPart /\ TopPart' = TopPart /\ WaitPart' = WaitPart
  BY <1>1, <1>2 DEF Covered, Drains, AskPart, TopPart, WaitPart, WaitsFor, At
<1>9. (\A s \in InUse : WaiterOK(s))' = (\A s \in InUse : WaiterOK(s))
  BY <1>1, <1>2 DEF WaiterOK, WaitsFor
<1>10. HwInv' = HwInv
  BY <1>5, <1>6, <1>7, <1>8, <1>9 DEF HwInv
<1> QED
  BY <1>1, <1>3, <1>10 DEF Sound

\* The inductive invariant: the counters, handles, completions, waiting calls
\* and requests of http.c and http-walker.c fit together, for every number of
\* slots and objects and every nesting of callbacks, as long as fewer
\* completions were lost than there are slots.
THEOREM WalkerInvariant == HwSpec => []Sound
<1>1. HwInit => Sound
  <2>1. HwInit => lost = 0
    BY DEF HwInit
  <2> QED
    BY <2>1, InitInv DEF Sound
<1>2. Sound /\ [HwNext]_hwVars => Sound'
  <2>1. SUFFICES ASSUME Sound, [HwNext]_hwVars
                 PROVE  Sound'
    OBVIOUS
  <2>2. CASE HwNext
    <3>1. lost' \in Nat /\ (SlotsRemain' => SlotsRemain)
      BY <2>1, <2>2, LostGrows DEF Sound
    <3>2. SlotsRemain => HwInv'
      BY <2>1, <2>2, NextKeeps DEF Sound
    <3> QED
      BY <3>1, <3>2 DEF Sound
  <2>3. CASE UNCHANGED hwVars
    BY <2>1, <2>3, Stutters
  <2> QED
    BY <2>1, <2>2, <2>3
<1> QED
  BY <1>1, <1>2, PTL DEF HwSpec

\* active_requests and curl_session_count, which http.c adjusts by hand in
\* nine places, always count the slots in use and the handles, and a slot in
\* use keeps its handle.
THEOREM WalkerSlotsCounted == HwSpec => []SlotsCounted
<1>1. Sound => SlotsCounted
  BY InvariantImplies DEF Sound
<1> QED
  BY <1>1, WalkerInvariant, PTL

\* process_curl_messages() never takes a completion for one of another request
\* on the same slot or handle.
THEOREM WalkerCompletionsBelong == HwSpec => []CompletionsBelong
<1>1. Sound => CompletionsBelong
  BY InvariantImplies DEF Sound
<1> QED
  BY <1>1, WalkerInvariant, PTL

\* finish_active_slot() writes through slot->finished only into the frame of a
\* run_active_slot() that is under way and waits for this slot.
THEOREM WalkerWaitersStand == HwSpec => []WaitersStand
<1>1. Sound => WaitersStand
  BY InvariantImplies DEF Sound
<1> QED
  BY <1>1, WalkerInvariant, PTL

\* process_object_response() is called exactly once for a request that is
\* ACTIVE, and never for one that fetch_object() has freed.
THEOREM WalkerCallbacksLive == HwSpec => []CallbacksLive
<1>1. Sound => CallbacksLive
  BY InvariantImplies DEF Sound
<1> QED
  BY <1>1, WalkerInvariant, PTL
=============================================================================
