--------------------------- MODULE RefStoreProofs ---------------------------
(***************************************************************************)
(* TLAPS proofs about RefStore, for any processes, references, requests    *)
(* and number of faults.                                                   *)
(***************************************************************************)
EXTENDS RefStore, WellFoundedInduction, TLAPS

\* Who can hold a lock file: a process, nobody, or a process that is dead.
Holder == Proc \cup {Free, Stale}

\* One entry of a transaction.
Update == [ref : Ref, new : Oid \cup {Keep}, old : Oid \cup {Any}]

\* The memory of a process.
Memory == [pc : {"idle", "lock", "stat", "open", "readpacked", "fill", "return",
                 "packlock", "stage", "packcommit", "packunlock", "finish", "cleanup"},
           op : {"none", "txn", "prune", "pack", "read", "iter"},
           txn : Seq(Update), pos : Nat, target : Ref \cup {""},
           got : [Ref -> [val : Oid \cup {Any}, packed : BOOLEAN]],
           tries : 0 .. ReadTries, todo : SUBSET Ref, cache : [Ref -> Oid],
           broken : SUBSET Ref, gaveup : SUBSET Ref,
           failed : BOOLEAN, did : SUBSET Nat, linger : SUBSET Ref]

\* The types of the files.
FilesOK ==
    /\ loose \in [Ref -> Oid] /\ packed \in [Ref -> Oid]
    /\ reflock \in [Ref -> Holder] /\ packlock \in Holder
    /\ staging \in [by : Holder, refs : [Ref -> Oid]]

\* Reading a reference; an operation that deletes or replaces references.
Looks(s) == s.pc \in {"stat", "open", "readpacked"}
Changes(s) == s.op \in {"txn", "prune"}

\* Where an operation of each kind may be, and what it has done by then.
Sound(s) ==
    /\ s \in Memory
    /\ s.did \subseteq DOMAIN s.txn
    /\ s.pc = "idle" => s.op = "none"
    /\ s.pc = "lock" => Changes(s)
    /\ Looks(s) => s.target \in Ref /\ s.op # "none"
    /\ s.pc = "lock" \/ (Looks(s) /\ Changes(s)) => s.pos \in DOMAIN s.txn
    /\ s.pc = "fill" => s.op \in {"pack", "iter"}
    /\ s.pc = "return" => s.op \in {"read", "iter"}
    /\ s.pc = "return" /\ s.op = "read" => s.target \in Ref
    /\ s.pc \in {"packlock", "stage"} => s.op \in {"txn", "pack"}
    /\ s.pc \in {"packcommit", "packunlock"} => s.op = "pack"
    /\ s.pc \in {"finish", "cleanup"} => Changes(s)
    /\ s.did # {} => s.pc \in {"finish", "cleanup"}
    /\ s.did \cap Deletes(s) # {} => NeedsCommit(s) = {}

\* Whose lock files there are: those of a process belong to what it is doing.
Tied(p, s, locks, pack, by) ==
    /\ \A r \in Ref : locks[r] = p =>
          Changes(s) /\ \E i \in DOMAIN s.txn : s.txn[i].ref = r
    /\ pack = p => \/ s.op = "txn" /\ s.pc \in {"stage", "finish", "cleanup"}
                   \/ s.op = "pack" /\ s.pc \in {"fill", "stat", "open", "readpacked",
                                                 "stage", "packcommit", "packunlock"}
    /\ s.pc = "stage" => pack = p
    /\ by = p => /\ pack = p
                 /\ \/ s.op = "txn" /\ s.pc \in {"finish", "cleanup"}
                    \/ s.op = "pack" /\ s.pc = "packcommit"

\* The inductive invariant.
RSInv ==
    /\ FilesOK
    /\ proc \in [Proc -> Memory]
    /\ \A p \in Proc : /\ Sound(proc[p])
                       /\ Tied(p, proc[p], reflock, packlock, staging.by)

-----------------------------------------------------------------------------

\* The markers are no object names and no processes.
LEMMA Constants ==
    /\ Null \in Oid /\ Any \notin Oid /\ Keep \notin Oid
    /\ Free \notin Proc /\ Stale \notin Proc /\ Free # Stale
    /\ NewOids \subseteq Oid
BY RefStoreAssumption DEF RefStoreAssumption, Null, Oid, Any, Keep, Free, Stale, NewOids

\* The domain and the elements of a sequence.
LEMMA SeqFacts ==
    ASSUME NEW S, NEW q \in Seq(S)
    PROVE  /\ Len(q) \in Nat /\ DOMAIN q = 1 .. Len(q)
           /\ \A i \in DOMAIN q : q[i] \in S
           /\ q # <<>> => Len(q) # 0
OBVIOUS

\* A process between two operations is sound.
LEMMA IdleSound == Sound(Idle)
<1>1. <<>> \in Seq(Update) /\ DOMAIN <<>> = {}
  OBVIOUS
<1>2. Idle \in Memory
  BY <1>1, Constants DEF Idle, Memory, Unread, ReadTries
<1> QED
  BY <1>1, <1>2 DEF Sound, Idle, Looks, Changes

\* A step of one process: it suffices to look at its own memory and files,
\* as long as it takes no lock file away from, and gives none to, another.
LEMMA OneProcess ==
    ASSUME RSInv, NEW p \in Proc, NEW t,
           proc' = [proc EXCEPT ![p] = t], FilesOK', Sound(t),
           Tied(p, t, reflock', packlock', staging'.by),
           \A q \in Proc \ {p} :
              /\ \A r \in Ref : reflock'[r] = q => reflock[r] = q
              /\ packlock' = q <=> packlock = q
              /\ staging'.by = q => staging.by = q
    PROVE  RSInv'
<1>1. t \in Memory
  BY DEF Sound
<1>2. proc' \in [Proc -> Memory] /\ proc'[p] = t
      /\ \A q \in Proc \ {p} : proc'[q] = proc[q]
  BY <1>1 DEF RSInv
<1>3. ASSUME NEW q \in Proc
      PROVE  Sound(proc'[q]) /\ Tied(q, proc'[q], reflock', packlock', staging'.by)
  <2>1. CASE q = p
    BY <1>2, <2>1
  <2>2. CASE q # p
    <3>1. proc'[q] = proc[q] /\ Sound(proc[q])
          /\ Tied(q, proc[q], reflock, packlock, staging.by)
      BY <1>2, <2>2 DEF RSInv
    <3> QED
      BY <2>2, <3>1 DEF Tied
  <2> QED
    BY <2>1, <2>2
<1> QED
  BY <1>2, <1>3 DEF RSInv, Sound, Tied, Deletes, NeedsCommit, Looks, Changes

\* A transaction that fails goes on to its clean-up, as it is.
LEMMA FailSound ==
    ASSUME NEW s, Sound(s), Changes(s)
    PROVE  Sound(Fail(s)) /\ Fail(s).op = s.op /\ Fail(s).txn = s.txn
           /\ Fail(s).pc = "cleanup"
<1>1. Fail(s) \in Memory
  BY DEF Sound, Memory, Fail
<1>2. /\ Fail(s).op = s.op /\ Fail(s).txn = s.txn /\ Fail(s).pc = "cleanup"
      /\ Fail(s).did = s.did /\ Fail(s).got = s.got
  BY DEF Sound, Memory, Fail
<1>3. Deletes(Fail(s)) = Deletes(s) /\ NeedsCommit(Fail(s)) = NeedsCommit(s)
  BY <1>2 DEF Deletes, NeedsCommit
<1> QED
  BY <1>1, <1>2, <1>3 DEF Sound, Changes, Looks

\* The next reference, or the end of locking, of an operation that has done
\* nothing yet.
LEMMA NextUpdateSound ==
    ASSUME NEW s, s \in Memory, s.did = {}, Changes(s), s.pos \in DOMAIN s.txn
    PROVE  /\ Sound(NextUpdate(s))
           /\ NextUpdate(s).op = s.op /\ NextUpdate(s).txn = s.txn
           /\ NextUpdate(s).pc # "stage"
<1>0. s.txn \in Seq(Update) /\ s.pos \in Nat
  BY DEF Memory
<1>1. s.txn \in Seq(Update) /\ Len(s.txn) \in Nat /\ DOMAIN s.txn = 1 .. Len(s.txn)
      /\ s.pos \in Nat
  BY <1>0
<1>2. CASE s.pos < Len(s.txn)
  <2>1. NextUpdate(s) = [s EXCEPT !.pos = @ + 1, !.pc = "lock"]
    BY <1>2 DEF NextUpdate
  <2>2. s.pos + 1 \in Nat /\ s.pos + 1 \in DOMAIN s.txn
    BY <1>1, <1>2
  <2> QED
    BY <1>1, <2>1, <2>2 DEF Sound, Memory, Changes, Looks
<1>3. CASE s.pos = Len(s.txn) /\ s.op = "txn" /\ Deletes(s) # {}
  <2>1. NextUpdate(s) = [s EXCEPT !.pc = "packlock"]
    BY <1>1, <1>3 DEF NextUpdate
  <2> QED
    BY <1>1, <1>3, <2>1 DEF Sound, Memory, Changes, Looks
<1>4. CASE ~(s.pos < Len(s.txn)) /\ ~(s.pos = Len(s.txn) /\ s.op = "txn" /\ Deletes(s) # {})
  <2>1. NextUpdate(s) = [s EXCEPT !.pc = "finish"]
    BY <1>1, <1>4 DEF NextUpdate
  <2> QED
    BY <1>1, <1>4, <2>1 DEF Sound, Memory, Changes, Looks
<1> QED
  BY <1>2, <1>3, <1>4

\* What a read hands over: the operation stays, and pack-refs goes on filling.
LEMMA DeliverSound ==
    ASSUME NEW s, Sound(s), Looks(s), NEW v \in Oid, NEW b \in BOOLEAN
    PROVE  LET t == Deliver(s, v, b)
           IN  /\ Sound(t) /\ t.op = s.op /\ t.txn = s.txn
               /\ t.pc # "stage" /\ (s.op = "pack" => t.pc = "fill")
<1> DEFINE t == Deliver(s, v, b)
<1>1. s \in Memory /\ s.did = {} /\ s.target \in Ref
  BY DEF Sound, Looks
<1>2. CASE Changes(s)
  <2>1. t = lock_ref_for_update(s, v, b)
    BY <1>2 DEF Deliver, Changes
  <2>2. CASE s.txn[s.pos].old \notin {Any, v}
    BY <1>2, <2>1, <2>2, FailSound DEF lock_ref_for_update, Changes
  <2>3. CASE s.txn[s.pos].old \in {Any, v}
    <3> DEFINE u == [s EXCEPT !.got[s.txn[s.pos].ref] = [val |-> v, packed |-> b]]
    <3>1. u \in Memory /\ u.did = {} /\ u.op = s.op /\ u.pos = s.pos /\ u.txn = s.txn
      BY <1>1 DEF Memory
    <3>2. s.pos \in DOMAIN s.txn
      BY <1>2 DEF Sound
    <3>3. t = NextUpdate(u)
      BY <2>1, <2>3 DEF lock_ref_for_update
    <3>4. Changes(u)
      BY <1>2, <3>1 DEF Changes
    <3> HIDE DEF u
    <3>5. Sound(NextUpdate(u)) /\ NextUpdate(u).op = s.op /\ NextUpdate(u).txn = s.txn
          /\ NextUpdate(u).pc # "stage"
      BY <3>1, <3>2, <3>4, NextUpdateSound
    <3> QED
      BY <1>2, <3>3, <3>5 DEF Changes
  <2> QED
    BY <2>2, <2>3
<1>3. CASE s.op \in {"pack", "iter"}
  <2> DEFINE c == [s.cache EXCEPT ![s.target] = v]
             w == s.broken \cup (IF v = Null THEN {s.target} ELSE {})
             g == s.gaveup \cup GivenUp(s)
  <2>1. t = [s EXCEPT !.pc = "fill", !.cache = c, !.broken = w, !.gaveup = g]
    BY <1>1, <1>3 DEF Deliver, Memory
  <2>2. t \in Memory /\ t.pc = "fill" /\ t.op = s.op /\ t.txn = s.txn /\ t.did = {}
    <3>1. c \in [Ref -> Oid] /\ w \in SUBSET Ref /\ g \in SUBSET Ref
      BY <1>1 DEF Memory, GivenUp
    <3> HIDE DEF w, c, g, t
    <3> QED
      BY <1>1, <2>1, <3>1 DEF Memory
  <2> QED
    BY <1>3, <2>2 DEF Sound, Looks, Changes
<1>4. CASE s.op = "read"
  <2> DEFINE c == [s.cache EXCEPT ![s.target] = v]
             g == s.gaveup \cup GivenUp(s)
  <2>1. t = [s EXCEPT !.pc = "return", !.cache = c, !.gaveup = g]
    BY <1>1, <1>4 DEF Deliver, Memory
  <2>2. /\ t \in Memory /\ t.pc = "return" /\ t.op = s.op /\ t.txn = s.txn /\ t.did = {}
        /\ t.target = s.target
    <3>1. c \in [Ref -> Oid] /\ g \in SUBSET Ref
      BY <1>1 DEF Memory, GivenUp
    <3> HIDE DEF c, g, t
    <3> QED
      BY <1>1, <2>1, <3>1 DEF Memory
  <2> QED
    BY <1>1, <1>4, <2>2 DEF Sound, Looks, Changes
<1>5. s.op # "none" /\ s.op \in {"none", "txn", "prune", "pack", "read", "iter"}
  BY <1>1 DEF Sound, Memory
<1> QED
  BY <1>2, <1>3, <1>4, <1>5 DEF Changes

-----------------------------------------------------------------------------

\* A process whose step changes no file.
LEMMA OwnMemory ==
    ASSUME RSInv, NEW p \in Proc, NEW t, Become(p, t), UNCHANGED files, Sound(t),
           Tied(p, t, reflock, packlock, staging.by)
    PROVE  RSInv'
<1>1. FilesOK'
  BY DEF RSInv, FilesOK, files
<1>2. reflock' = reflock /\ packlock' = packlock /\ staging' = staging
  BY DEF files
<1> QED
  BY <1>1, <1>2, OneProcess DEF Become

\* An idle process holds nothing.
LEMMA IdleHoldsNothing ==
    ASSUME RSInv, NEW p \in Proc, proc[p].op = "none" \/ proc[p].pc = "idle"
    PROVE  /\ \A r \in Ref : reflock[r] # p
           /\ packlock # p /\ staging.by # p
BY DEF RSInv, Tied, Sound, Changes

\* An operation that starts is sound, and has nothing yet.
LEMMA StartInv ==
    ASSUME RSInv, NEW p \in Proc, Start(p)
    PROVE  RSInv'
<1>1. proc[p].pc = "idle" /\ UNCHANGED files
  BY DEF Start, ref_transaction_commit, files_pack_refs, files_read_raw_ref,
         files_ref_iterator_begin, Starts, At
<1>2. \A t : t.pc # "stage" => Tied(p, t, reflock, packlock, staging.by)
  BY <1>1, IdleHoldsNothing DEF Tied
<1>3. Idle \in Memory /\ Idle.did = {} /\ Idle.txn = <<>>
  BY IdleSound DEF Sound, Idle
<1>4. ASSUME ref_transaction_commit(p) PROVE RSInv'
  <2>1. PICK v \in NewOids, q \in Requests :
          Become(p, [Idle EXCEPT !.op = "txn", !.pc = "lock", !.pos = 1,
                                 !.txn = Transaction(q, v)])
    BY <1>4 DEF ref_transaction_commit
  <2> DEFINE x == Transaction(q, v)
             t == [Idle EXCEPT !.op = "txn", !.pc = "lock", !.pos = 1, !.txn = x]
  <2>2. q \in Seq([ref : Ref, ask : {"set", "delete", "verify"}, check : BOOLEAN])
        /\ q # <<>>
    BY RefStoreAssumption DEF RefStoreAssumption
  <2> DEFINE R == [ref : Ref, ask : {"set", "delete", "verify"}, check : BOOLEAN]
  <2> HIDE DEF R
  <2>3. Len(q) \in Nat /\ DOMAIN q = 1 .. Len(q) /\ Len(q) # 0
        /\ \A i \in DOMAIN q : q[i] \in R
    <3>1. q \in Seq(R)
      BY <2>2 DEF R
    <3> QED
      BY <2>2, <3>1, SeqFacts
  <2>4. \A r \in Ref : Value(r) \in Oid
    BY DEF RSInv, FilesOK, Value
  <2>5. v \in Oid
    BY Constants
  <2> DEFINE e(i) == [ref |-> q[i].ref,
                      new |-> CASE q[i].ask = "set" -> v
                                [] q[i].ask = "delete" -> Null
                                [] q[i].ask = "verify" -> Keep,
                      old |-> IF q[i].check THEN Value(q[i].ref) ELSE Any]
  <2>6. \A i \in DOMAIN q : e(i) \in Update
    BY <2>3, <2>4, <2>5, Constants DEF Update, R
  <2>7. x \in Seq(Update) /\ DOMAIN x = DOMAIN q
    <3>1. x = [i \in 1 .. Len(q) |-> e(i)]
      BY <2>3 DEF Transaction
    <3> HIDE DEF x, e
    <3> QED
      BY <2>3, <2>6, <3>1
  <2> HIDE DEF x
  <2>8. t \in Memory /\ t.op = "txn" /\ t.pc = "lock" /\ t.pos = 1 /\ t.txn = x
        /\ t.did = {}
    BY <1>3, <2>7 DEF Memory
  <2>9. 1 \in DOMAIN x
    BY <2>3, <2>7
  <2> HIDE DEF t
  <2>10. Sound(t)
    BY <2>8, <2>9 DEF Sound, Looks, Changes
  <2> QED
    BY <1>1, <1>2, <2>1, <2>8, <2>10, OwnMemory DEF x, t
<1>5. ASSUME files_pack_refs(p) PROVE RSInv'
  <2>1. PICK auto \in AutoModes :
          Become(p, [Idle EXCEPT !.op = "pack", !.todo = Ref,
                                 !.pc = IF auto THEN "fill" ELSE "packlock"])
    BY <1>5 DEF files_pack_refs
  <2> DEFINE t == [Idle EXCEPT !.op = "pack", !.todo = Ref,
                               !.pc = IF auto THEN "fill" ELSE "packlock"]
  <2>2. t \in Memory /\ t.op = "pack" /\ t.pc \in {"fill", "packlock"} /\ t.did = {}
    BY <1>3 DEF Memory
  <2> HIDE DEF t
  <2>3. Sound(t)
    BY <2>2 DEF Sound, Looks, Changes
  <2> QED
    BY <1>1, <1>2, <2>1, <2>2, <2>3, OwnMemory DEF t
<1>6. ASSUME files_read_raw_ref(p) PROVE RSInv'
  <2>1. PICK r \in Ref :
          Become(p, [Idle EXCEPT !.op = "read", !.pc = "stat", !.target = r])
    BY <1>6 DEF files_read_raw_ref
  <2> DEFINE t == [Idle EXCEPT !.op = "read", !.pc = "stat", !.target = r]
  <2>2. t \in Memory /\ t.op = "read" /\ t.pc = "stat" /\ t.target \in Ref /\ t.did = {}
    BY <1>3 DEF Memory
  <2> HIDE DEF t
  <2>3. Sound(t)
    BY <2>2 DEF Sound, Looks, Changes
  <2> QED
    BY <1>1, <1>2, <2>1, <2>2, <2>3, OwnMemory DEF t
<1>7. ASSUME files_ref_iterator_begin(p) PROVE RSInv'
  <2> DEFINE t == [Idle EXCEPT !.op = "iter", !.pc = "fill", !.todo = Ref]
  <2>1. Become(p, t)
    BY <1>7 DEF files_ref_iterator_begin
  <2>2. t \in Memory /\ t.op = "iter" /\ t.pc = "fill" /\ t.did = {}
    BY <1>3 DEF Memory
  <2> HIDE DEF t
  <2>3. Sound(t)
    BY <2>2 DEF Sound, Looks, Changes
  <2> QED
    BY <1>1, <1>2, <2>1, <2>2, <2>3, OwnMemory
<1> QED
  BY <1>4, <1>5, <1>6, <1>7 DEF Start

\* Handing over what was read changes only the reader's memory.
LEMMA DeliverInv ==
    ASSUME RSInv, NEW p \in Proc, Looks(proc[p]),
           NEW v \in Oid, NEW b \in BOOLEAN,
           Become(p, Deliver(proc[p], v, b)), UNCHANGED files
    PROVE  RSInv'
<1> DEFINE s == proc[p]
           t == Deliver(s, v, b)
<1>1. Sound(s) /\ Tied(p, s, reflock, packlock, staging.by)
  BY DEF RSInv
<1>2. Sound(t) /\ t.op = s.op /\ t.txn = s.txn
      /\ t.pc # "stage" /\ (s.op = "pack" => t.pc = "fill")
  BY <1>1, DeliverSound
<1> HIDE DEF t
<1>3. Tied(p, t, reflock, packlock, staging.by)
  BY <1>1, <1>2 DEF Tied, Looks, Changes
<1> QED
  BY <1>2, <1>3, OwnMemory DEF t

\* Reading: read_ref_internal() and the caches.
LEMMA ReadInv ==
    ASSUME RSInv, NEW p \in Proc,
           \/ read_lstat(p) \/ read_open(p) \/ packed_read_raw_ref(p)
           \/ loose_fill_ref_dir(p) \/ packed_ref_iterator_begin(p) \/ ReadReturns(p)
    PROVE  RSInv'
<1> DEFINE s == proc[p]
<1>1. s \in Memory /\ Sound(s) /\ Tied(p, s, reflock, packlock, staging.by)
  BY DEF RSInv
<1>2. UNCHANGED files
  BY DEF read_lstat, read_open, packed_read_raw_ref, loose_fill_ref_dir,
         packed_ref_iterator_begin, ReadReturns
<1>3. /\ Looks(s) => loose[s.target] \in Oid /\ packed[s.target] \in Oid
      /\ \A r \in Ref : packed[r] \in Oid
  BY <1>1 DEF RSInv, FilesOK, Sound
<1>4. ASSUME read_lstat(p) PROVE RSInv'
  <2>0. s.pc = "stat" /\ Looks(s)
    BY <1>4 DEF read_lstat, At, Looks
  <2>1. CASE s.tries = ReadTries
    <3>1. Become(p, Deliver(s, Null, FALSE))
      BY <1>4, <2>1 DEF read_lstat
    <3> QED
      BY <1>2, <2>0, <3>1, Constants, DeliverInv
  <2>2. CASE s.tries # ReadTries
    <3> DEFINE c == IF loose[s.target] = Null THEN "readpacked" ELSE "open"
               t == [s EXCEPT !.tries = @ + 1, !.pc = c]
    <3>1. Become(p, t)
      BY <1>4, <2>2 DEF read_lstat
    <3>2. s.tries + 1 \in 0 .. ReadTries
      <4>1. s.tries \in 0 .. ReadTries
        BY <1>1 DEF Memory
      <4> QED
        BY <2>2, <4>1 DEF ReadTries
    <3>3. t \in Memory /\ t.pc \in {"readpacked", "open"} /\ t.op = s.op /\ t.txn = s.txn
          /\ t.pos = s.pos /\ t.target = s.target /\ t.did = s.did
      BY <1>1, <3>2 DEF Memory
    <3> HIDE DEF t
    <3>4. Sound(t) /\ Tied(p, t, reflock, packlock, staging.by)
      BY <1>1, <2>0, <3>3 DEF Sound, Tied, Looks, Changes
    <3> QED
      BY <1>2, <3>1, <3>4, OwnMemory
  <2> QED
    BY <2>1, <2>2
<1>5. ASSUME read_open(p) PROVE RSInv'
  <2>0. s.pc = "open" /\ Looks(s)
    BY <1>5 DEF read_open, At, Looks
  <2>1. CASE loose[s.target] = Null
    <3> DEFINE t == [s EXCEPT !.pc = "stat"]
    <3>1. Become(p, t)
      BY <1>5, <2>1 DEF read_open
    <3>2. t \in Memory /\ t.pc = "stat" /\ t.op = s.op /\ t.txn = s.txn
          /\ t.pos = s.pos /\ t.target = s.target /\ t.did = s.did
      BY <1>1 DEF Memory
    <3> HIDE DEF t
    <3>3. Sound(t) /\ Tied(p, t, reflock, packlock, staging.by)
      BY <1>1, <2>0, <3>2 DEF Sound, Tied, Looks, Changes
    <3> QED
      BY <1>2, <3>1, <3>3, OwnMemory
  <2>2. CASE loose[s.target] # Null
    <3>1. Become(p, Deliver(s, loose[s.target], FALSE))
      BY <1>5, <2>2 DEF read_open
    <3> QED
      BY <1>2, <1>3, <2>0, <3>1, DeliverInv
  <2> QED
    BY <2>1, <2>2
<1>6. ASSUME packed_read_raw_ref(p) PROVE RSInv'
  <2>1. s.pc = "readpacked" /\ Looks(s)
        /\ Become(p, Deliver(s, packed[s.target], packed[s.target] # Null))
    BY <1>6 DEF packed_read_raw_ref, At, Looks
  <2>2. (packed[s.target] # Null) \in BOOLEAN
    OBVIOUS
  <2> QED
    BY <1>2, <1>3, <2>1, <2>2, DeliverInv
<1>7. ASSUME loose_fill_ref_dir(p) PROVE RSInv'
  <2>1. PICK r \in s.todo :
          Become(p, [s EXCEPT !.todo = @ \ {r}, !.target = r, !.tries = 0,
                              !.pc = IF loose[r] = Null THEN "fill" ELSE "stat"])
    BY <1>7 DEF loose_fill_ref_dir
  <2> DEFINE c == IF loose[r] = Null THEN "fill" ELSE "stat"
             t == [s EXCEPT !.todo = @ \ {r}, !.target = r, !.tries = 0, !.pc = c]
  <2>2. s.pc = "fill" /\ r \in Ref /\ s.todo \ {r} \in SUBSET Ref
        /\ 0 \in 0 .. ReadTries /\ c \in {"fill", "stat"}
    <3>1. s.todo \in SUBSET Ref
      BY <1>1 DEF Memory
    <3>2. s.pc = "fill"
      BY <1>7 DEF loose_fill_ref_dir, At
    <3>3. 0 \in 0 .. ReadTries
      BY DEF ReadTries
    <3> QED
      BY <3>1, <3>2, <3>3
  <2>3. t \in Memory /\ t.pc \in {"fill", "stat"} /\ t.op = s.op /\ t.txn = s.txn
        /\ t.target = r /\ t.did = s.did
    BY <1>1, <2>2 DEF Memory
  <2> HIDE DEF t
  <2>4. Sound(t) /\ Tied(p, t, reflock, packlock, staging.by)
    BY <1>1, <2>2, <2>3 DEF Sound, Tied, Looks, Changes
  <2> QED
    BY <1>2, <2>1, <2>4, OwnMemory DEF t
<1>8. ASSUME packed_ref_iterator_begin(p) PROVE RSInv'
  <2> DEFINE c == [r \in Ref |-> IF s.cache[r] # Null \/ r \in s.broken THEN s.cache[r]
                                ELSE packed[r]]
             t == [s EXCEPT !.pc = "return", !.cache = c]
  <2>1. s.pc = "fill" /\ s.op = "iter" /\ Become(p, t)
    BY <1>1, <1>8 DEF packed_ref_iterator_begin, At, Memory
  <2>2. c \in [Ref -> Oid]
    BY <1>1, <1>3 DEF Memory
  <2> HIDE DEF c
  <2>3. t \in Memory /\ t.pc = "return" /\ t.op = s.op /\ t.txn = s.txn /\ t.did = s.did
    BY <1>1, <2>2 DEF Memory
  <2> HIDE DEF t
  <2>4. Sound(t) /\ Tied(p, t, reflock, packlock, staging.by)
    BY <1>1, <2>1, <2>3 DEF Sound, Tied, Looks, Changes
  <2> QED
    BY <1>2, <2>1, <2>4, OwnMemory
<1>9. ASSUME ReadReturns(p) PROVE RSInv'
  <2>1. s.pc = "return" /\ Become(p, Idle)
    BY <1>9 DEF ReadReturns, At
  <2>2. Tied(p, Idle, reflock, packlock, staging.by)
    BY <1>1, <2>1 DEF Sound, Tied, Changes, Idle
  <2> QED
    BY <1>2, <2>1, <2>2, IdleSound, OwnMemory
<1> QED
  BY <1>4, <1>5, <1>6, <1>7, <1>8, <1>9

-----------------------------------------------------------------------------

\* First(S) is one of S: every set of positions has a smallest one.
LEMMA FirstIn ==
    ASSUME NEW S, S \subseteq Nat, S # {}
    PROVE  First(S) \in S
<1> DEFINE R == {ss \in Nat \X Nat : ss[1] < ss[2]}
<1>1. IsWellFoundedOn(R, Nat)
  BY NatLessThanWellFounded DEF OpToRel
<1>2. \A x, y \in Nat : x < y => <<x, y>> \in R
  OBVIOUS
<1> HIDE DEF R
<1>3. PICK i \in S : \A j \in S : ~ (<<j, i>> \in R)
  BY <1>1, WFMin
<1>4. \A j \in S : i <= j
  <2> TAKE j \in S
  <2>1. i \in Nat /\ j \in Nat
    OBVIOUS
  <2>2. ~ (j < i)
    BY <1>2, <1>3, <2>1
  <2> QED
    BY <2>1, <2>2
<1> QED
  BY <1>4 DEF First

\* The updates of a transaction.
LEMMA TxnFacts ==
    ASSUME NEW s \in Memory
    PROVE  /\ DOMAIN s.txn \subseteq Nat
           /\ \A i \in DOMAIN s.txn : /\ s.txn[i] \in Update
                                      /\ s.txn[i].ref \in Ref
                                      /\ s.txn[i].new \in Oid \cup {Keep}
<1>1. s.txn \in Seq(Update)
  BY DEF Memory
<1>2. Len(s.txn) \in Nat /\ DOMAIN s.txn = 1 .. Len(s.txn)
      /\ \A i \in DOMAIN s.txn : s.txn[i] \in Update
  BY <1>1, SeqFacts
<1> QED
  BY <1>2 DEF Update

\* The lock file of a reference is created, or the attempt times out.
LEMMA LockInv ==
    ASSUME RSInv, NEW p \in Proc, lock_raw_ref(p)
    PROVE  RSInv'
<1> DEFINE s == proc[p]
           r == s.txn[s.pos].ref
<1>1. s \in Memory /\ Sound(s) /\ Tied(p, s, reflock, packlock, staging.by)
  BY DEF RSInv
<1>2. /\ s.pc = "lock" /\ Changes(s) /\ s.did = {} /\ s.pos \in DOMAIN s.txn
      /\ loose' = loose /\ packed' = packed /\ packlock' = packlock /\ staging' = staging
  BY <1>1 DEF lock_raw_ref, At, Sound
<1>3. r \in Ref
  BY <1>1, <1>2, TxnFacts
<1>4. CASE /\ reflock[r] = Free
           /\ reflock' = [reflock EXCEPT ![r] = p]
           /\ Become(p, [s EXCEPT !.pc = "stat", !.target = r, !.tries = 0])
  <2> DEFINE t == [s EXCEPT !.pc = "stat", !.target = r, !.tries = 0]
  <2>1. 0 \in 0 .. ReadTries
    BY DEF ReadTries
  <2>2. t \in Memory /\ t.pc = "stat" /\ t.target = r /\ t.op = s.op /\ t.txn = s.txn
        /\ t.pos = s.pos /\ t.did = {}
    BY <1>1, <1>2, <1>3, <2>1 DEF Memory
  <2>3. FilesOK' /\ \A x \in Ref : reflock'[x] = IF x = r THEN p ELSE reflock[x]
    BY <1>2, <1>4 DEF RSInv, FilesOK, Holder
  <2>4. proc' = [proc EXCEPT ![p] = t]
    BY <1>4 DEF Become
  <2> HIDE DEF t, r
  <2>5. Sound(t)
    BY <1>2, <1>3, <2>2 DEF Sound, Looks, Changes
  <2>6. Tied(p, t, reflock', packlock', staging'.by)
    BY <1>1, <1>2, <2>2, <2>3 DEF Tied, Changes, r
  <2>7. \A q \in Proc \ {p} :
           /\ \A x \in Ref : reflock'[x] = q => reflock[x] = q
           /\ packlock' = q <=> packlock = q
           /\ staging'.by = q => staging.by = q
    BY <1>2, <2>3
  <2> QED
    BY <2>3, <2>4, <2>5, <2>6, <2>7, OneProcess
<1>5. CASE Become(p, Fail(s)) /\ UNCHANGED reflock
  <2>1. UNCHANGED files
    BY <1>2, <1>5 DEF files
  <2>2. Sound(Fail(s)) /\ Fail(s).op = s.op /\ Fail(s).txn = s.txn /\ Fail(s).pc = "cleanup"
    BY <1>1, <1>2, FailSound
  <2>3. Tied(p, Fail(s), reflock, packlock, staging.by)
    BY <1>1, <1>2, <2>2 DEF Tied, Changes
  <2> QED
    BY <1>5, <2>1, <2>2, <2>3, OwnMemory
<1> QED
  BY <1>4, <1>5 DEF lock_raw_ref

\* packed-refs.lock is created, or the attempt times out.
LEMMA PackLockInv ==
    ASSUME RSInv, NEW p \in Proc, packed_refs_lock(p)
    PROVE  RSInv'
<1> DEFINE s == proc[p]
<1>1. s \in Memory /\ Sound(s) /\ Tied(p, s, reflock, packlock, staging.by)
  BY DEF RSInv
<1>2. /\ s.pc = "packlock" /\ s.op \in {"txn", "pack"} /\ s.did = {}
      /\ loose' = loose /\ packed' = packed /\ reflock' = reflock /\ staging' = staging
  BY <1>1 DEF packed_refs_lock, At, Sound
<1>3. packlock # p /\ staging.by # p
  BY <1>1, <1>2 DEF Tied
<1> DEFINE c == CASE s.op = "pack" /\ s.todo # {} -> "fill"
                  [] s.op = "pack" /\ s.todo = {} -> "stage"
                  [] s.op = "txn" /\ is_packed_transaction_needed(s) -> "stage"
                  [] OTHER -> "finish"
<1>4. CASE /\ packlock = Free /\ packlock' = p
           /\ Become(p, [s EXCEPT !.pc = c])
  <2> DEFINE t == [s EXCEPT !.pc = c]
  <2>1. \/ s.op = "pack" /\ c \in {"fill", "stage"}
        \/ s.op = "txn" /\ c \in {"stage", "finish"}
    <3>1. CASE s.op = "pack"
      <4>1. c = IF s.todo # {} THEN "fill" ELSE "stage"
        BY <3>1
      <4> QED
        BY <3>1, <4>1
    <3>2. CASE s.op = "txn"
      <4>1. c = IF is_packed_transaction_needed(s) THEN "stage" ELSE "finish"
        BY <3>2
      <4> QED
        BY <3>2, <4>1
    <3> QED
      BY <1>2, <3>1, <3>2
  <2> HIDE DEF c
  <2>2. t \in Memory /\ t.pc = c /\ t.op = s.op /\ t.txn = s.txn /\ t.did = {}
    BY <1>1, <1>2, <2>1 DEF Memory
  <2>3. FilesOK'
    BY <1>2, <1>4 DEF RSInv, FilesOK, Holder
  <2>4. proc' = [proc EXCEPT ![p] = t]
    BY <1>4 DEF Become
  <2> HIDE DEF t
  <2>5. Sound(t)
    BY <2>1, <2>2 DEF Sound, Looks, Changes
  <2>6. Tied(p, t, reflock', packlock', staging'.by)
    BY <1>1, <1>2, <1>3, <1>4, <2>1, <2>2 DEF Tied, Changes
  <2>7. \A q \in Proc \ {p} :
           /\ \A x \in Ref : reflock'[x] = q => reflock[x] = q
           /\ packlock' = q <=> packlock = q
           /\ staging'.by = q => staging.by = q
    BY <1>2, <1>4, Constants
  <2> QED
    BY <2>3, <2>4, <2>5, <2>6, <2>7, OneProcess
<1>5. CASE Become(p, IF s.op = "pack" THEN Idle ELSE Fail(s)) /\ UNCHANGED packlock
  <2>1. UNCHANGED files
    BY <1>2, <1>5 DEF files
  <2>2. CASE s.op = "pack"
    <3>1. Tied(p, Idle, reflock, packlock, staging.by)
      BY <1>1, <1>3, <2>2 DEF Tied, Changes, Idle
    <3> QED
      BY <1>5, <2>1, <2>2, <3>1, IdleSound, OwnMemory
  <2>3. CASE s.op = "txn"
    <3>1. Sound(Fail(s)) /\ Fail(s).op = s.op /\ Fail(s).txn = s.txn
          /\ Fail(s).pc = "cleanup"
      BY <1>1, <2>3, FailSound DEF Changes
    <3>2. Tied(p, Fail(s), reflock, packlock, staging.by)
      BY <1>1, <1>3, <3>1 DEF Tied, Changes
    <3> QED
      BY <1>5, <2>1, <2>3, <3>1, <3>2, OwnMemory
  <2> QED
    BY <1>2, <2>2, <2>3
<1> QED
  BY <1>4, <1>5 DEF packed_refs_lock

\* pack-refs has its cache: it stages, locks packed-refs, or gives up.
LEMMA ShouldPackInv ==
    ASSUME RSInv, NEW p \in Proc, should_pack_refs(p)
    PROVE  RSInv'
<1> DEFINE s == proc[p]
<1>1. s \in Memory /\ Sound(s) /\ Tied(p, s, reflock, packlock, staging.by)
  BY DEF RSInv
<1>2. s.pc = "fill" /\ s.op = "pack" /\ s.did = {} /\ UNCHANGED files
  BY <1>1 DEF should_pack_refs, At, Sound
<1>3. /\ \A r \in Ref : reflock[r] # p
      /\ staging.by # p
  BY <1>1, <1>2 DEF Tied, Changes
<1>4. CASE packlock = p /\ Become(p, [s EXCEPT !.pc = "stage"])
  <2> DEFINE t == [s EXCEPT !.pc = "stage"]
  <2>1. t \in Memory /\ t.pc = "stage" /\ t.op = "pack" /\ t.did = {}
    BY <1>1, <1>2 DEF Memory
  <2> HIDE DEF t
  <2>2. Sound(t) /\ Tied(p, t, reflock, packlock, staging.by)
    BY <1>3, <1>4, <2>1 DEF Sound, Tied, Looks, Changes
  <2> QED
    BY <1>2, <1>4, <2>2, OwnMemory DEF t
<1>5. CASE packlock # p /\ Become(p, [s EXCEPT !.pc = "packlock"])
  <2> DEFINE t == [s EXCEPT !.pc = "packlock"]
  <2>1. t \in Memory /\ t.pc = "packlock" /\ t.op = "pack" /\ t.did = {}
    BY <1>1, <1>2 DEF Memory
  <2> HIDE DEF t
  <2>2. Sound(t) /\ Tied(p, t, reflock, packlock, staging.by)
    BY <1>3, <1>5, <2>1 DEF Sound, Tied, Looks, Changes
  <2> QED
    BY <1>2, <1>5, <2>2, OwnMemory DEF t
<1>6. CASE packlock # p /\ Become(p, Idle)
  <2>1. Tied(p, Idle, reflock, packlock, staging.by)
    BY <1>3, <1>6 DEF Tied, Idle
  <2> QED
    BY <1>2, <1>6, <2>1, IdleSound, OwnMemory
<1> QED
  BY <1>4, <1>5, <1>6 DEF should_pack_refs

\* The content of packed-refs.new is a content of packed-refs.
LEMMA NewPackedType ==
    ASSUME RSInv, NEW s \in Memory
    PROVE  NewPacked(s) \in [Ref -> Oid]
<1>1. packed \in [Ref -> Oid] /\ s.cache \in [Ref -> Oid]
  BY DEF RSInv, FilesOK, Memory
<1> QED
  BY <1>1, Constants DEF NewPacked

\* packed-refs.new is created by the holder of packed-refs.lock.
LEMMA StageInv ==
    ASSUME RSInv, NEW p \in Proc, write_with_updates(p)
    PROVE  RSInv'
<1> DEFINE s == proc[p]
<1>1. s \in Memory /\ Sound(s) /\ Tied(p, s, reflock, packlock, staging.by)
  BY DEF RSInv
<1>2. /\ s.pc = "stage" /\ s.op \in {"txn", "pack"} /\ s.did = {}
      /\ loose' = loose /\ packed' = packed /\ reflock' = reflock
  BY <1>1 DEF write_with_updates, At, Sound
<1>3. packlock = p /\ staging.by # p
  BY <1>1, <1>2 DEF Tied
<1> DEFINE c == IF s.op = "pack" THEN "packcommit" ELSE "finish"
<1>4. CASE /\ staging.by = Free /\ staging' = [by |-> p, refs |-> NewPacked(s)]
           /\ Become(p, [s EXCEPT !.pc = c]) /\ UNCHANGED packlock
  <2> DEFINE t == [s EXCEPT !.pc = c]
  <2>1. t \in Memory /\ t.pc = c /\ t.op = s.op /\ t.txn = s.txn /\ t.did = {}
    BY <1>1, <1>2 DEF Memory
  <2>2. NewPacked(s) \in [Ref -> Oid]
    BY <1>1, NewPackedType
  <2>3. FilesOK' /\ staging'.by = p
    BY <1>2, <1>4, <2>2 DEF RSInv, FilesOK, Holder
  <2>4. proc' = [proc EXCEPT ![p] = t]
    BY <1>4 DEF Become
  <2> HIDE DEF t
  <2>5. Sound(t)
    BY <1>2, <2>1 DEF Sound, Looks, Changes
  <2>6. Tied(p, t, reflock', packlock', staging'.by)
    BY <1>1, <1>2, <1>3, <1>4, <2>1 DEF Tied, Changes
  <2>7. \A q \in Proc \ {p} :
           /\ \A x \in Ref : reflock'[x] = q => reflock[x] = q
           /\ packlock' = q <=> packlock = q
           /\ staging'.by = q => staging.by = q
    BY <1>2, <1>4, <2>3
  <2> QED
    BY <2>3, <2>4, <2>5, <2>6, <2>7, OneProcess
<1>5. CASE s.op = "pack" /\ Become(p, Idle) /\ packlock' = Free /\ UNCHANGED staging
  <2>1. FilesOK'
    BY <1>2, <1>5 DEF RSInv, FilesOK, Holder
  <2>2. Tied(p, Idle, reflock', packlock', staging'.by)
    BY <1>1, <1>2, <1>3, <1>5, Constants DEF Tied, Changes, Idle
  <2>3. \A q \in Proc \ {p} :
           /\ \A x \in Ref : reflock'[x] = q => reflock[x] = q
           /\ packlock' = q <=> packlock = q
           /\ staging'.by = q => staging.by = q
    BY <1>2, <1>3, <1>5, Constants
  <2>4. proc' = [proc EXCEPT ![p] = Idle]
    BY <1>5 DEF Become
  <2> QED
    BY <2>1, <2>2, <2>3, <2>4, IdleSound, OneProcess
<1>6. CASE s.op # "pack" /\ Become(p, Fail(s)) /\ UNCHANGED <<packlock, staging>>
  <2>1. UNCHANGED files
    BY <1>2, <1>6 DEF files
  <2>2. Sound(Fail(s)) /\ Fail(s).op = s.op /\ Fail(s).txn = s.txn /\ Fail(s).pc = "cleanup"
    BY <1>1, <1>2, <1>6, FailSound DEF Changes
  <2>3. Tied(p, Fail(s), reflock, packlock, staging.by)
    BY <1>1, <1>2, <1>6, <2>2 DEF Tied, Changes
  <2> QED
    BY <1>6, <2>1, <2>2, <2>3, OwnMemory
<1> QED
  BY <1>4, <1>5, <1>6 DEF write_with_updates

-----------------------------------------------------------------------------

\* The memory of a transaction that has applied the updates D as well.
After(s, D, l) == [s EXCEPT !.did = @ \cup D, !.linger = l]

\* Applying updates keeps the final phase sound, as long as no deletion is
\* applied before the last rename.
LEMMA DidMore ==
    ASSUME NEW s, Sound(s), s.pc = "finish", NEW D \in SUBSET DOMAIN s.txn,
           NEW l \in SUBSET Ref,
           D \cap Deletes(s) # {} => NeedsCommit(s) = {}
    PROVE  /\ Sound(After(s, D, l))
           /\ After(s, D, l).op = s.op /\ After(s, D, l).txn = s.txn
           /\ After(s, D, l).pc = "finish"
<1> DEFINE t == After(s, D, l)
<1>1. s \in Memory /\ s.did \subseteq DOMAIN s.txn
  BY DEF Sound
<1>2. DOMAIN s.txn \subseteq Nat
  BY <1>1, TxnFacts
<1>3. /\ t \in Memory /\ t.op = s.op /\ t.txn = s.txn /\ t.pc = "finish"
      /\ t.got = s.got /\ t.did = s.did \cup D
  <2>1. s.did \cup D \in SUBSET Nat
    BY <1>1, <1>2
  <2> QED
    BY <1>1, <2>1 DEF Memory, After
<1> HIDE DEF t
<1>4. Deletes(t) = Deletes(s) /\ NeedsCommit(t) \subseteq NeedsCommit(s)
  BY <1>3 DEF Deletes, NeedsCommit
<1>5. t.did \cap Deletes(t) # {} => NeedsCommit(t) = {}
  BY <1>3, <1>4 DEF Sound
<1>6. Changes(t)
  BY <1>3 DEF Sound, Changes
<1>7. Sound(t)
  BY <1>1, <1>3, <1>5, <1>6 DEF Sound, Looks
<1> QED
  BY <1>3, <1>7 DEF t

\* A lock file is renamed onto its reference.
LEMMA CommitInv ==
    ASSUME RSInv, NEW p \in Proc, commit_ref(p)
    PROVE  RSInv'
<1> DEFINE s == proc[p]
           i == First(NeedsCommit(s))
           u == s.txn[i]
           t == After(s, {i}, {u.ref})
<1>1. s \in Memory /\ Sound(s) /\ Tied(p, s, reflock, packlock, staging.by)
  BY DEF RSInv
<1>2. /\ s.pc = "finish" /\ NeedsCommit(s) # {}
      /\ loose' = [loose EXCEPT ![u.ref] = u.new]
      /\ reflock' = [reflock EXCEPT ![u.ref] = Free]
      /\ proc' = [proc EXCEPT ![p] = t]
      /\ packed' = packed /\ packlock' = packlock /\ staging' = staging
  BY DEF commit_ref, At, Become, After
<1>3. i \in NeedsCommit(s)
  <2>1. NeedsCommit(s) \subseteq Nat
    BY <1>1, TxnFacts DEF NeedsCommit
  <2> QED
    BY <1>2, <2>1, FirstIn
<1> HIDE DEF i
<1>4. i \in DOMAIN s.txn /\ u.ref \in Ref /\ u.new \in Oid /\ i \notin Deletes(s)
  BY <1>1, <1>3, TxnFacts DEF NeedsCommit, Deletes
<1> HIDE DEF u
<1>5. FilesOK' /\ \A x \in Ref : reflock'[x] = IF x = u.ref THEN Free ELSE reflock[x]
  BY <1>2, <1>4 DEF RSInv, FilesOK, Holder
<1>6. Sound(t) /\ t.op = s.op /\ t.txn = s.txn /\ t.pc = "finish"
  <2>1. {i} \in SUBSET DOMAIN s.txn /\ {u.ref} \in SUBSET Ref /\ {i} \cap Deletes(s) = {}
    BY <1>4
  <2> QED
    BY <1>1, <1>2, <2>1, DidMore
<1> HIDE DEF t
<1>7. Tied(p, t, reflock', packlock', staging'.by)
  BY <1>1, <1>2, <1>5, <1>6, Constants DEF Tied, Changes
<1>8. \A q \in Proc \ {p} :
         /\ \A x \in Ref : reflock'[x] = q => reflock[x] = q
         /\ packlock' = q <=> packlock = q
         /\ staging'.by = q => staging.by = q
  BY <1>2, <1>5, Constants
<1> QED
  BY <1>2, <1>5, <1>6, <1>7, <1>8, OneProcess

\* The lock leaves the process's list; the end of the final phase.
LEMMA FinishInv ==
    ASSUME RSInv, NEW p \in Proc, deactivate_tempfile(p) \/ files_transaction_finish(p)
    PROVE  RSInv'
<1> DEFINE s == proc[p]
<1>1. s \in Memory /\ Sound(s) /\ Tied(p, s, reflock, packlock, staging.by)
  BY DEF RSInv
<1>2. s.pc = "finish" /\ UNCHANGED files
  BY DEF deactivate_tempfile, files_transaction_finish, At
<1>3. ASSUME deactivate_tempfile(p) PROVE RSInv'
  <2> DEFINE t == [s EXCEPT !.linger = {}]
  <2>1. t \in Memory /\ t.pc = s.pc /\ t.op = s.op /\ t.txn = s.txn /\ t.did = s.did
        /\ t.got = s.got
    BY <1>1 DEF Memory
  <2>2. Become(p, t)
    BY <1>3 DEF deactivate_tempfile
  <2> HIDE DEF t
  <2>3. Deletes(t) = Deletes(s) /\ NeedsCommit(t) = NeedsCommit(s)
    BY <2>1 DEF Deletes, NeedsCommit
  <2>4. Sound(t) /\ Tied(p, t, reflock, packlock, staging.by)
    BY <1>1, <1>2, <2>1, <2>3 DEF Sound, Tied, Looks, Changes
  <2> QED
    BY <1>2, <2>2, <2>4, OwnMemory
<1>4. ASSUME files_transaction_finish(p) PROVE RSInv'
  <2> DEFINE t == [s EXCEPT !.pc = "cleanup"]
  <2>1. t \in Memory /\ t.pc = "cleanup" /\ t.op = s.op /\ t.txn = s.txn /\ t.did = s.did
        /\ t.got = s.got
    BY <1>1 DEF Memory
  <2>2. Become(p, t)
    BY <1>4 DEF files_transaction_finish
  <2> HIDE DEF t
  <2>3. Deletes(t) = Deletes(s) /\ NeedsCommit(t) = NeedsCommit(s)
    BY <2>1 DEF Deletes, NeedsCommit
  <2>4. Sound(t) /\ Tied(p, t, reflock, packlock, staging.by)
    BY <1>1, <1>2, <2>1, <2>3 DEF Sound, Tied, Looks, Changes
  <2> QED
    BY <1>2, <2>2, <2>4, OwnMemory
<1> QED
  BY <1>3, <1>4

\* packed-refs.new is renamed onto packed-refs.
LEMMA PackedFinishInv ==
    ASSUME RSInv, NEW p \in Proc, packed_transaction_finish(p)
    PROVE  RSInv'
<1> DEFINE s == proc[p]
           D == Deletes(s) \ NeedsUnlink(s)
<1>1. s \in Memory /\ Sound(s) /\ Tied(p, s, reflock, packlock, staging.by)
  BY DEF RSInv
<1>2. /\ staging.by = p /\ packed' = staging.refs /\ staging' = NoStaging
      /\ loose' = loose /\ reflock' = reflock /\ packlock' = packlock
  BY DEF packed_transaction_finish
<1>3. FilesOK' /\ staging'.by = Free
  BY <1>2, Constants DEF RSInv, FilesOK, NoStaging, Holder
<1>4. \A q \in Proc \ {p} :
         /\ \A x \in Ref : reflock'[x] = q => reflock[x] = q
         /\ packlock' = q <=> packlock = q
         /\ staging'.by = q => staging.by = q
  BY <1>2, <1>3, Constants
<1>5. CASE s.op = "pack"
  <2> DEFINE t == [s EXCEPT !.pc = "packunlock"]
  <2>1. t \in Memory /\ t.pc = "packunlock" /\ t.op = "pack" /\ t.did = s.did
    BY <1>1, <1>5 DEF Memory
  <2>2. proc' = [proc EXCEPT ![p] = t]
    BY <1>5 DEF packed_transaction_finish, Become
  <2> HIDE DEF t
  <2>3. s.did = {}
    BY <1>1, <1>5 DEF Sound, Changes
  <2>4. Sound(t)
    BY <2>1, <2>3 DEF Sound, Looks, Changes
  <2>5. Tied(p, t, reflock', packlock', staging'.by)
    BY <1>1, <1>2, <1>3, <1>5, <2>1, Constants DEF Tied, Changes
  <2> QED
    BY <1>3, <1>4, <2>2, <2>4, <2>5, OneProcess
<1>6. CASE s.op # "pack"
  <2> DEFINE t == [s EXCEPT !.did = @ \cup D]
             w == After(s, D, s.linger)
  <2>1. s.pc = "finish" /\ NeedsCommit(s) = {} /\ proc' = [proc EXCEPT ![p] = t]
    BY <1>1, <1>6 DEF packed_transaction_finish, At, Sound, Committed, Become
  <2>2. D \in SUBSET DOMAIN s.txn /\ s.linger \in SUBSET Ref
    BY <1>1 DEF Deletes, Memory
  <2> HIDE DEF D
  <2>3. w = t
    BY <1>1 DEF Memory, After
  <2>4. Sound(w) /\ w.op = s.op /\ w.txn = s.txn /\ w.pc = "finish"
    BY <1>1, <2>1, <2>2, DidMore
  <2> HIDE DEF t, w
  <2>5. Tied(p, t, reflock', packlock', staging'.by)
    BY <1>1, <1>2, <1>3, <2>1, <2>3, <2>4, Constants DEF Tied, Changes
  <2> QED
    BY <1>3, <1>4, <2>1, <2>3, <2>4, <2>5, OneProcess
<1> QED
  BY <1>5, <1>6

\* The loose file of a deleted reference is unlinked.
LEMMA UnlinkInv ==
    ASSUME RSInv, NEW p \in Proc, unlink_loose(p)
    PROVE  RSInv'
<1> DEFINE s == proc[p]
           i == First(NeedsUnlink(s))
           t == [s EXCEPT !.did = @ \cup {i}]
           w == After(s, {i}, s.linger)
<1>1. s \in Memory /\ Sound(s) /\ Tied(p, s, reflock, packlock, staging.by)
  BY DEF RSInv
<1>2. /\ s.pc = "finish" /\ NeedsCommit(s) = {} /\ NeedsUnlink(s) # {}
      /\ loose' = [loose EXCEPT ![s.txn[i].ref] = Null]
      /\ proc' = [proc EXCEPT ![p] = t]
      /\ packed' = packed /\ reflock' = reflock /\ packlock' = packlock /\ staging' = staging
  BY DEF unlink_loose, At, Become, Committed
<1>3. i \in DOMAIN s.txn
  <2>1. NeedsUnlink(s) \subseteq DOMAIN s.txn
    BY DEF NeedsUnlink, Deletes
  <2>2. NeedsUnlink(s) \subseteq Nat
    BY <1>1, <2>1, TxnFacts
  <2> QED
    BY <1>2, <2>1, <2>2, FirstIn
<1> HIDE DEF i
<1>4. FilesOK'
  BY <1>1, <1>2, <1>3, TxnFacts, Constants DEF RSInv, FilesOK
<1>5. w = t /\ {i} \in SUBSET DOMAIN s.txn /\ s.linger \in SUBSET Ref
  BY <1>1, <1>3 DEF Memory, After
<1>6. Sound(w) /\ w.op = s.op /\ w.txn = s.txn /\ w.pc = "finish"
  BY <1>1, <1>2, <1>5, DidMore
<1> HIDE DEF t, w
<1>7. Tied(p, t, reflock', packlock', staging'.by)
  BY <1>1, <1>2, <1>5, <1>6 DEF Tied, Changes
<1>8. \A q \in Proc \ {p} :
         /\ \A x \in Ref : reflock'[x] = q => reflock[x] = q
         /\ packlock' = q <=> packlock = q
         /\ staging'.by = q => staging.by = q
  BY <1>2
<1> QED
  BY <1>2, <1>4, <1>5, <1>6, <1>7, <1>8, OneProcess

-----------------------------------------------------------------------------

\* What follows an operation of pack-refs: the next pruning, or nothing.
LEMMA NextPruneSound ==
    ASSUME NEW s \in Memory, NEW n \in NextPrune(s)
    PROVE  Sound(n) /\ n.pc # "stage"
<1>1. CASE n = Idle
  BY <1>1, IdleSound DEF Idle
<1>2. CASE s.todo # {}
  <2> DEFINE N(r) == [Idle EXCEPT !.op = "prune", !.pc = "lock", !.pos = 1,
                        !.todo = s.todo \ {r}, !.cache = s.cache,
                        !.txn = << [ref |-> r, new |-> Null, old |-> s.cache[r]] >>]
  <2>1. PICK r \in s.todo : n = N(r)
    BY <1>2 DEF NextPrune
  <2>2. r \in Ref /\ s.todo \ {r} \in SUBSET Ref /\ s.cache \in [Ref -> Oid]
    BY DEF Memory
  <2> DEFINE u == [ref |-> r, new |-> Null, old |-> s.cache[r]]
             x == << u >>
  <2>3. u \in Update
    BY <2>2, Constants DEF Update
  <2> HIDE DEF u
  <2>4. x \in Seq(Update) /\ DOMAIN x = 1 .. 1
    BY <2>3
  <2>5. n = [Idle EXCEPT !.op = "prune", !.pc = "lock", !.pos = 1,
                !.todo = s.todo \ {r}, !.cache = s.cache, !.txn = x]
    BY <2>1 DEF u
  <2> HIDE DEF x
  <2>6. Idle \in Memory /\ Idle.did = {}
    BY IdleSound DEF Sound, Idle
  <2>7. /\ n \in Memory /\ n.op = "prune" /\ n.pc = "lock" /\ n.pos = 1 /\ n.txn = x
        /\ n.did = {}
    BY <2>2, <2>4, <2>5, <2>6 DEF Memory
  <2> QED
    BY <2>4, <2>7 DEF Sound, Looks, Changes
<1> QED
  BY <1>1, <1>2 DEF NextPrune

\* A process that has given back its lock files on references has none left.
LEMMA NoneHeld ==
    ASSUME RSInv, NEW p \in Proc, HeldLocks(p) = {}
    PROVE  \A r \in Ref : reflock[r] # p
<1>1. Tied(p, proc[p], reflock, packlock, staging.by)
  BY DEF RSInv
<1> QED
  BY <1>1 DEF Tied, HeldLocks

\* Cleaning up gives back what the process holds, and only that.
LEMMA CleanupInv ==
    ASSUME RSInv, NEW p \in Proc,
           \/ unlock_ref(p) \/ packed_transaction_cleanup(p)
           \/ packed_refs_unlock(p) \/ files_transaction_cleanup(p)
    PROVE  RSInv'
<1> DEFINE s == proc[p]
<1>1. s \in Memory /\ Sound(s) /\ Tied(p, s, reflock, packlock, staging.by)
  BY DEF RSInv
<1>2. proc = [proc EXCEPT ![p] = s]
  BY DEF RSInv
<1>3. ASSUME unlock_ref(p) PROVE RSInv'
  <2> DEFINE i == First(HeldLocks(p))
             r == s.txn[i].ref
  <2>1. /\ HeldLocks(p) # {} /\ reflock' = [reflock EXCEPT ![r] = Free]
        /\ loose' = loose /\ packed' = packed /\ packlock' = packlock
        /\ staging' = staging /\ proc' = proc
    BY <1>3 DEF unlock_ref
  <2>2. i \in DOMAIN s.txn
    <3>1. HeldLocks(p) \subseteq DOMAIN s.txn /\ HeldLocks(p) \subseteq Nat
      BY <1>1, TxnFacts DEF HeldLocks
    <3> QED
      BY <2>1, <3>1, FirstIn
  <2> HIDE DEF i
  <2>3. r \in Ref
    BY <1>1, <2>2, TxnFacts
  <2> HIDE DEF r
  <2>4. FilesOK' /\ \A x \in Ref : reflock'[x] = IF x = r THEN Free ELSE reflock[x]
    BY <2>1, <2>3 DEF RSInv, FilesOK, Holder
  <2>5. Tied(p, s, reflock', packlock', staging'.by)
    BY <1>1, <2>1, <2>4, Constants DEF Tied
  <2>6. \A q \in Proc \ {p} :
           /\ \A x \in Ref : reflock'[x] = q => reflock[x] = q
           /\ packlock' = q <=> packlock = q
           /\ staging'.by = q => staging.by = q
    BY <2>1, <2>4, Constants
  <2> QED
    BY <1>1, <1>2, <2>1, <2>4, <2>5, <2>6, OneProcess
<1>4. ASSUME packed_transaction_cleanup(p) PROVE RSInv'
  <2>1. /\ staging.by = p /\ staging' = NoStaging
        /\ loose' = loose /\ packed' = packed /\ packlock' = packlock
        /\ reflock' = reflock /\ proc' = proc
    BY <1>4 DEF packed_transaction_cleanup
  <2>2. FilesOK' /\ staging'.by = Free
    BY <2>1, Constants DEF RSInv, FilesOK, Holder, NoStaging
  <2>3. Tied(p, s, reflock', packlock', staging'.by)
    BY <1>1, <2>1, <2>2, Constants DEF Tied
  <2>4. \A q \in Proc \ {p} :
           /\ \A x \in Ref : reflock'[x] = q => reflock[x] = q
           /\ packlock' = q <=> packlock = q
           /\ staging'.by = q => staging.by = q
    BY <2>1, <2>2, Constants
  <2> QED
    BY <1>1, <1>2, <2>1, <2>2, <2>3, <2>4, OneProcess
<1>5. ASSUME packed_refs_unlock(p) PROVE RSInv'
  <2>1. /\ packlock = p /\ packlock' = Free
        /\ loose' = loose /\ packed' = packed /\ staging' = staging /\ reflock' = reflock
    BY <1>5 DEF packed_refs_unlock
  <2>2. FilesOK'
    BY <2>1 DEF RSInv, FilesOK, Holder
  <2>3. \A q \in Proc \ {p} :
           /\ \A x \in Ref : reflock'[x] = q => reflock[x] = q
           /\ packlock' = q <=> packlock = q
           /\ staging'.by = q => staging.by = q
    BY <2>1, Constants
  <2>4. PICK n : /\ Become(p, n) /\ Sound(n) /\ n.pc # "stage"
                 /\ staging.by # p /\ \A r \in Ref : reflock[r] # p
    <3> DEFINE T == { r \in Ref : s.cache[r] # Null }
               m == [s EXCEPT !.todo = T]
    <3>1. CASE At(p, "packunlock") /\ \E n \in NextPrune(m) : Become(p, n)
      <4>1. m \in Memory
        BY <1>1 DEF Memory
      <4>2. s.pc = "packunlock" /\ s.op = "pack"
        BY <1>1, <3>1 DEF At, Sound
      <4>3. staging.by # p /\ \A r \in Ref : reflock[r] # p
        BY <1>1, <4>2 DEF Tied, Changes
      <4> HIDE DEF m
      <4> QED
        BY <3>1, <4>1, <4>3, NextPruneSound
    <3>2. CASE HeldLocks(p) = {} /\ staging.by # p /\ Become(p, Idle)
      BY <3>2, NoneHeld, IdleSound DEF Idle
    <3> QED
      BY <1>5, <3>1, <3>2 DEF packed_refs_unlock
  <2>5. Tied(p, n, reflock', packlock', staging'.by)
    BY <2>1, <2>4, Constants DEF Tied
  <2>6. proc' = [proc EXCEPT ![p] = n]
    BY <2>4 DEF Become
  <2> QED
    BY <2>2, <2>3, <2>4, <2>5, <2>6, OneProcess
<1>6. ASSUME files_transaction_cleanup(p) PROVE RSInv'
  <2>1. /\ HeldLocks(p) = {} /\ staging.by # p /\ packlock # p /\ UNCHANGED files
        /\ \E n \in IF s.op = "prune" THEN NextPrune(s) ELSE {Idle} : Become(p, n)
    BY <1>6 DEF files_transaction_cleanup
  <2>2. PICK n : Become(p, n) /\ Sound(n) /\ n.pc # "stage"
    <3>1. CASE s.op = "prune"
      <4>1. PICK n \in NextPrune(s) : Become(p, n)
        BY <2>1, <3>1
      <4> QED
        BY <1>1, <4>1, NextPruneSound
    <3>2. CASE s.op # "prune"
      <4>1. Become(p, Idle) /\ Idle.pc # "stage"
        BY <2>1, <3>2 DEF Idle
      <4> QED
        BY <4>1, IdleSound
    <3> QED
      BY <3>1, <3>2
  <2>3. Tied(p, n, reflock, packlock, staging.by)
    BY <2>1, <2>2, NoneHeld DEF Tied
  <2> QED
    BY <2>1, <2>2, <2>3, OwnMemory
<1> QED
  BY <1>3, <1>4, <1>5, <1>6

-----------------------------------------------------------------------------

\* A process that is killed leaves its files to nobody; a signal handler
\* removes them.
LEMMA GoneInv ==
    ASSUME RSInv, NEW p \in Proc, Killed(p) \/ remove_tempfiles_on_signal(p)
    PROVE  RSInv'
<1>1. Become(p, Idle) /\ loose' = loose /\ packed' = packed
  BY DEF Killed, remove_tempfiles_on_signal
<1>2. /\ reflock' \in [Ref -> Holder]
      /\ \A q \in Proc : \A r \in Ref : reflock'[r] = q => reflock[r] = q /\ q # p
  BY Constants DEF Killed, remove_tempfiles_on_signal, RSInv, FilesOK, Holder
<1>3. packlock' \in Holder /\ \A q \in Proc : packlock' = q <=> packlock = q /\ q # p
  BY Constants DEF Killed, remove_tempfiles_on_signal, RSInv, FilesOK, Holder
<1>4. /\ staging' \in [by : Holder, refs : [Ref -> Oid]]
      /\ \A q \in Proc : staging'.by = q => staging.by = q /\ q # p
  <2>1. /\ staging \in [by : Holder, refs : [Ref -> Oid]]
        /\ NoStaging \in [by : Holder, refs : [Ref -> Oid]] /\ NoStaging.by = Free
    BY Constants DEF RSInv, FilesOK, NoStaging, Holder
  <2>2. staging' \in {staging, NoStaging, [NoStaging EXCEPT !.by = Stale]}
        /\ (staging.by = p => staging' # staging)
    <3>1. [NoStaging EXCEPT !.by = Stale].by = Stale
      BY <2>1
    <3> QED
      BY <2>1, <3>1, Constants DEF Killed, remove_tempfiles_on_signal
  <2>3. [NoStaging EXCEPT !.by = Stale] \in [by : Holder, refs : [Ref -> Oid]]
        /\ [NoStaging EXCEPT !.by = Stale].by = Stale
    BY <2>1 DEF Holder
  <2> QED
    BY <2>1, <2>2, <2>3, Constants
<1>5. FilesOK'
  BY <1>1, <1>2, <1>3, <1>4 DEF RSInv, FilesOK
<1>6. Tied(p, Idle, reflock', packlock', staging'.by)
  BY <1>2, <1>3, <1>4 DEF Tied, Idle
<1>7. proc' = [proc EXCEPT ![p] = Idle]
  BY <1>1 DEF Become
<1>8. \A q \in Proc \ {p} :
         /\ \A r \in Ref : reflock'[r] = q => reflock[r] = q
         /\ packlock' = q <=> packlock = q
         /\ staging'.by = q => staging.by = q
  BY <1>2, <1>3, <1>4
<1> QED
  BY <1>5, <1>6, <1>7, <1>8, IdleSound, OneProcess

\* A failing call sends the transaction to its clean-up.
LEMMA CallFailsInv ==
    ASSUME RSInv, NEW p \in Proc, CallFails(p)
    PROVE  RSInv'
<1> DEFINE s == proc[p]
<1>1. s \in Memory /\ Sound(s) /\ Tied(p, s, reflock, packlock, staging.by)
  BY DEF RSInv
<1>2. Changes(s) /\ s.pc \in {"stage", "finish"} /\ Become(p, Fail(s)) /\ UNCHANGED files
  BY <1>1 DEF CallFails, At, Sound, Changes
<1>3. Sound(Fail(s)) /\ Fail(s).op = s.op /\ Fail(s).txn = s.txn /\ Fail(s).pc = "cleanup"
  BY <1>1, <1>2, FailSound
<1>4. Tied(p, Fail(s), reflock, packlock, staging.by)
  BY <1>1, <1>2, <1>3 DEF Tied, Changes
<1> QED
  BY <1>2, <1>3, <1>4, OwnMemory

\* Removing stale lock files takes nothing from a living process.
LEMMA UserInv ==
    ASSUME RSInv, UserRemovesStale
    PROVE  RSInv'
<1>1. proc' = proc /\ loose' = loose /\ packed' = packed
  BY DEF UserRemovesStale
<1>2. /\ FilesOK'
      /\ \A q \in Proc : /\ \A r \in Ref : reflock'[r] = q => reflock[r] = q
                         /\ packlock' = q <=> packlock = q
                         /\ staging'.by = q => staging.by = q
  <2>1. CASE /\ \E r \in Ref : /\ reflock[r] = Stale
                               /\ reflock' = [reflock EXCEPT ![r] = Free]
             /\ packlock' = packlock /\ staging' = staging
    BY <1>1, <2>1, Constants DEF RSInv, FilesOK, Holder
  <2>2. CASE packlock = Stale /\ packlock' = Free /\ reflock' = reflock /\ staging' = staging
    BY <1>1, <2>2, Constants DEF RSInv, FilesOK, Holder
  <2>3. CASE /\ staging.by = Stale /\ staging' = NoStaging
             /\ reflock' = reflock /\ packlock' = packlock
    BY <1>1, <2>3, Constants DEF RSInv, FilesOK, Holder, NoStaging
  <2> QED
    BY <2>1, <2>2, <2>3 DEF UserRemovesStale
<1>3. ASSUME NEW q \in Proc
      PROVE  Sound(proc'[q]) /\ Tied(q, proc'[q], reflock', packlock', staging'.by)
  <2>1. Sound(proc[q]) /\ Tied(q, proc[q], reflock, packlock, staging.by)
    BY DEF RSInv
  <2> QED
    BY <1>1, <1>2, <2>1 DEF Tied
<1> QED
  BY <1>1, <1>2, <1>3 DEF RSInv, Sound, Tied, Deletes, NeedsCommit, Looks, Changes

-----------------------------------------------------------------------------

\* The files and memories at the start satisfy the invariant.
LEMMA InitInv == RSInit => RSInv
<1> SUFFICES ASSUME RSInit PROVE RSInv
  OBVIOUS
<1>1. FilesOK /\ staging.by = Free
  BY RefStoreAssumption, Constants
     DEF RefStoreAssumption, RSInit, FilesOK, Holder, NoStaging
<1>2. proc \in [Proc -> Memory] /\ \A p \in Proc : proc[p] = Idle
  BY IdleSound DEF RSInit, Sound
<1>3. ASSUME NEW p \in Proc
      PROVE  Sound(proc[p]) /\ Tied(p, proc[p], reflock, packlock, staging.by)
  <2>1. Sound(proc[p])
    BY <1>2, IdleSound
  <2>2. proc[p].pc = "idle" /\ packlock = Free /\ \A r \in Ref : reflock[r] = Free
    BY <1>2 DEF RSInit, Idle
  <2> QED
    BY <1>1, <2>1, <2>2, Constants DEF Tied
<1> QED
  BY <1>1, <1>2, <1>3 DEF RSInv

\* Every step of RSNext preserves the invariant.
LEMMA NextInv == RSInv /\ [RSNext]_rsVars => RSInv'
<1> SUFFICES ASSUME RSInv, [RSNext]_rsVars PROVE RSInv'
  OBVIOUS
<1>1. CASE UserRemovesStale
  BY <1>1, UserInv
<1>2. ASSUME NEW p \in Proc, Start(p) PROVE RSInv'
  BY <1>2, StartInv
<1>3. ASSUME NEW p \in Proc, Step(p) PROVE RSInv'
  BY <1>3, ReadInv, LockInv, PackLockInv, ShouldPackInv, StageInv, CommitInv, FinishInv,
     PackedFinishInv, UnlinkInv, CleanupInv DEF Step
<1>4. ASSUME NEW p \in Proc, Interrupted(p) PROVE RSInv'
  BY <1>4, GoneInv, CallFailsInv DEF Interrupted
<1>5. CASE UNCHANGED rsVars
  <2>1. UNCHANGED <<loose, packed, reflock, packlock, staging, proc>>
    BY <1>5 DEF rsVars, files
  <2> QED
    BY <2>1 DEF RSInv, FilesOK, Sound, Tied, Deletes, NeedsCommit, Looks, Changes
<1> QED
  BY <1>1, <1>2, <1>3, <1>4, <1>5 DEF RSNext, Run

\* The invariant holds of the files store, whatever processes do at the same
\* time and whatever fails (refs/files-backend.c, refs/packed-backend.c).
THEOREM StoreInvariant == RSSpec => []RSInv
BY InitInv, NextInv, PTL DEF RSSpec

\* Files and memories have their types, and packed-refs.new belongs to the
\* holder of packed-refs.lock: the staging file is never written by two
\* processes (write_with_updates()).
THEOREM StoreTypes == RSSpec => []RSTypeOK
<1>1. RSInv => RSTypeOK
  <2> SUFFICES ASSUME RSInv PROVE RSTypeOK
    OBVIOUS
  <2>1. /\ loose \in [Ref -> Oid] /\ packed \in [Ref -> Oid]
        /\ reflock \in [Ref -> Proc \cup {Free, Stale}]
        /\ packlock \in Proc \cup {Free, Stale}
    BY DEF RSInv, FilesOK, Holder
  <2>2. staging.by \in Proc => packlock = staging.by
    BY DEF RSInv, Tied
  <2>3. ASSUME NEW p \in Proc
        PROVE  /\ proc[p].op \in {"none", "txn", "prune", "pack", "read", "iter"}
               /\ proc[p].cache \in [Ref -> Oid] /\ proc[p].gaveup \subseteq Ref
               /\ proc[p].tries \in 0 .. ReadTries
               /\ proc[p].did \subseteq DOMAIN proc[p].txn
    BY DEF RSInv, Sound, Memory
  <2> QED
    BY <2>1, <2>2, <2>3 DEF RSTypeOK
<1> QED
  BY <1>1, StoreInvariant, PTL

\* However an operation ends, by success, a failed check, a time-out, a
\* failing call or a signal, its process leaves no lock file and no
\* packed-refs.new behind (files_transaction_cleanup(), remove_tempfiles()).
THEOREM StoreCleansUp == RSSpec => []NothingLeftBehind
<1>1. RSInv => NothingLeftBehind
  BY IdleHoldsNothing DEF NothingLeftBehind, At
<1> QED
  BY <1>1, StoreInvariant, PTL

\* A transaction deletes nothing before the last of its updates is in place,
\* at every moment at which it could be interrupted
\* (files_transaction_finish()).
THEOREM StoreUpdatesFirst == RSSpec => []UpdatesBeforeDeletes
<1>1. RSInv => UpdatesBeforeDeletes
  BY DEF UpdatesBeforeDeletes, RSInv, Sound
<1> QED
  BY <1>1, StoreInvariant, PTL
=============================================================================
