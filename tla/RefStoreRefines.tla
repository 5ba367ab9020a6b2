--------------------------- MODULE RefStoreRefines --------------------------
(***************************************************************************)
(* What the reference store implements, and what a reader without a lock   *)
(* reads: RefStore is a RefMap, for any processes, references, requests    *)
(* and number of faults.                                                   *)
(***************************************************************************)
EXTENDS RefStoreProofs

\* pack-refs without --auto, object names that do not recur, and no signal
\* between rename() and the removal of the lock from the process's list.
Careful == AutoModes \subseteq {FALSE} /\ ~ OidsRecur /\ ~ SignalWindow

\* The entries of a transaction whose references are locked, read and checked.
Checked(s) ==
    IF s.pc = "lock" \/ Looks(s) THEN { i \in DOMAIN s.txn : i < s.pos } ELSE DOMAIN s.txn

\* The entries whose references process p has locked and read, and has not
\* changed yet.
Standing(p, s, locks) ==
    { i \in DOMAIN s.txn \ s.did :
        locks[s.txn[i].ref] = p /\ s.got[s.txn[i].ref] # Unread }

\* The lock files a transaction has created by now, and what it knows.
TxnHolds(p, s, locks) == Changes(s) =>
    /\ \A i, j \in DOMAIN s.txn : s.txn[i].ref = s.txn[j].ref => i = j
    /\ s.pc # "cleanup" => \A i \in Checked(s) :
          /\ s.got[s.txn[i].ref] # Unread
          /\ i \notin s.did \/ i \in Deletes(s) => locks[s.txn[i].ref] = p
    /\ Looks(s) => s.target = s.txn[s.pos].ref /\ locks[s.target] = p
    /\ s.pc = "lock" \/ Looks(s) =>
          \A i \in DOMAIN s.txn : i >= s.pos => s.got[s.txn[i].ref] = Unread

\* A pruning is a transaction of one deletion, of the value packed.
PruneHolds(s) == s.op = "prune" =>
    /\ DOMAIN s.txn = {1} /\ s.txn[1].new = Null
    /\ s.txn[1].old = s.cache[s.txn[1].ref] /\ s.txn[1].old # Null
    /\ \A r \in s.todo : s.cache[r] # Null
    /\ s.got[s.txn[1].ref] # Unread => s.got[s.txn[1].ref].val = s.txn[1].old

\* Who changes packed-refs has it locked, from before the first look at it.
PackHolds(p, s, pack) ==
    /\ s.op = "txn" /\ Deletes(s) # {} /\ s.pc \in {"stage", "finish"} => pack = p
    /\ s.op = "pack" /\ s.pc # "packlock" => pack = p
    /\ s.op = "pack" /\ s.pc = "packlock" => \A r \in Ref : s.cache[r] = Null

\* What a process holds, and in what order it has come by it.
Holds(p, s, locks, pack) ==
    TxnHolds(p, s, locks) /\ PruneHolds(s) /\ PackHolds(p, s, pack)

\* What a process has seen under the lock of reference r is still so: l and k
\* are the loose and the packed values, d the references in doubt.
Current(s, r, l, k, d) ==
    /\ s.got[r].packed => l[r] = Null
    /\ ~ s.got[r].packed => l[r] = s.got[r].val
    /\ l[r] = Null => k[r] = s.got[r].val \/ r \in d

\* The content of packed-refs.new: k with the updates merged into it.
Merged(s, k) ==
    [r \in Ref |->
        IF s.op = "pack" THEN IF s.cache[r] # Null THEN s.cache[r] ELSE k[r]
        ELSE IF \E i \in Deletes(s) : s.txn[i].ref = r THEN Null ELSE k[r]]

\* What process p has seen is so, while it looks as well, and packed-refs and
\* its successor st are as it has left them.
Sees(p, s, locks, l, k, st, d) ==
    /\ Changes(s) => \A i \in Standing(p, s, locks) : Current(s, s.txn[i].ref, l, k, d)
    /\ Changes(s) /\ Looks(s) =>
        /\ s.pc = "stat" => s.tries = 0
        /\ s.pc = "open" => l[s.target] # Null
        /\ s.pc = "readpacked" => l[s.target] = Null
    /\ s.op = "txn" /\ s.pc = "finish" /\ st.by # p =>
        \A i \in Deletes(s) : k[s.txn[i].ref] = Null
    /\ st.by = p => st.refs = Merged(s, k) /\ s.did \cap Deletes(s) = {}

\* The object names a transaction is to write.
NewOf(s) == IF s.op = "txn" THEN { s.txn[i].new : i \in DOMAIN s.txn } \ {Null, Keep} ELSE {}

\* A name that is still to be written to a reference is nowhere to be found.
Unwritten ==
    /\ fresh \in Nat
    /\ \A r \in Ref : loose[r] < fresh /\ packed[r] < fresh
    /\ \A p \in Proc : /\ \A r \in Ref : proc[p].cache[r] < fresh
                       /\ \A v \in NewOf(proc[p]) : v < fresh
    /\ \A p, q \in Proc : p # q => NewOf(proc[p]) \cap NewOf(proc[q]) = {}
    /\ \A p \in Proc : \A i \in DOMAIN proc[p].txn \ proc[p].did :
        proc[p].txn[i].new \in NewOf(proc[p]) =>
            /\ loose[proc[p].txn[i].ref] # proc[p].txn[i].new
            /\ packed[proc[p].txn[i].ref] # proc[p].txn[i].new
            /\ \A q \in Proc : proc[q].cache[proc[p].txn[i].ref] # proc[p].txn[i].new

\* The references whose loose file pack-refs is still to remove, if its value
\* is the one that was packed.
Pending(s) ==
    IF s.op = "pack" /\ s.pc = "packunlock" THEN { r \in Ref : s.cache[r] # Null }
    ELSE IF s.op = "prune" THEN s.todo \cup { s.txn[i].ref : i \in DOMAIN s.txn \ s.did }
    ELSE {}

\* The references that deletions under way have taken out of packed-refs and
\* whose files they have still to unlink; m is the memory of the processes.
Going(m, by) ==
    { r \in Ref : \E q \in Proc :
        /\ m[q].op = "txn" /\ m[q].pc = "finish" /\ by # q
        /\ \E i \in NeedsUnlink(m[q]) : m[q].txn[i].ref = r }

\* What pack-refs has in its cache is, or was replaced by, the loose value,
\* or is packed already.
PackKnows(s, l, k, d) == s.op = "pack" => \A r \in Ref :
    s.cache[r] # Null => l[r] # Null \/ k[r] = s.cache[r] \/ r \in d

\* A loose file that a pruning may remove is packed with the same value.
PruneKnows(s, l, k, d, g) == \A r \in Pending(s) :
    l[r] = s.cache[r] => k[r] = s.cache[r] \/ r \in d \cup g

\* And a packing under way will not change that.
Agree(t, s, l, d) == t.op = "pack" => \A r \in Pending(s) :
    t.cache[r] # Null /\ l[r] = s.cache[r] => t.cache[r] = s.cache[r] \/ r \in d

\* All of this, for every process and every pair of them.
Known ==
    /\ \A p \in Proc : /\ PackKnows(proc[p], loose, packed, doubt)
                       /\ PruneKnows(proc[p], loose, packed, doubt, Going(proc, staging.by))
    /\ \A p, q \in Proc : Agree(proc[p], proc[q], loose, doubt)

\* The inductive invariant of the refinement.
DeepInv ==
    /\ RSInv
    /\ \A p \in Proc : /\ Holds(p, proc[p], reflock, packlock)
                       /\ Sees(p, proc[p], reflock, loose, packed, staging, doubt)
    /\ Unwritten
    /\ Known

-----------------------------------------------------------------------------

\* What a step of p leaves to every other process: its memory, its lock files
\* and its packed-refs.new.
Leaves(p) == \A q \in Proc \ {p} :
    /\ proc'[q] = proc[q]
    /\ \A r \in Ref : reflock'[r] = q <=> reflock[r] = q
    /\ packlock' = q <=> packlock = q
    /\ staging'.by = q <=> staging.by = q
    /\ staging.by = q => staging' = staging

\* What a step of p does to files: loose ones under their lock, packed-refs
\* under its own, and no value without the reference's lock.
Touches(p) ==
    /\ \A r \in Ref : reflock[r] # p =>
          /\ loose'[r] = loose[r]
          /\ r \in doubt => r \in doubt'
          /\ loose[r] = Null => packed'[r] = packed[r] \/ r \in doubt'
    /\ packlock # p => packed' = packed

\* Then what the others hold, they still hold.
LEMMA OthersHold ==
    ASSUME DeepInv, NEW p, Leaves(p), NEW q \in Proc \ {p}
    PROVE  Holds(q, proc'[q], reflock', packlock')
<1> DEFINE s == proc[q]
<1>1. proc'[q] = s /\ Holds(q, s, reflock, packlock) /\ s \in Memory /\ Sound(s)
  BY DEF Leaves, DeepInv, RSInv
<1>2. \A r \in Ref : reflock'[r] = q <=> reflock[r] = q
  BY DEF Leaves
<1>3. packlock' = q <=> packlock = q
  BY DEF Leaves
<1>4. (\A i \in DOMAIN s.txn : s.txn[i].ref \in Ref) /\ (Looks(s) => s.target \in Ref)
  BY <1>1, TxnFacts DEF Sound
<1>5. Checked(s) \subseteq DOMAIN s.txn
  BY DEF Checked
<1> HIDE DEF s
<1>6. TxnHolds(q, s, reflock')
  BY <1>1, <1>2, <1>4, <1>5 DEF Holds, TxnHolds
<1>7. PackHolds(q, s, packlock')
  BY <1>1, <1>3 DEF Holds, PackHolds
<1> QED
  BY <1>1, <1>6, <1>7 DEF Holds

\* And what the others have seen, they still see.
LEMMA OthersSee ==
    ASSUME DeepInv, NEW p, Leaves(p), Touches(p), NEW q \in Proc \ {p}
    PROVE  Sees(q, proc'[q], reflock', loose', packed', staging', doubt')
<1> DEFINE s == proc[q]
<1>1. /\ proc'[q] = s /\ Holds(q, s, reflock, packlock)
      /\ Sees(q, s, reflock, loose, packed, staging, doubt)
      /\ s \in Memory /\ Sound(s) /\ Tied(q, s, reflock, packlock, staging.by)
  BY DEF Leaves, DeepInv, RSInv
<1>2. \A r \in Ref : reflock'[r] = q <=> reflock[r] = q
  BY DEF Leaves
<1>3. (\A i \in DOMAIN s.txn : s.txn[i].ref \in Ref) /\ (Looks(s) => s.target \in Ref)
  BY <1>1, TxnFacts DEF Sound
<1>4. Standing(q, s, reflock') = Standing(q, s, reflock)
  BY <1>2, <1>3 DEF Standing
<1>5. \A r \in Ref : reflock[r] = q =>
         /\ loose'[r] = loose[r] /\ (r \in doubt => r \in doubt')
         /\ loose[r] = Null => packed'[r] = packed[r] \/ r \in doubt'
  BY DEF Touches
<1>6. packlock = q => packed' = packed
  BY DEF Touches
<1>7. (staging'.by = q <=> staging.by = q) /\ (staging.by = q => staging' = staging)
  BY DEF Leaves
<1> HIDE DEF s
<1>8. ASSUME Changes(s), NEW i \in Standing(q, s, reflock')
      PROVE  Current(s, s.txn[i].ref, loose', packed', doubt')
  <2> DEFINE r == s.txn[i].ref
  <2>1. r \in Ref /\ reflock[r] = q /\ Current(s, r, loose, packed, doubt)
    BY <1>1, <1>3, <1>4, <1>8 DEF Standing, Sees
  <2> HIDE DEF r
  <2>2. Current(s, r, loose', packed', doubt')
    BY <1>5, <2>1 DEF Current
  <2> QED
    BY <2>2 DEF r
<1>9. ASSUME Changes(s), Looks(s)
      PROVE  /\ s.pc = "stat" => s.tries = 0
             /\ s.pc = "open" => loose'[s.target] # Null
             /\ s.pc = "readpacked" => loose'[s.target] = Null
  <2>1. s.target \in Ref /\ reflock[s.target] = q
    BY <1>1, <1>3, <1>9 DEF Holds, TxnHolds
  <2> QED
    BY <1>1, <1>5, <1>9, <2>1 DEF Sees
<1>10. ASSUME s.op = "txn", s.pc = "finish", staging'.by # q, NEW i \in Deletes(s)
       PROVE  packed'[s.txn[i].ref] = Null
  BY <1>1, <1>6, <1>7, <1>10 DEF Holds, PackHolds, Sees
<1>11. ASSUME staging'.by = q
       PROVE  staging'.refs = Merged(s, packed') /\ s.did \cap Deletes(s) = {}
  BY <1>1, <1>6, <1>7, <1>11 DEF Sees, Tied
<1> QED
  BY <1>1, <1>8, <1>9, <1>10, <1>11 DEF Sees

-----------------------------------------------------------------------------

\* Object names are numbers.
LEMMA Oids == \A v \in Oid : v \in Nat /\ Null <= v /\ v # Keep
<1>1. MaxOid \in Nat
  BY RefStoreAssumption DEF RefStoreAssumption
<1> QED
  BY <1>1 DEF Oid, Null, Keep

\* What memory a step leaves to a process: no transaction out of nothing, and
\* in the cache only what was there or could be read.
Follows(s, t) ==
    /\ t.op = "txn" => s.op = "txn" /\ t.txn = s.txn /\ s.did \subseteq t.did
    /\ \A r \in Ref : t.cache[r] \in {s.cache[r], Null, loose[r], packed[r]}

\* Names not yet written stay so, as long as files only lose values or take
\* them from each other and from caches.
LEMMA UnwrittenKept ==
    ASSUME DeepInv, RSInv', fresh' = fresh,
           \A q \in Proc : Follows(proc[q], proc'[q]),
           \A r \in Ref : loose'[r] \in {loose[r], Null},
           \A r \in Ref : \/ packed'[r] \in {packed[r], Null}
                          \/ \E q \in Proc : packed'[r] = proc[q].cache[r]
    PROVE  Unwritten'
<1>1. Unwritten /\ RSInv
  BY DEF DeepInv
<1> DEFINE Old(r, v) == \/ v \in {loose[r], packed[r], Null}
                        \/ \E q \in Proc : v = proc[q].cache[r]
<1>2. \A r \in Ref : Old(r, loose'[r]) /\ Old(r, packed'[r])
  OBVIOUS
<1>3. \A r \in Ref : \A q \in Proc : Old(r, proc'[q].cache[r])
  BY DEF Follows
<1>4. ASSUME NEW r \in Ref, NEW v, Old(r, v)
      PROVE  v < fresh
  <2>1. loose[r] \in Oid /\ loose[r] < fresh /\ packed[r] < fresh /\ fresh \in Nat
    BY <1>1 DEF Unwritten, RSInv, FilesOK
  <2>2. Null < fresh
    BY <2>1, RefStoreAssumption DEF Oid, Null, RefStoreAssumption
  <2> QED
    BY <1>1, <1>4, <2>1, <2>2 DEF Unwritten
<1>5. \A q \in Proc : NewOf(proc'[q]) \subseteq NewOf(proc[q])
  BY DEF Follows, NewOf
<1> HIDE DEF Old
<1>6. ASSUME NEW q \in Proc, NEW i \in DOMAIN proc'[q].txn \ proc'[q].did,
             proc'[q].txn[i].new \in NewOf(proc'[q])
      PROVE  /\ loose'[proc'[q].txn[i].ref] # proc'[q].txn[i].new
             /\ packed'[proc'[q].txn[i].ref] # proc'[q].txn[i].new
             /\ \A x \in Proc : proc'[x].cache[proc'[q].txn[i].ref] # proc'[q].txn[i].new
  <2> DEFINE u == proc[q].txn[i]
  <2>1. proc'[q].op = "txn"
    BY <1>6 DEF NewOf
  <2>2. /\ proc[q].op = "txn" /\ proc'[q].txn = proc[q].txn
        /\ i \in DOMAIN proc[q].txn \ proc[q].did
    BY <2>1 DEF Follows
  <2>3. u.new \in NewOf(proc[q]) /\ u.new # Null
    BY <1>6, <2>1, <2>2 DEF NewOf
  <2>4. u.ref \in Ref
    BY <1>1, <2>2, TxnFacts DEF RSInv
  <2>5. ~ Old(u.ref, u.new)
    BY <1>1, <2>2, <2>3 DEF Unwritten, Old
  <2> HIDE DEF u
  <2>6. /\ loose'[u.ref] # u.new /\ packed'[u.ref] # u.new
        /\ \A x \in Proc : proc'[x].cache[u.ref] # u.new
    BY <1>2, <1>3, <2>4, <2>5
  <2> QED
    BY <2>2, <2>6 DEF u
<1>7. \A r \in Ref : loose'[r] < fresh /\ packed'[r] < fresh
  BY <1>2, <1>4
<1>8. \A q \in Proc : /\ \A r \in Ref : proc'[q].cache[r] < fresh
                      /\ \A v \in NewOf(proc'[q]) : v < fresh
  BY <1>1, <1>3, <1>4, <1>5 DEF Unwritten
<1>9. \A p, q \in Proc : p # q => NewOf(proc'[p]) \cap NewOf(proc'[q]) = {}
  BY <1>1, <1>5 DEF Unwritten
<1> QED
  BY <1>1, <1>6, <1>7, <1>8, <1>9 DEF Unwritten

\* What is to be pruned has a value in the cache.
LEMMA PendingNamed ==
    ASSUME DeepInv, NEW q \in Proc, NEW r \in Pending(proc[q])
    PROVE  r \in Ref /\ proc[q].cache[r] # Null
<1> DEFINE s == proc[q]
<1>1. s \in Memory /\ PruneHolds(s)
  BY DEF DeepInv, RSInv, Holds
<1>2. CASE s.op = "pack" /\ s.pc = "packunlock"
  BY <1>2 DEF Pending
<1>3. CASE s.op = "prune"
  <2>1. CASE r \in s.todo
    BY <1>1, <1>3, <2>1 DEF PruneHolds, Memory
  <2>2. CASE r \notin s.todo
    <3>1. PICK i \in DOMAIN s.txn : s.txn[i].ref = r
      BY <1>3, <2>2 DEF Pending
    <3>2. i = 1
      BY <1>1, <1>3, <3>1 DEF PruneHolds
    <3> QED
      BY <1>1, <1>3, <3>1, <3>2, TxnFacts DEF PruneHolds
  <2> QED
    BY <2>1, <2>2
<1> QED
  BY <1>2, <1>3 DEF Pending

\* What a step leaves of packings and prunings under way.
Narrows(s, t) ==
    /\ t.op = "pack" => \/ \A r \in Ref : t.cache[r] = Null
                        \/ s.op = "pack" /\ t.cache = s.cache
    /\ \A r \in Pending(t) : r \in Pending(s) /\ t.cache[r] = s.cache[r]

\* Steps that change no value keep what is known about packing and pruning.
LEMMA KnownKept ==
    ASSUME DeepInv, loose' = loose, packed' = packed, doubt \subseteq doubt',
           \A q \in Proc : Narrows(proc[q], proc'[q]),
           \A r \in Going(proc, staging.by) :
              r \in Going(proc', staging'.by) \/ r \in doubt' \/ loose[r] = Null
    PROVE  Known'
<1>1. Known
  BY DEF DeepInv
<1> DEFINE g == Going(proc, staging.by)
           h == Going(proc', staging'.by)
<1>2. \A r \in g : r \in h \/ r \in doubt' \/ loose[r] = Null
  OBVIOUS
<1> HIDE DEF g, h
<1>3. ASSUME NEW q \in Proc
      PROVE  PackKnows(proc'[q], loose', packed', doubt')
  <2>1. PackKnows(proc[q], loose, packed, doubt)
    BY <1>1 DEF Known
  <2> QED
    BY <2>1 DEF PackKnows, Narrows
<1>4. ASSUME NEW q \in Proc
      PROVE  PruneKnows(proc'[q], loose', packed', doubt', h)
  <2>1. PruneKnows(proc[q], loose, packed, doubt, g)
    BY <1>1 DEF Known, g
  <2>2. SUFFICES ASSUME NEW r \in Pending(proc'[q]), loose'[r] = proc'[q].cache[r]
                 PROVE  packed'[r] = proc'[q].cache[r] \/ r \in doubt' \cup h
    BY DEF PruneKnows
  <2>3. r \in Pending(proc[q]) /\ proc'[q].cache[r] = proc[q].cache[r]
    BY DEF Narrows
  <2>4. proc[q].cache[r] # Null
    BY <2>3, PendingNamed
  <2> QED
    BY <1>2, <2>1, <2>2, <2>3, <2>4 DEF PruneKnows
<1>5. ASSUME NEW p \in Proc, NEW q \in Proc
      PROVE  Agree(proc'[p], proc'[q], loose', doubt')
  <2>1. Agree(proc[p], proc[q], loose, doubt)
    BY <1>1 DEF Known
  <2>2. SUFFICES ASSUME proc'[p].op = "pack", NEW r \in Pending(proc'[q]),
                        proc'[p].cache[r] # Null, loose'[r] = proc'[q].cache[r]
                 PROVE  proc'[p].cache[r] = proc'[q].cache[r] \/ r \in doubt'
    BY DEF Agree
  <2>3. r \in Pending(proc[q]) /\ proc'[q].cache[r] = proc[q].cache[r]
    BY DEF Narrows
  <2>4. r \in Ref
    BY <2>3, PendingNamed
  <2>5. proc[p].op = "pack" /\ proc'[p].cache = proc[p].cache
    BY <2>2, <2>4 DEF Narrows
  <2> QED
    BY <2>1, <2>2, <2>3, <2>5 DEF Agree
<1> QED
  BY <1>3, <1>4, <1>5 DEF Known, h

-----------------------------------------------------------------------------

\* Deletions of other processes are where they were; so are those of p, which
\* is not finishing any.
LEMMA GoingKept ==
    ASSUME NEW p, Leaves(p), p \in Proc => proc[p].pc # "finish",
           NEW r \in Going(proc, staging.by)
    PROVE  r \in Going(proc', staging'.by)
BY DEF Going, Leaves

\* What a step of p must show when it changes no value.
LEMMA QuietStep ==
    ASSUME DeepInv, RSInv', NEW p \in Proc, NEW t, Become(p, t), Leaves(p),
           loose' = loose, packed' = packed, doubt \subseteq doubt', fresh' = fresh,
           Holds(p, t, reflock', packlock'),
           Sees(p, t, reflock', loose', packed', staging', doubt'),
           Follows(proc[p], t), Narrows(proc[p], t),
           \A r \in Going(proc, staging.by) :
              r \in Going(proc', staging'.by) \/ r \in doubt' \/ loose[r] = Null
    PROVE  DeepInv'
<1>1. proc'[p] = t /\ \A q \in Proc \ {p} : proc'[q] = proc[q]
  BY DEF Become, DeepInv, RSInv
<1>2. Touches(p)
  BY DEF Touches
<1>3. \A q \in Proc : Follows(proc[q], proc'[q]) /\ Narrows(proc[q], proc'[q])
  <2>1. \A q \in Proc : Follows(proc[q], proc[q]) /\ Narrows(proc[q], proc[q])
    BY DEF Follows, Narrows
  <2> QED
    BY <1>1, <2>1
<1>4. Unwritten'
  BY <1>3, UnwrittenKept
<1>5. Known'
  BY <1>3, KnownKept
<1>6. \A q \in Proc : /\ Holds(q, proc'[q], reflock', packlock')
                      /\ Sees(q, proc'[q], reflock', loose', packed', staging', doubt')
  BY <1>1, <1>2, OthersHold, OthersSee
<1> QED
  BY <1>4, <1>5, <1>6 DEF DeepInv

\* A process that neither changes references nor packs them.
LEMMA Resting ==
    ASSUME NEW p, NEW t, t.op \in {"none", "read", "iter"},
           NEW locks, NEW pack, NEW l, NEW k, NEW st, NEW d, st.by # p
    PROVE  /\ Holds(p, t, locks, pack) /\ Sees(p, t, locks, l, k, st, d)
           /\ Narrows(proc[p], t)
BY DEF Holds, TxnHolds, PruneHolds, PackHolds, Changes, Sees, Narrows, Pending

\* Reading and packing start with an empty cache.
LEMMA StartOther ==
    ASSUME Careful, DeepInv, RSInv', NEW p \in Proc, doubt' = doubt,
           files_pack_refs(p) \/ files_read_raw_ref(p) \/ files_ref_iterator_begin(p)
    PROVE  DeepInv'
<1>1. /\ proc[p].pc = "idle" /\ UNCHANGED files /\ fresh' = fresh
  BY DEF files_pack_refs, files_read_raw_ref, files_ref_iterator_begin, Starts, At
<1>2. staging.by # p
  BY <1>1, IdleHoldsNothing DEF DeepInv
<1>3. Idle \in Memory /\ Idle.cache = [r \in Ref |-> Null]
  BY IdleSound DEF Sound, Idle
<1>4. PICK t : /\ Become(p, t) /\ \A r \in Ref : t.cache[r] = Null
               /\ t.op \in {"read", "iter"} \/ (t.op = "pack" /\ t.pc = "packlock")
  <2>1. CASE files_pack_refs(p)
    <3> DEFINE t == [Idle EXCEPT !.op = "pack", !.todo = Ref, !.pc = "packlock"]
    <3>1. Become(p, t)
      BY <2>1 DEF files_pack_refs, Careful
    <3>2. t.cache = Idle.cache /\ t.op = "pack" /\ t.pc = "packlock"
      BY <1>3 DEF Memory
    <3> HIDE DEF t
    <3> QED
      BY <1>3, <3>1, <3>2
  <2>2. CASE files_read_raw_ref(p)
    <3>1. PICK r \in Ref :
             Become(p, [Idle EXCEPT !.op = "read", !.pc = "stat", !.target = r])
      BY <2>2 DEF files_read_raw_ref
    <3> DEFINE t == [Idle EXCEPT !.op = "read", !.pc = "stat", !.target = r]
    <3>2. Become(p, t) /\ t.cache = Idle.cache /\ t.op = "read"
      BY <1>3, <3>1 DEF Memory
    <3> HIDE DEF t
    <3> QED
      BY <1>3, <3>2
  <2>3. CASE files_ref_iterator_begin(p)
    <3> DEFINE t == [Idle EXCEPT !.op = "iter", !.pc = "fill", !.todo = Ref]
    <3>1. Become(p, t) /\ t.cache = Idle.cache /\ t.op = "iter"
      BY <1>3, <2>3 DEF files_ref_iterator_begin, Memory
    <3> HIDE DEF t
    <3> QED
      BY <1>3, <3>1
  <2> QED
    BY <2>1, <2>2, <2>3
<1>5. Leaves(p)
  BY <1>1, <1>4 DEF Leaves, Become, DeepInv, RSInv, files
<1>6. /\ reflock' = reflock /\ packlock' = packlock /\ staging' = staging
      /\ loose' = loose /\ packed' = packed
  BY <1>1 DEF files
<1>7. Follows(proc[p], t)
  BY <1>4 DEF Follows
<1>8. /\ Holds(p, t, reflock', packlock') /\ Narrows(proc[p], t)
      /\ Sees(p, t, reflock', loose', packed', staging', doubt')
  <2>1. CASE t.op \in {"read", "iter"}
    BY <1>2, <1>6, <2>1, Resting
  <2>2. CASE t.op = "pack" /\ t.pc = "packlock"
    BY <1>2, <1>4, <1>6, <2>2
       DEF Holds, TxnHolds, PruneHolds, PackHolds, Changes, Sees, Narrows, Pending
  <2> QED
    BY <1>4, <2>1, <2>2
<1>9. \A r \in Going(proc, staging.by) : r \in Going(proc', staging'.by)
  BY <1>1, <1>5, GoingKept
<1> QED
  BY <1>1, <1>4, <1>5, <1>6, <1>7, <1>8, <1>9, QuietStep

\* A transaction starts with names of its own, nothing locked, nothing read.
LEMMA StartTransaction ==
    ASSUME Careful, DeepInv, RSInv', NEW p \in Proc, doubt' = doubt,
           ref_transaction_commit(p)
    PROVE  DeepInv'
<1>1. /\ proc[p].pc = "idle" /\ loose' = loose /\ packed' = packed /\ reflock' = reflock
      /\ packlock' = packlock /\ staging' = staging
  BY DEF ref_transaction_commit, Starts, At, files
<1>2. staging.by # p /\ RSInv /\ Unwritten
  BY <1>1, IdleHoldsNothing DEF DeepInv
<1>3. /\ Idle \in Memory /\ Idle.cache = [r \in Ref |-> Null] /\ Idle.did = {}
      /\ Idle.got = [r \in Ref |-> Unread]
  BY IdleSound DEF Sound, Idle
<1>4. PICK v \in NewOids, q \in Requests :
        /\ Become(p, [Idle EXCEPT !.op = "txn", !.pc = "lock", !.pos = 1,
                                  !.txn = Transaction(q, v)])
        /\ fresh' = IF v = fresh /\ \E i \in DOMAIN q : q[i].ask = "set"
                    THEN fresh + 1 ELSE fresh
  BY DEF ref_transaction_commit
<1>5. v = fresh /\ fresh \in Nat
  BY <1>2 DEF NewOids, Careful, Unwritten
<1> DEFINE x == Transaction(q, v)
           m == [Idle EXCEPT !.op = "txn", !.pc = "lock", !.pos = 1, !.txn = x]
<1>6. /\ DOMAIN x = DOMAIN q /\ DOMAIN q = 1 .. Len(q)
      /\ \A i \in DOMAIN q : x[i].ref = q[i].ref /\ x[i].ref \in Ref
      /\ \A i \in DOMAIN q : x[i].new \in {Null, Keep} \/ (x[i].new = v /\ q[i].ask = "set")
      /\ \A i, j \in DOMAIN q : q[i].ref = q[j].ref => i = j
  <2> DEFINE R == [ref : Ref, ask : {"set", "delete", "verify"}, check : BOOLEAN]
  <2>1. q \in Seq(R) /\ \A i, j \in DOMAIN q : q[i].ref = q[j].ref => i = j
    BY RefStoreAssumption DEF RefStoreAssumption
  <2>2. /\ DOMAIN q = 1 .. Len(q)
        /\ \A i \in DOMAIN q : q[i].ref \in Ref /\ q[i].ask \in {"set", "delete", "verify"}
    <3>1. \A i \in DOMAIN q : q[i] \in R
      BY <2>1, SeqFacts
    <3>2. DOMAIN q = 1 .. Len(q)
      BY <2>1, SeqFacts
    <3> QED
      BY <3>1, <3>2
  <2>3. DOMAIN x = DOMAIN q
    BY DEF Transaction
  <2>4. ASSUME NEW i \in DOMAIN q
        PROVE  /\ x[i].ref = q[i].ref
               /\ x[i].new \in {Null, Keep} \/ (x[i].new = v /\ q[i].ask = "set")
    BY <2>2 DEF Transaction
  <2> HIDE DEF x
  <2> QED
    BY <2>1, <2>2, <2>3, <2>4
<1>7. /\ m.op = "txn" /\ m.pc = "lock" /\ m.pos = 1 /\ m.txn = x /\ m.did = {}
      /\ m.cache = Idle.cache /\ m.got = Idle.got
  BY <1>3 DEF Memory
<1> HIDE DEF x
<1>20. Become(p, m)
  BY <1>4 DEF x
<1> HIDE DEF m
<1>8. PICK t : /\ Become(p, t)
               /\ t.op = "txn" /\ t.pc = "lock" /\ t.pos = 1 /\ t.txn = x /\ t.did = {}
               /\ \A r \in Ref : t.cache[r] = Null /\ t.got[r] = Unread
  BY <1>3, <1>7, <1>20
<1>9. proc'[p] = t /\ \A y \in Proc \ {p} : proc'[y] = proc[y]
  BY <1>2, <1>8 DEF RSInv, Become
<1>10. Leaves(p) /\ Touches(p)
  BY <1>1, <1>9 DEF Leaves, Touches
<1>11. Holds(p, t, reflock', packlock')
  BY <1>6, <1>8 DEF Holds, TxnHolds, PruneHolds, PackHolds, Checked, Looks
<1>12. Sees(p, t, reflock', loose', packed', staging', doubt')
  <2>1. Standing(p, t, reflock') = {}
    BY <1>6, <1>8 DEF Standing
  <2> QED
    BY <1>1, <1>2, <1>8, <2>1 DEF Sees, Looks
<1>13. Known'
  <2>1. \A y \in Proc : Narrows(proc[y], proc'[y])
    BY <1>8, <1>9 DEF Narrows, Pending
  <2>2. \A r \in Going(proc, staging.by) : r \in Going(proc', staging'.by)
    BY <1>1, <1>10, GoingKept
  <2> QED
    BY <1>1, <2>1, <2>2, KnownKept
<1>14. NewOf(t) \subseteq {fresh} /\ (NewOf(t) # {} => fresh' = fresh + 1)
  BY <1>4, <1>5, <1>6, <1>8 DEF NewOf
<1>15. fresh' \in Nat /\ fresh <= fresh'
  BY <1>4, <1>5
<1>16. \A r \in Ref : Null < fresh
  <2>1. \A r \in Ref : loose[r] \in Oid /\ loose[r] < fresh
    BY <1>2 DEF Unwritten, RSInv, FilesOK
  <2> QED
    BY <1>5, <2>1, Oids DEF Null
<1>17. Unwritten'
  <2>1. \A r \in Ref : loose'[r] < fresh' /\ packed'[r] < fresh'
    <3>1. \A r \in Ref : /\ loose[r] \in Int /\ packed[r] \in Int
                         /\ loose[r] < fresh /\ packed[r] < fresh
      BY <1>2, RefStoreAssumption DEF Unwritten, RSInv, FilesOK, Oid, RefStoreAssumption
    <3> QED
      BY <1>1, <1>5, <1>15, <3>1
  <2>2. ASSUME NEW y \in Proc
        PROVE  /\ \A r \in Ref : proc'[y].cache[r] < fresh'
               /\ \A w \in NewOf(proc'[y]) : w < fresh'
    <3>1. CASE y = p
      BY <1>5, <1>8, <1>9, <1>14, <1>15, <1>16, <3>1 DEF Null
    <3>2. CASE y # p
      <4>1. proc[y] \in Memory
        BY <1>2 DEF RSInv
      <4>2. \A r \in Ref : proc[y].cache[r] \in Int /\ proc[y].cache[r] < fresh
        <5>1. \A r \in Ref : proc[y].cache[r] \in Oid
          BY <4>1 DEF Memory
        <5> QED
          BY <1>2, <5>1, Oids DEF Unwritten
      <4>3. \A w \in NewOf(proc[y]) : w \in Int /\ w < fresh
        <5>1. \A i \in DOMAIN proc[y].txn : proc[y].txn[i].new \in Oid \cup {Keep}
          BY <4>1, TxnFacts
        <5> QED
          BY <1>2, <5>1, Oids DEF Unwritten, NewOf
      <4> QED
        BY <1>5, <1>9, <1>15, <3>2, <4>2, <4>3
    <3> QED
      BY <3>1, <3>2
  <2>3. \A y \in Proc : fresh \notin NewOf(proc[y])
    BY <1>2, <1>5 DEF Unwritten
  <2>4. \A y, z \in Proc : y # z => NewOf(proc'[y]) \cap NewOf(proc'[z]) = {}
    BY <1>2, <1>8, <1>9, <1>14, <2>3 DEF Unwritten
  <2>5. ASSUME NEW y \in Proc, NEW i \in DOMAIN proc'[y].txn \ proc'[y].did,
               proc'[y].txn[i].new \in NewOf(proc'[y])
        PROVE  /\ loose'[proc'[y].txn[i].ref] # proc'[y].txn[i].new
               /\ packed'[proc'[y].txn[i].ref] # proc'[y].txn[i].new
               /\ \A z \in Proc : proc'[z].cache[proc'[y].txn[i].ref] # proc'[y].txn[i].new
    <3>1. CASE y = p
      <4>1. proc'[y].txn[i].new = fresh /\ proc'[y].txn[i].ref \in Ref
        BY <1>6, <1>8, <1>9, <1>14, <2>5, <3>1
      <4>2. \A z \in Proc : \A r \in Ref : proc'[z].cache[r] # fresh
        BY <1>2, <1>5, <1>8, <1>9, <1>16 DEF Unwritten
      <4> QED
        BY <1>1, <1>2, <1>5, <4>1, <4>2 DEF Unwritten
    <3>2. CASE y # p
      <4>1. proc[y].txn[i].ref \in Ref /\ proc'[y] = proc[y]
        BY <1>2, <1>9, <2>5, <3>2, TxnFacts DEF RSInv
      <4>2. proc[y].txn[i].new # Null
        BY <2>5, <4>1 DEF NewOf
      <4> QED
        BY <1>1, <1>2, <1>8, <1>9, <2>5, <4>1, <4>2 DEF Unwritten
    <3> QED
      BY <3>1, <3>2
  <2> QED
    BY <1>15, <2>1, <2>2, <2>4, <2>5 DEF Unwritten
<1>18. \A y \in Proc : /\ Holds(y, proc'[y], reflock', packlock')
                       /\ Sees(y, proc'[y], reflock', loose', packed', staging', doubt')
  BY <1>9, <1>10, <1>11, <1>12, OthersHold, OthersSee
<1> QED
  BY <1>13, <1>17, <1>18 DEF DeepInv

-----------------------------------------------------------------------------

\* A step on the way that changes neither what an operation is to do nor what
\* it has done.
SameWork(s, t) == /\ t.op = s.op /\ t.txn = s.txn /\ t.did = s.did
                  /\ t.cache = s.cache /\ t.todo = s.todo

\* Such a step keeps names, entries and prunings.
LEMMA SameWorkFacts ==
    ASSUME NEW s, NEW t, SameWork(s, t), Changes(s)
    PROVE  Changes(t) /\ Deletes(t) = Deletes(s) /\ Follows(s, t) /\ Narrows(s, t)
<1>1. Pending(t) = Pending(s)
  BY DEF Pending, SameWork, Changes
<1> QED
  BY <1>1 DEF SameWork, Changes, Deletes, Follows, Narrows

\* Where a transaction goes when a reference is locked and checked.
LEMMA NextUpdateIs ==
    ASSUME NEW s \in Memory, s.pos \in DOMAIN s.txn
    PROVE  /\ SameWork(s, NextUpdate(s)) /\ NextUpdate(s).got = s.got
           /\ s.pos \in Nat /\ \A i \in DOMAIN s.txn : i \in Nat
           /\ \/ NextUpdate(s).pc = "lock" /\ NextUpdate(s).pos = s.pos + 1
              \/ /\ NextUpdate(s).pc = "packlock" /\ s.op = "txn"
                 /\ \A i \in DOMAIN s.txn : i <= s.pos
              \/ /\ NextUpdate(s).pc = "finish" /\ ~ (s.op = "txn" /\ Deletes(s) # {})
                 /\ \A i \in DOMAIN s.txn : i <= s.pos
<1> DEFINE t == NextUpdate(s)
<1>1. s.txn \in Seq(Update) /\ s.pos \in Nat
  BY DEF Memory
<1>2. Len(s.txn) \in Nat /\ DOMAIN s.txn = 1 .. Len(s.txn)
  BY <1>1, SeqFacts
<1>3. CASE s.pos < Len(s.txn)
  <2>1. NextUpdate(s) = [s EXCEPT !.pos = @ + 1, !.pc = "lock"]
    BY <1>3 DEF NextUpdate
  <2>3. /\ t.op = s.op /\ t.txn = s.txn /\ t.did = s.did /\ t.cache = s.cache
        /\ t.todo = s.todo /\ t.got = s.got /\ t.pc = "lock" /\ t.pos = s.pos + 1
    BY <1>1, <2>1 DEF Memory
  <2> HIDE DEF t
  <2>4. SameWork(s, t)
    BY <2>3 DEF SameWork
  <2> QED
    BY <1>1, <1>2, <2>3, <2>4 DEF t
<1>4. CASE s.pos = Len(s.txn) /\ s.op = "txn" /\ Deletes(s) # {}
  <2>1. NextUpdate(s) = [s EXCEPT !.pc = "packlock"]
    BY <1>2, <1>4 DEF NextUpdate
  <2>3. /\ t.op = s.op /\ t.txn = s.txn /\ t.did = s.did /\ t.cache = s.cache
        /\ t.todo = s.todo /\ t.got = s.got /\ t.pc = "packlock"
    BY <1>1, <2>1 DEF Memory
  <2> HIDE DEF t
  <2>4. SameWork(s, t)
    BY <2>3 DEF SameWork
  <2> QED
    BY <1>1, <1>2, <1>4, <2>3, <2>4 DEF t
<1>5. CASE ~(s.pos < Len(s.txn)) /\ ~(s.pos = Len(s.txn) /\ s.op = "txn" /\ Deletes(s) # {})
  <2>1. NextUpdate(s) = [s EXCEPT !.pc = "finish"]
    BY <1>5 DEF NextUpdate
  <2>2. s.pos = Len(s.txn)
    BY <1>1, <1>2, <1>5
  <2>3. /\ t.op = s.op /\ t.txn = s.txn /\ t.did = s.did /\ t.cache = s.cache
        /\ t.todo = s.todo /\ t.got = s.got /\ t.pc = "finish"
    BY <1>1, <2>1 DEF Memory
  <2> HIDE DEF t
  <2>4. SameWork(s, t)
    BY <2>3 DEF SameWork
  <2> QED
    BY <1>1, <1>2, <1>5, <2>2, <2>3, <2>4 DEF t
<1> QED
  BY <1>3, <1>4, <1>5

\* A failing transaction has the same work, and is about to clean up.
LEMMA FailIs ==
    ASSUME NEW s \in Memory
    PROVE  SameWork(s, Fail(s)) /\ Fail(s).got = s.got /\ Fail(s).pc = "cleanup"
BY DEF Fail, SameWork, Memory

\* What a transaction that fails still holds and sees.
LEMMA Failing ==
    ASSUME DeepInv, NEW p \in Proc, Changes(proc[p]), NEW t, SameWork(proc[p], t),
           t.got = proc[p].got, t.pc = "cleanup"
    PROVE  /\ Holds(p, t, reflock, packlock)
           /\ Sees(p, t, reflock, loose, packed, staging, doubt)
<1> DEFINE s == proc[p]
<1>1. Holds(p, s, reflock, packlock) /\ Sees(p, s, reflock, loose, packed, staging, doubt)
  BY DEF DeepInv
<1>2. Changes(t) /\ Deletes(t) = Deletes(s)
  BY SameWorkFacts
<1>3. Holds(p, t, reflock, packlock)
  BY <1>1, <1>2 DEF Holds, TxnHolds, PruneHolds, PackHolds, SameWork, Looks, Changes
<1>4. Standing(p, t, reflock) = Standing(p, s, reflock)
  BY DEF Standing, SameWork
<1>5. Merged(t, packed) = Merged(s, packed)
  BY <1>2 DEF Merged, SameWork
<1> QED
  BY <1>1, <1>2, <1>3, <1>4, <1>5 DEF Sees, SameWork, Looks, Current

\* A step of p's own memory leaves everything to the others.
LEMMA OwnStep ==
    ASSUME DeepInv, NEW p \in Proc, NEW t, Become(p, t), UNCHANGED files
    PROVE  /\ Leaves(p) /\ proc'[p] = t
           /\ reflock' = reflock /\ packlock' = packlock /\ staging' = staging
           /\ loose' = loose /\ packed' = packed
<1>1. proc'[p] = t /\ \A q \in Proc \ {p} : proc'[q] = proc[q]
  BY DEF Become, DeepInv, RSInv
<1> QED
  BY <1>1 DEF Leaves, files

\* What a reader, or pack-refs filling its cache, makes of a value it has read.
LEMMA DeliverReads ==
    ASSUME NEW s \in Memory, s.op \in {"pack", "iter", "read"}, NEW v, NEW b
    PROVE  LET t == Deliver(s, v, b)
           IN  /\ t.op = s.op /\ t.todo = s.todo /\ t.target = s.target /\ t.did = s.did
               /\ t.pc = IF s.op = "read" THEN "return" ELSE "fill"
               /\ \A r \in Ref : t.cache[r] = IF r = s.target THEN v ELSE s.cache[r]
               /\ s.op = "iter" =>
                     t.broken = s.broken \cup (IF v = Null THEN {s.target} ELSE {})
               /\ t.gaveup = s.gaveup \cup GivenUp(s)
<1> DEFINE c == [s.cache EXCEPT ![s.target] = v]
           f == IF s.op = "read" THEN "return" ELSE "fill"
           k == s.broken \cup (IF v = Null /\ s.op # "read" THEN {s.target} ELSE {})
           g == s.gaveup \cup GivenUp(s)
           t == [s EXCEPT !.pc = f, !.cache = c, !.broken = k, !.gaveup = g]
<1>1. Deliver(s, v, b) = t
  <2>1. CASE s.op = "read"
    <3>1. k = s.broken
      BY <2>1
    <3> HIDE DEF k
    <3> QED
      BY <2>1, <3>1 DEF Deliver, Memory
  <2>2. CASE s.op \in {"pack", "iter"}
    BY <2>2 DEF Deliver, Memory
  <2> QED
    BY <2>1, <2>2
<1>2. s.op = "iter" => k = s.broken \cup (IF v = Null THEN {s.target} ELSE {})
  OBVIOUS
<1>4. \A r \in Ref : c[r] = IF r = s.target THEN v ELSE s.cache[r]
  BY DEF Memory
<1> HIDE DEF c, f, k, g
<1>3. /\ t.op = s.op /\ t.todo = s.todo /\ t.target = s.target /\ t.did = s.did
      /\ t.pc = f /\ t.cache = c /\ t.broken = k /\ t.gaveup = g
  BY DEF Memory
<1> QED
  BY <1>1, <1>2, <1>3, <1>4 DEF f, g

\* A reference read and checked under its lock is seen as it is.
LEMMA LockedRead ==
    ASSUME DeepInv, RSInv', NEW p \in Proc, Changes(proc[p]), Looks(proc[p]),
           NEW v \in Oid, NEW b \in BOOLEAN, Become(p, Deliver(proc[p], v, b)),
           UNCHANGED files, fresh' = fresh, doubt' = doubt,
           b => loose[proc[p].target] = Null,
           ~ b => loose[proc[p].target] = v,
           loose[proc[p].target] = Null => packed[proc[p].target] = v
    PROVE  DeepInv'
<1> DEFINE s == proc[p]
           t == Deliver(s, v, b)
           x == s.target
<1>1. /\ s \in Memory /\ Sound(s) /\ Holds(p, s, reflock, packlock)
      /\ Sees(p, s, reflock, loose, packed, staging, doubt)
      /\ Tied(p, s, reflock, packlock, staging.by)
  BY DEF DeepInv, RSInv
<1>2. /\ s.pos \in DOMAIN s.txn /\ x = s.txn[s.pos].ref /\ reflock[x] = p /\ x \in Ref
      /\ s.did = {} /\ staging.by # p
  BY <1>1 DEF Sound, Holds, TxnHolds, Tied, Looks
<1>3. t = lock_ref_for_update(s, v, b)
  BY DEF Deliver, Changes
<1>4. /\ Leaves(p) /\ reflock' = reflock /\ packlock' = packlock /\ staging' = staging
      /\ loose' = loose /\ packed' = packed /\ Become(p, t)
  BY OwnStep
<1>5. \A r \in Going(proc, staging.by) : r \in Going(proc', staging'.by)
  BY <1>4, GoingKept DEF Looks
<1>6. ASSUME SameWork(s, t), Holds(p, t, reflock, packlock),
             Sees(p, t, reflock, loose, packed, staging, doubt)
      PROVE  DeepInv'
  <2>1. Follows(s, t) /\ Narrows(s, t)
    BY <1>6, SameWorkFacts
  <2> HIDE DEF t
  <2> QED
    BY <1>4, <1>5, <1>6, <2>1, QuietStep
<1>7. CASE s.txn[s.pos].old \notin {Any, v}
  <2>1. t = Fail(s)
    BY <1>3, <1>7 DEF lock_ref_for_update
  <2>2. SameWork(s, t) /\ t.got = s.got /\ t.pc = "cleanup"
    BY <1>1, <2>1, FailIs
  <2> HIDE DEF t
  <2>3. Holds(p, t, reflock, packlock) /\ Sees(p, t, reflock, loose, packed, staging, doubt)
    BY <2>2, Failing
  <2> QED
    BY <1>6, <2>2, <2>3
<1>8. CASE s.txn[s.pos].old \in {Any, v}
  <2> DEFINE u == [s EXCEPT !.got[s.txn[s.pos].ref] = [val |-> v, packed |-> b]]
  <2>1. /\ u \in Memory /\ SameWork(s, u) /\ u.pos = s.pos
        /\ u.got[x] = [val |-> v, packed |-> b]
        /\ \A r \in Ref : r # x => u.got[r] = s.got[r]
    BY <1>1, <1>2 DEF Memory, SameWork
  <2>2. t = NextUpdate(u)
    BY <1>3, <1>8 DEF lock_ref_for_update
  <2> HIDE DEF u
  <2>3. u.pos \in DOMAIN u.txn
    BY <1>2, <2>1 DEF SameWork
  <2>4. SameWork(u, t) /\ t.got = u.got
    BY <2>1, <2>2, <2>3, NextUpdateIs
  <2>5. /\ s.pos \in Nat /\ \A i \in DOMAIN s.txn : i \in Nat
        /\ \/ t.pc = "lock" /\ t.pos = s.pos + 1
           \/ t.pc = "packlock" /\ s.op = "txn" /\ \A i \in DOMAIN s.txn : i <= s.pos
           \/ /\ t.pc = "finish" /\ ~ (s.op = "txn" /\ Deletes(s) # {})
              /\ \A i \in DOMAIN s.txn : i <= s.pos
    <3>1. Deletes(u) = Deletes(s)
      BY <2>1 DEF Deletes, SameWork
    <3> QED
      BY <2>1, <2>2, <2>3, <3>1, NextUpdateIs DEF SameWork
  <2>6. /\ SameWork(s, t) /\ t.got[x] = [val |-> v, packed |-> b]
        /\ \A r \in Ref : r # x => t.got[r] = s.got[r]
    BY <2>1, <2>4 DEF SameWork
  <2>7. Changes(t) /\ Deletes(t) = Deletes(s) /\ t.pc \in {"lock", "packlock", "finish"}
        /\ ~ Looks(t)
    BY <2>5, <2>6, SameWorkFacts DEF Looks
  <2>8. t.got[x] # Unread /\ t.got[x].val = v /\ t.got[x].packed = b
    BY <2>6, Constants DEF Unread
  <2>9. \A i \in DOMAIN s.txn : s.txn[i].ref \in Ref /\ (s.txn[i].ref = x <=> i = s.pos)
    BY <1>1, <1>2, TxnFacts DEF Holds, TxnHolds
  <2> HIDE DEF t
  <2>10. TxnHolds(p, t, reflock)
    <3>1. \A i \in DOMAIN s.txn : i < s.pos =>
             s.got[s.txn[i].ref] # Unread /\ reflock[s.txn[i].ref] = p
      BY <1>1, <1>2 DEF Holds, TxnHolds, Checked, Looks
    <3>2. \A i \in DOMAIN s.txn : i >= s.pos => s.got[s.txn[i].ref] = Unread
      BY <1>1 DEF Holds, TxnHolds
    <3>3. \A i \in DOMAIN s.txn : i <= s.pos =>
             t.got[s.txn[i].ref] # Unread /\ reflock[s.txn[i].ref] = p
      <4> TAKE i \in DOMAIN s.txn
      <4>1. CASE i = s.pos
        BY <1>2, <2>8, <4>1
      <4>2. CASE i # s.pos
        BY <2>5, <2>6, <2>9, <3>1, <4>2
      <4> QED
        BY <4>1, <4>2
    <3>4. Checked(t) \subseteq DOMAIN s.txn /\ \A i \in Checked(t) : i <= s.pos
      BY <2>5, <2>6, <2>7 DEF Checked, SameWork
    <3>5. t.pc = "lock" => \A i \in DOMAIN s.txn : i >= t.pos => t.got[s.txn[i].ref] = Unread
      <4> SUFFICES ASSUME t.pc = "lock", NEW i \in DOMAIN s.txn, i >= t.pos
                   PROVE  t.got[s.txn[i].ref] = Unread
        OBVIOUS
      <4>1. i # s.pos /\ i >= s.pos
        BY <2>5
      <4> QED
        BY <2>6, <2>9, <3>2, <4>1
    <3> QED
      BY <1>1, <2>6, <2>7, <3>3, <3>4, <3>5 DEF Holds, TxnHolds, SameWork
  <2>11. PruneHolds(t)
    <3> SUFFICES ASSUME t.op = "prune" PROVE PruneHolds(t)
      BY DEF PruneHolds
    <3>1. PruneHolds(s) /\ s.op = "prune" /\ s.pos = 1
      BY <1>1, <1>2, <2>6 DEF Holds, SameWork, PruneHolds
    <3>2. s.txn[1].old \in Oid
      <4>1. s.cache \in [Ref -> Oid] /\ s.txn[1].ref \in Ref
        BY <1>1, <1>2, <3>1 DEF Memory
      <4> QED
        BY <3>1, <4>1 DEF PruneHolds
    <3>3. s.txn[1].old = v
      BY <1>8, <3>1, <3>2, Constants
    <3> QED
      BY <1>2, <2>6, <2>8, <3>1, <3>3 DEF PruneHolds, SameWork
  <2>12. PackHolds(p, t, packlock)
    BY <2>5, <2>6, <2>7 DEF PackHolds, SameWork, Changes
  <2>13. Sees(p, t, reflock, loose, packed, staging, doubt)
    <3>1. ASSUME NEW i \in Standing(p, t, reflock)
          PROVE  Current(t, t.txn[i].ref, loose, packed, doubt)
      <4>1. i \in DOMAIN s.txn \ s.did /\ reflock[s.txn[i].ref] = p
            /\ t.got[s.txn[i].ref] # Unread /\ t.txn = s.txn
        BY <2>6 DEF Standing, SameWork
      <4>2. CASE i = s.pos
        BY <1>2, <2>8, <4>1, <4>2 DEF Current
      <4>3. CASE i # s.pos
        <5>1. t.got[s.txn[i].ref] = s.got[s.txn[i].ref]
          BY <2>6, <2>9, <4>1, <4>3
        <5>2. i \in Standing(p, s, reflock)
          BY <4>1, <5>1 DEF Standing
        <5> QED
          BY <1>1, <4>1, <5>1, <5>2 DEF Sees, Current
      <4> QED
        BY <4>2, <4>3
    <3>2. t.op = "txn" /\ t.pc = "finish" => Deletes(t) = {}
      BY <2>5, <2>6, <2>7 DEF SameWork
    <3> QED
      BY <1>2, <2>7, <3>1, <3>2 DEF Sees
  <2> QED
    BY <1>6, <2>6, <2>10, <2>11, <2>12, <2>13 DEF Holds
<1> QED
  BY <1>7, <1>8

\* While p packs, nobody else has anything in a cache to pack, and no deletion
\* has gone half way.
LEMMA PackerAlone ==
    ASSUME DeepInv, NEW p \in Proc, packlock = p
    PROVE  /\ \A q \in Proc \ {p} : proc[q].op = "pack" => \A r \in Ref : proc[q].cache[r] = Null
           /\ proc[p].op = "pack" => Going(proc, staging.by) = {}
<1>1. \A q \in Proc : PackHolds(q, proc[q], packlock)
  BY DEF DeepInv, Holds
<1>2. ASSUME NEW r \in Going(proc, staging.by) PROVE proc[p].op # "pack"
  BY <1>1, <1>2 DEF Going, NeedsUnlink, PackHolds
<1> QED
  BY <1>1, <1>2 DEF PackHolds

\* pack-refs reads a reference into its cache.
LEMMA PackRead ==
    ASSUME DeepInv, RSInv', NEW p \in Proc, proc[p].op = "pack", Looks(proc[p]),
           NEW v, NEW b, Become(p, Deliver(proc[p], v, b)),
           UNCHANGED files, fresh' = fresh, doubt' = doubt,
           v \in {Null, loose[proc[p].target], packed[proc[p].target]}
    PROVE  DeepInv'
<1> DEFINE s == proc[p]
           t == Deliver(s, v, b)
           x == s.target
<1>1. /\ s \in Memory /\ Holds(p, s, reflock, packlock) /\ x \in Ref
      /\ Tied(p, s, reflock, packlock, staging.by)
  BY DEF DeepInv, RSInv, Sound
<1>2. packlock = p /\ staging.by # p
  BY <1>1 DEF Holds, PackHolds, Tied, Looks
<1>4. /\ t.op = "pack" /\ t.pc = "fill" /\ t.cache[x] = v
      /\ \A r \in Ref : r # x => t.cache[r] = s.cache[r]
  BY <1>1, DeliverReads
<1>5. /\ Leaves(p) /\ proc'[p] = t /\ reflock' = reflock /\ packlock' = packlock
      /\ staging' = staging /\ loose' = loose /\ packed' = packed
  BY OwnStep
<1> HIDE DEF t
<1>6. \A q \in Proc \ {p} : proc'[q] = proc[q]
  BY <1>5 DEF Leaves
<1>7. Holds(p, t, reflock', packlock')
  BY <1>2, <1>4, <1>5 DEF Holds, TxnHolds, PruneHolds, PackHolds, Changes
<1>8. Sees(p, t, reflock', loose', packed', staging', doubt')
  BY <1>2, <1>4, <1>5 DEF Sees, Changes
<1>9. Unwritten'
  <2>1. Follows(s, t)
    BY <1>4 DEF Follows
  <2>2. \A q \in Proc : Follows(proc[q], proc[q])
    BY DEF Follows
  <2>3. \A q \in Proc : Follows(proc[q], proc'[q])
    BY <1>5, <1>6, <2>1, <2>2
  <2> QED
    BY <1>5, <2>3, UnwrittenKept
<1>10. /\ Going(proc, staging.by) = {}
       /\ \A q \in Proc \ {p} : proc[q].op = "pack" => \A r \in Ref : proc[q].cache[r] = Null
  BY <1>2, PackerAlone
<1>11. Pending(t) = {}
  BY <1>4 DEF Pending
<1>12. \A q \in Proc : PackKnows(proc'[q], loose', packed', doubt')
  <2>1. PackKnows(s, loose, packed, doubt)
    BY DEF DeepInv, Known
  <2>2. PackKnows(t, loose, packed, doubt)
    BY <1>4, <2>1 DEF PackKnows
  <2> QED
    BY <1>5, <1>6, <2>2 DEF DeepInv, Known
<1>13. \A q \in Proc : PruneKnows(proc'[q], loose', packed', doubt', Going(proc', staging'.by))
  <2>1. \A q \in Proc \ {p} : PruneKnows(proc[q], loose, packed, doubt, {})
    BY <1>10 DEF DeepInv, Known
  <2>2. \A q \in Proc \ {p} : PruneKnows(proc[q], loose, packed, doubt, Going(proc', staging'.by))
    BY <2>1 DEF PruneKnows
  <2>3. PruneKnows(t, loose, packed, doubt, Going(proc', staging'.by))
    BY <1>11 DEF PruneKnows
  <2> QED
    BY <1>5, <1>6, <2>2, <2>3
<1>14. ASSUME NEW q \in Proc, NEW y \in Proc
       PROVE  Agree(proc'[q], proc'[y], loose', doubt')
  <2>1. CASE y = p
    BY <1>5, <1>11, <2>1 DEF Agree
  <2>2. CASE y # p /\ q # p
    BY <1>5, <1>6, <2>2 DEF DeepInv, Known
  <2>3. CASE y # p /\ q = p
    <3>1. Agree(s, proc[y], loose, doubt) /\ PruneKnows(proc[y], loose, packed, doubt, {})
      BY <1>10 DEF DeepInv, Known
    <3>2. \A r \in Pending(proc[y]) : r \in Ref
      BY PendingNamed
    <3>3. Agree(t, proc[y], loose, doubt)
      BY <1>4, <3>1, <3>2 DEF Agree, PruneKnows
    <3> QED
      BY <1>5, <1>6, <2>3, <3>3
  <2> QED
    BY <2>1, <2>2, <2>3
<1>15. Known'
  BY <1>12, <1>13, <1>14 DEF Known
<1>16. Touches(p)
  BY <1>5 DEF Touches
<1>17. \A q \in Proc : /\ Holds(q, proc'[q], reflock', packlock')
                       /\ Sees(q, proc'[q], reflock', loose', packed', staging', doubt')
  BY <1>5, <1>7, <1>8, <1>16, OthersHold, OthersSee
<1> QED
  BY <1>9, <1>15, <1>17 DEF DeepInv

\* The next look at a reference.
LEMMA LookOn ==
    ASSUME DeepInv, RSInv', NEW p \in Proc, Looks(proc[p]), NEW t, SameWork(proc[p], t),
           t.got = proc[p].got, t.pos = proc[p].pos, t.target = proc[p].target,
           Looks(t), Become(p, t), UNCHANGED files, fresh' = fresh, doubt' = doubt,
           Changes(t) => \/ t.pc = "open" /\ loose[t.target] # Null
                         \/ t.pc = "readpacked" /\ loose[t.target] = Null
    PROVE  DeepInv'
<1> DEFINE s == proc[p]
<1>1. /\ Holds(p, s, reflock, packlock) /\ Sees(p, s, reflock, loose, packed, staging, doubt)
      /\ Tied(p, s, reflock, packlock, staging.by) /\ Sound(s)
  BY DEF DeepInv, RSInv
<1>2. staging.by # p
  BY <1>1 DEF Tied, Looks
<1>3. /\ Leaves(p) /\ reflock' = reflock /\ packlock' = packlock /\ staging' = staging
      /\ loose' = loose /\ packed' = packed
  BY OwnStep
<1>4. \A r \in Going(proc, staging.by) : r \in Going(proc', staging'.by)
  BY <1>3, GoingKept DEF Looks
<1>5. Follows(s, t)
  BY DEF Follows, SameWork
<1>6. Narrows(s, t)
  BY DEF Narrows, Pending, SameWork, Looks
<1>7. Holds(p, t, reflock, packlock)
  <2>1. Checked(t) = Checked(s) /\ Deletes(t) = Deletes(s)
    BY DEF Checked, SameWork, Deletes
  <2>2. TxnHolds(p, t, reflock)
    BY <1>1, <2>1 DEF Holds, TxnHolds, SameWork, Changes, Looks
  <2>3. PruneHolds(t)
    BY <1>1 DEF Holds, PruneHolds, SameWork
  <2>4. PackHolds(p, t, packlock)
    BY <1>1 DEF Holds, PackHolds, SameWork, Looks
  <2> QED
    BY <2>2, <2>3, <2>4 DEF Holds
<1>8. Sees(p, t, reflock, loose, packed, staging, doubt)
  <2>1. Standing(p, t, reflock) = Standing(p, s, reflock)
    BY DEF Standing, SameWork
  <2>2. Changes(t) => \A i \in Standing(p, t, reflock) :
                         Current(t, t.txn[i].ref, loose, packed, doubt)
    BY <1>1, <2>1 DEF Sees, SameWork, Changes, Current
  <2> QED
    BY <1>2, <2>2 DEF Sees, Looks
<1> QED
  BY <1>3, <1>4, <1>5, <1>6, <1>7, <1>8, QuietStep

\* A step of a reader, who holds nothing.
LEMMA ReaderStep ==
    ASSUME DeepInv, RSInv', NEW p \in Proc, NEW t, proc[p].op \in {"read", "iter"},
           t.op \in {"none", "read", "iter"},
           Become(p, t), UNCHANGED files, fresh' = fresh, doubt' = doubt,
           \A r \in Ref : t.cache[r] \in {proc[p].cache[r], Null, loose[r], packed[r]}
    PROVE  DeepInv'
<1>1. Tied(p, proc[p], reflock, packlock, staging.by) /\ Sound(proc[p])
  BY DEF DeepInv, RSInv
<1>2. staging.by # p /\ proc[p].pc # "finish"
  BY <1>1 DEF Tied, Sound, Changes
<1>3. /\ Leaves(p) /\ reflock' = reflock /\ packlock' = packlock /\ staging' = staging
      /\ loose' = loose /\ packed' = packed
  BY OwnStep
<1>4. \A r \in Going(proc, staging.by) : r \in Going(proc', staging'.by)
  BY <1>2, <1>3, GoingKept
<1>5. Follows(proc[p], t)
  BY DEF Follows
<1>6. /\ Holds(p, t, reflock', packlock') /\ Narrows(proc[p], t)
      /\ Sees(p, t, reflock', loose', packed', staging', doubt')
  <2>1. staging'.by # p
    BY <1>2, <1>3
  <2> QED
    BY <2>1 DEF Holds, TxnHolds, PruneHolds, PackHolds, Changes, Sees, Narrows, Pending
<1> QED
  BY <1>3, <1>4, <1>5, <1>6, QuietStep

\* Whoever asked for it, the value read is handed over.
LEMMA Delivered ==
    ASSUME DeepInv, RSInv', NEW p \in Proc, Looks(proc[p]),
           NEW v \in Oid, NEW b \in BOOLEAN, Become(p, Deliver(proc[p], v, b)),
           UNCHANGED files, fresh' = fresh, doubt' = doubt,
           v \in {Null, loose[proc[p].target], packed[proc[p].target]},
           Changes(proc[p]) => /\ b => loose[proc[p].target] = Null
                               /\ ~ b => loose[proc[p].target] = v
                               /\ loose[proc[p].target] = Null => packed[proc[p].target] = v
    PROVE  DeepInv'
<1> DEFINE s == proc[p]
           t == Deliver(s, v, b)
           x == s.target
<1>1. s \in Memory /\ Sound(s)
  BY DEF DeepInv, RSInv
<1>2. x \in Ref /\ s.op \in {"txn", "prune", "pack", "read", "iter"}
  BY <1>1 DEF Sound, Memory
<1>3. CASE Changes(s)
  BY <1>3, LockedRead
<1>4. CASE s.op = "pack"
  BY <1>4, PackRead
<1>5. CASE s.op \in {"read", "iter"}
  <2>2. t.op = s.op /\ \A r \in Ref : t.cache[r] = IF r = x THEN v ELSE s.cache[r]
    BY <1>1, <1>5, DeliverReads
  <2> HIDE DEF t
  <2>3. \A r \in Ref : t.cache[r] \in {s.cache[r], Null, loose[r], packed[r]}
    BY <1>2, <2>2
  <2>4. Become(p, t)
    BY DEF t
  <2> QED
    BY <1>5, <2>2, <2>3, <2>4, ReaderStep
<1> QED
  BY <1>2, <1>3, <1>4, <1>5 DEF Changes

\* Reading, by whomever.
LEMMA ReadDeep ==
    ASSUME DeepInv, RSInv', NEW p \in Proc, doubt' = doubt,
           read_lstat(p) \/ read_open(p) \/ packed_read_raw_ref(p)
    PROVE  DeepInv'
<1> DEFINE s == proc[p]
           x == s.target
<1>1. /\ s \in Memory /\ Sound(s) /\ Looks(s)
      /\ UNCHANGED files /\ fresh' = fresh
      /\ Sees(p, s, reflock, loose, packed, staging, doubt)
  BY DEF DeepInv, RSInv, read_lstat, read_open, packed_read_raw_ref, At, Looks, bounds
<1>2. x \in Ref /\ loose[x] \in Oid /\ packed[x] \in Oid
  BY <1>1 DEF Sound, DeepInv, RSInv, FilesOK
<1>3. CASE read_lstat(p)
  <2>1. s.pc = "stat" /\ (Changes(s) => s.tries = 0)
    BY <1>1, <1>3 DEF read_lstat, At, Sees
  <2>2. CASE s.tries = ReadTries
    <3>1. Become(p, Deliver(s, Null, FALSE))
      BY <1>3, <2>2 DEF read_lstat
    <3>2. ~ Changes(s)
      BY <2>1, <2>2 DEF ReadTries
    <3> QED
      BY <1>1, <3>1, <3>2, Constants, Delivered
  <2>3. CASE s.tries # ReadTries
    <3> DEFINE c == IF loose[x] = Null THEN "readpacked" ELSE "open"
               t == [s EXCEPT !.tries = @ + 1, !.pc = c]
    <3>1. Become(p, t)
      BY <1>3, <2>3 DEF read_lstat
    <3>2. /\ SameWork(s, t) /\ t.got = s.got /\ t.pos = s.pos /\ t.target = x /\ t.pc = c
      BY <1>1 DEF Memory, SameWork
    <3> HIDE DEF t
    <3>3. Looks(t)
      BY <3>2 DEF Looks
    <3>4. \/ t.pc = "open" /\ loose[t.target] # Null
          \/ t.pc = "readpacked" /\ loose[t.target] = Null
      BY <3>2
    <3> QED
      BY <1>1, <3>1, <3>2, <3>3, <3>4, LookOn
  <2> QED
    BY <2>2, <2>3
<1>4. CASE read_open(p)
  <2>1. s.pc = "open" /\ (Changes(s) => loose[x] # Null)
    BY <1>1, <1>4 DEF read_open, At, Sees
  <2>2. CASE loose[x] = Null
    <3> DEFINE t == [s EXCEPT !.pc = "stat"]
    <3>1. Become(p, t) /\ ~ Changes(s)
      BY <1>4, <2>1, <2>2 DEF read_open
    <3>2. /\ SameWork(s, t) /\ t.got = s.got /\ t.pos = s.pos /\ t.target = x
          /\ t.pc = "stat" /\ t.op = s.op
      BY <1>1 DEF Memory, SameWork
    <3> HIDE DEF t
    <3>3. Looks(t) /\ ~ Changes(t)
      BY <3>1, <3>2 DEF Looks, Changes
    <3> QED
      BY <1>1, <3>1, <3>2, <3>3, LookOn
  <2>3. CASE loose[x] # Null
    <3>1. Become(p, Deliver(s, loose[x], FALSE))
      BY <1>4, <2>3 DEF read_open
    <3> QED
      BY <1>1, <1>2, <2>3, <3>1, Delivered
  <2> QED
    BY <2>2, <2>3
<1>5. CASE packed_read_raw_ref(p)
  <2>1. s.pc = "readpacked" /\ (Changes(s) => loose[x] = Null)
    BY <1>1, <1>5 DEF packed_read_raw_ref, At, Sees
  <2>2. Become(p, Deliver(s, packed[x], packed[x] # Null))
    BY <1>5 DEF packed_read_raw_ref
  <2> QED
    BY <1>1, <1>2, <2>1, <2>2, Delivered
<1> QED
  BY <1>3, <1>4, <1>5

\* pack-refs goes on with packed-refs locked and the cache as it is.
LEMMA PackerStep ==
    ASSUME DeepInv, RSInv', NEW p \in Proc, proc[p].op = "pack",
           NEW t, Become(p, t), t.op = "pack", t.cache = proc[p].cache,
           t.pc \notin {"packlock", "packunlock"}, packlock' = p,
           packlock \in {Free, p}, staging.by # p,
           loose' = loose, packed' = packed, reflock' = reflock,
           \/ staging' = staging
           \/ staging.by = Free /\ staging' = [by |-> p, refs |-> Merged(t, packed)],
           t.did = {}, fresh' = fresh, doubt' = doubt
    PROVE  DeepInv'
<1>1. Sound(proc[p]) /\ RSInv
  BY DEF DeepInv, RSInv
<1>2. proc[p].pc # "finish"
  BY <1>1 DEF Sound, Changes
<1>3. Leaves(p)
  BY <1>1, Constants DEF Leaves, Become, RSInv
<1>4. \A r \in Going(proc, staging.by) : r \in Going(proc', staging'.by)
  BY <1>2, <1>3, GoingKept
<1>5. Follows(proc[p], t) /\ Narrows(proc[p], t)
  BY DEF Follows, Narrows, Pending
<1>6. Holds(p, t, reflock', packlock')
  BY DEF Holds, TxnHolds, PruneHolds, PackHolds, Changes
<1>7. Sees(p, t, reflock', loose', packed', staging', doubt')
  BY DEF Sees, Changes
<1> QED
  BY <1>3, <1>4, <1>5, <1>6, <1>7, QuietStep

\* The next reference of the cache, for pack-refs or for an iteration.
LEMMA FillDeep ==
    ASSUME DeepInv, RSInv', NEW p \in Proc, doubt' = doubt, loose_fill_ref_dir(p)
    PROVE  DeepInv'
<1> DEFINE s == proc[p]
<1>1. /\ s \in Memory /\ Sound(s) /\ s.pc = "fill" /\ UNCHANGED files /\ fresh' = fresh
      /\ Holds(p, s, reflock, packlock) /\ Tied(p, s, reflock, packlock, staging.by)
  BY DEF DeepInv, RSInv, loose_fill_ref_dir, At, bounds
<1>2. s.op \in {"pack", "iter"} /\ s.did = {} /\ staging.by # p
  BY <1>1 DEF Sound, Tied
<1>3. PICK r \in s.todo :
         Become(p, [s EXCEPT !.todo = @ \ {r}, !.target = r, !.tries = 0,
                             !.pc = IF loose[r] = Null THEN "fill" ELSE "stat"])
  BY DEF loose_fill_ref_dir
<1> DEFINE c == IF loose[r] = Null THEN "fill" ELSE "stat"
           t == [s EXCEPT !.todo = @ \ {r}, !.target = r, !.tries = 0, !.pc = c]
<1>4. Become(p, t)
  BY <1>3
<1>5. c \in {"fill", "stat"}
  OBVIOUS
<1> HIDE DEF c
<1>6. t.op = s.op /\ t.cache = s.cache /\ t.pc = c /\ t.did = {}
  BY <1>1, <1>2 DEF Memory
<1> HIDE DEF t
<1>7. /\ loose' = loose /\ packed' = packed /\ reflock' = reflock /\ packlock' = packlock
      /\ staging' = staging
  BY <1>1 DEF files
<1>8. CASE s.op = "pack"
  <2>1. packlock = p
    BY <1>1, <1>8 DEF Holds, PackHolds
  <2> QED
    BY <1>1, <1>2, <1>4, <1>5, <1>6, <1>7, <1>8, <2>1, PackerStep
<1>9. CASE s.op = "iter"
  BY <1>1, <1>4, <1>6, <1>9, ReaderStep
<1> QED
  BY <1>2, <1>8, <1>9

\* An iteration turns to packed-refs; a reader is done.
LEMMA ReaderDeep ==
    ASSUME DeepInv, RSInv', NEW p \in Proc, doubt' = doubt,
           packed_ref_iterator_begin(p) \/ ReadReturns(p)
    PROVE  DeepInv'
<1> DEFINE s == proc[p]
<1>1. s \in Memory /\ Sound(s) /\ UNCHANGED files /\ fresh' = fresh
  BY DEF DeepInv, RSInv, packed_ref_iterator_begin, ReadReturns, bounds
<1>2. CASE packed_ref_iterator_begin(p)
  <2> DEFINE c == [r \in Ref |-> IF s.cache[r] # Null \/ r \in s.broken THEN s.cache[r]
                                ELSE packed[r]]
             t == [s EXCEPT !.pc = "return", !.cache = c]
  <2>1. Become(p, t) /\ s.op = "iter"
    BY <1>2 DEF packed_ref_iterator_begin
  <2>2. \A r \in Ref : c[r] \in {s.cache[r], packed[r]}
    OBVIOUS
  <2> HIDE DEF c
  <2>3. t.op = s.op /\ t.cache = c
    BY <1>1 DEF Memory
  <2> HIDE DEF t
  <2> QED
    BY <1>1, <2>1, <2>2, <2>3, ReaderStep
<1>3. CASE ReadReturns(p)
  <2>1. Become(p, Idle) /\ s.op \in {"read", "iter"}
    BY <1>1, <1>3 DEF ReadReturns, At, Sound
  <2>2. Idle.op = "none" /\ \A r \in Ref : Idle.cache[r] = Null
    BY DEF Idle
  <2> QED
    BY <1>1, <2>1, <2>2, ReaderStep
<1> QED
  BY <1>2, <1>3

-----------------------------------------------------------------------------

\* What is seen is seen with more references in doubt.
LEMMA SeesMore ==
    ASSUME NEW p, NEW s, NEW locks, NEW l, NEW k, NEW st, NEW d, NEW e,
           Sees(p, s, locks, l, k, st, d), d \subseteq e
    PROVE  Sees(p, s, locks, l, k, st, e)
BY DEF Sees, Current

\* A transaction or a pruning fails: it goes on to clean up.
LEMMA FailStep ==
    ASSUME DeepInv, RSInv', NEW p \in Proc, Changes(proc[p]), Become(p, Fail(proc[p])),
           UNCHANGED files, fresh' = fresh, doubt \subseteq doubt',
           \A r \in Going(proc, staging.by) :
              r \in Going(proc', staging'.by) \/ r \in doubt' \/ loose[r] = Null
    PROVE  DeepInv'
<1> DEFINE s == proc[p]
           t == Fail(s)
<1>1. s \in Memory
  BY DEF DeepInv, RSInv
<1>2. SameWork(s, t) /\ t.got = s.got /\ t.pc = "cleanup"
  BY <1>1, FailIs
<1> HIDE DEF t
<1>3. /\ Leaves(p) /\ reflock' = reflock /\ packlock' = packlock /\ staging' = staging
      /\ loose' = loose /\ packed' = packed /\ Become(p, t)
  BY OwnStep DEF t
<1>4. /\ Holds(p, t, reflock, packlock)
      /\ Sees(p, t, reflock, loose, packed, staging, doubt)
  BY <1>2, Failing
<1>5. Sees(p, t, reflock, loose, packed, staging, doubt')
  BY <1>4, SeesMore
<1>6. Follows(s, t) /\ Narrows(s, t)
  BY <1>2, SameWorkFacts
<1> QED
  BY <1>3, <1>4, <1>5, <1>6, QuietStep

\* An operation ends, however it does.
LEMMA ToIdle ==
    ASSUME DeepInv, RSInv', NEW p \in Proc, Become(p, Idle), Leaves(p),
           loose' = loose, packed' = packed, fresh' = fresh, doubt \subseteq doubt',
           \A r \in Going(proc, staging.by) :
              r \in Going(proc', staging'.by) \/ r \in doubt' \/ loose[r] = Null
    PROVE  DeepInv'
<1> DEFINE t == Idle
<1>1. t.op = "none" /\ t.pc = "idle" /\ \A r \in Ref : t.cache[r] = Null
  BY DEF Idle
<1> HIDE DEF t
<1>2. Become(p, t)
  BY DEF t
<1>3. proc'[p] = t
  BY <1>2 DEF Become, DeepInv, RSInv
<1>4. staging'.by # p
  <2>1. Tied(p, proc'[p], reflock', packlock', staging'.by)
    BY DEF RSInv
  <2> QED
    BY <1>1, <1>3, <2>1 DEF Tied
<1>5. Follows(proc[p], t) /\ Narrows(proc[p], t)
  BY <1>1 DEF Follows, Narrows, Pending
<1>6. /\ Holds(p, t, reflock', packlock')
      /\ Sees(p, t, reflock', loose', packed', staging', doubt')
  BY <1>1, <1>4 DEF Holds, TxnHolds, PruneHolds, PackHolds, Changes, Sees
<1> QED
  BY <1>2, <1>5, <1>6, QuietStep

\* A transaction with packed-refs locked goes on to stage or to finish.
LEMMA MoveOn ==
    ASSUME DeepInv, RSInv', NEW p \in Proc, proc[p].op = "txn",
           proc[p].pc \in {"packlock", "stage"}, NEW t, Become(p, t),
           SameWork(proc[p], t), t.got = proc[p].got, t.pc \in {"stage", "finish"},
           packlock' = p, packlock \in {Free, p}, staging.by # p,
           loose' = loose, packed' = packed, reflock' = reflock,
           \/ /\ staging' = staging
              /\ t.pc = "finish" => \A i \in Deletes(proc[p]) : packed[proc[p].txn[i].ref] = Null
           \/ /\ staging.by = Free /\ staging' = [by |-> p, refs |-> Merged(t, packed)],
           t.did = {}, fresh' = fresh, doubt' = doubt
    PROVE  DeepInv'
<1> DEFINE s == proc[p]
<1>1. /\ Sound(s) /\ RSInv /\ Holds(p, s, reflock, packlock)
      /\ Sees(p, s, reflock, loose, packed, staging, doubt)
  BY DEF DeepInv, RSInv
<1>3. Leaves(p)
  BY <1>1, Constants DEF Leaves, Become, RSInv
<1>4. \A r \in Going(proc, staging.by) : r \in Going(proc', staging'.by)
  BY <1>3, GoingKept
<1>5. Changes(s) /\ Changes(t) /\ Deletes(t) = Deletes(s) /\ Follows(s, t) /\ Narrows(s, t)
  BY SameWorkFacts DEF Changes
<1>6. Holds(p, t, reflock', packlock')
  <2>1. TxnHolds(p, t, reflock)
    BY <1>1, <1>5 DEF Holds, TxnHolds, SameWork, Looks, Checked
  <2>2. PruneHolds(t) /\ PackHolds(p, t, packlock')
    BY DEF PruneHolds, PackHolds, SameWork
  <2> QED
    BY <2>1, <2>2 DEF Holds
<1>7. Sees(p, t, reflock', loose', packed', staging', doubt')
  <2>1. Standing(p, t, reflock) = Standing(p, s, reflock)
    BY DEF Standing, SameWork
  <2>2. \A i \in Standing(p, t, reflock) : Current(t, t.txn[i].ref, loose, packed, doubt)
    BY <1>1, <1>5, <2>1 DEF Sees, SameWork, Current
  <2> QED
    BY <1>5, <2>2 DEF Sees, Looks, SameWork
<1> QED
  BY <1>3, <1>4, <1>5, <1>6, <1>7, QuietStep

\* A reference is locked before it is read, or its lock cannot be had.
LEMMA LockDeep ==
    ASSUME DeepInv, RSInv', NEW p \in Proc, doubt' = doubt, lock_raw_ref(p)
    PROVE  DeepInv'
<1> DEFINE s == proc[p]
           x == s.txn[s.pos].ref
<1>1. /\ s \in Memory /\ Sound(s) /\ Holds(p, s, reflock, packlock) /\ RSInv
      /\ Sees(p, s, reflock, loose, packed, staging, doubt)
      /\ Tied(p, s, reflock, packlock, staging.by)
  BY DEF DeepInv, RSInv
<1>2. /\ s.pc = "lock" /\ fresh' = fresh
      /\ loose' = loose /\ packed' = packed /\ packlock' = packlock /\ staging' = staging
  BY DEF lock_raw_ref, At, bounds
<1>3. /\ Changes(s) /\ s.pos \in DOMAIN s.txn /\ s.did = {} /\ staging.by # p
  BY <1>1, <1>2 DEF Sound, Tied
<1>4. /\ x \in Ref /\ s.got[x] = Unread /\ s.pos \in Nat
      /\ \A i \in DOMAIN s.txn : i \in Nat /\ s.txn[i].ref \in Ref
  <2>1. s.pos \in Nat /\ s.txn \in Seq(Update)
    BY <1>1 DEF Memory
  <2>2. \A i \in DOMAIN s.txn : i \in Nat
    BY <2>1
  <2>3. s.got[x] = Unread
    BY <1>1, <1>2, <1>3, <2>1 DEF Holds, TxnHolds
  <2> QED
    BY <1>1, <1>3, <2>1, <2>2, <2>3, TxnFacts
<1>5. CASE reflock[x] # Free
  <2>1. Become(p, Fail(s)) /\ UNCHANGED files
    BY <1>2, <1>5 DEF lock_raw_ref, files
  <2>2. Leaves(p)
    BY <2>1, OwnStep
  <2>3. \A r \in Going(proc, staging.by) : r \in Going(proc', staging'.by)
    BY <1>2, <2>2, GoingKept
  <2> QED
    BY <1>2, <1>3, <2>1, <2>3, FailStep
<1>6. CASE reflock[x] = Free
  <2> DEFINE t == [s EXCEPT !.pc = "stat", !.target = x, !.tries = 0]
  <2>1. Become(p, t) /\ reflock' = [reflock EXCEPT ![x] = p]
    BY <1>6 DEF lock_raw_ref
  <2>2. SameWork(s, t) /\ t.got = s.got /\ t.pos = s.pos /\ t.pc = "stat" /\ t.target = x
        /\ t.tries = 0
    BY <1>1 DEF Memory, SameWork
  <2> HIDE DEF t
  <2>3. reflock'[x] = p /\ \A r \in Ref : r # x => reflock'[r] = reflock[r]
    BY <1>1, <1>4, <2>1 DEF RSInv, FilesOK
  <2>4. Leaves(p)
    BY <1>1, <1>2, <1>6, <2>1, <2>3, Constants DEF Leaves, Become, RSInv
  <2>5. \A r \in Going(proc, staging.by) : r \in Going(proc', staging'.by)
    BY <1>2, <2>4, GoingKept
  <2>6. Changes(t) /\ Deletes(t) = Deletes(s) /\ Follows(s, t) /\ Narrows(s, t)
    BY <1>3, <2>2, SameWorkFacts
  <2>7. Holds(p, t, reflock', packlock')
    <3>1. Checked(t) = { i \in DOMAIN s.txn : i < s.pos } /\ Checked(s) = Checked(t)
      BY <1>2, <2>2 DEF Checked, SameWork, Looks
    <3>2. TxnHolds(p, t, reflock')
      BY <1>1, <1>2, <1>3, <1>4, <2>2, <2>3, <2>6, <3>1
         DEF Holds, TxnHolds, SameWork, Looks
    <3>3. PruneHolds(t) /\ PackHolds(p, t, packlock')
      BY <1>1, <1>2, <2>2, <2>6 DEF Holds, PruneHolds, PackHolds, SameWork, Changes
    <3> QED
      BY <3>2, <3>3 DEF Holds
  <2>8. Sees(p, t, reflock', loose', packed', staging', doubt')
    <3>1. Standing(p, t, reflock') = Standing(p, s, reflock)
      BY <1>4, <2>2, <2>3 DEF Standing, SameWork
    <3>2. \A i \in Standing(p, t, reflock') : Current(t, t.txn[i].ref, loose, packed, doubt)
      BY <1>1, <1>3, <2>2, <3>1 DEF Sees, SameWork, Current
    <3> QED
      BY <1>2, <1>3, <2>2, <3>2 DEF Sees, Looks
  <2> QED
    BY <1>2, <2>1, <2>4, <2>5, <2>6, <2>7, <2>8, QuietStep
<1> QED
  BY <1>5, <1>6

\* packed-refs is locked before it is looked at, or cannot be.
LEMMA PackedLockDeep ==
    ASSUME DeepInv, RSInv', NEW p \in Proc, doubt' = doubt, packed_refs_lock(p)
    PROVE  DeepInv'
<1> DEFINE s == proc[p]
<1>1. /\ s \in Memory /\ Sound(s) /\ RSInv /\ Tied(p, s, reflock, packlock, staging.by)
  BY DEF DeepInv, RSInv
<1>2. /\ s.pc = "packlock" /\ fresh' = fresh
      /\ loose' = loose /\ packed' = packed /\ reflock' = reflock /\ staging' = staging
  BY DEF packed_refs_lock, At, bounds
<1>3. s.op \in {"txn", "pack"} /\ s.did = {} /\ staging.by # p
  BY <1>1, <1>2 DEF Sound, Tied
<1>4. CASE packlock # Free
  <2>1. Become(p, IF s.op = "pack" THEN Idle ELSE Fail(s)) /\ UNCHANGED files
    BY <1>2, <1>4 DEF packed_refs_lock, files
  <2>2. Leaves(p)
    BY <2>1, OwnStep
  <2>3. \A r \in Going(proc, staging.by) : r \in Going(proc', staging'.by)
    BY <1>2, <2>2, GoingKept
  <2>4. CASE s.op = "pack"
    BY <1>2, <2>1, <2>2, <2>3, <2>4, ToIdle
  <2>5. CASE s.op = "txn"
    <3>1. Become(p, Fail(s)) /\ Changes(s)
      BY <2>1, <2>5 DEF Changes
    <3> QED
      BY <1>2, <2>1, <2>3, <3>1, FailStep
  <2> QED
    BY <1>3, <2>4, <2>5
<1>5. CASE packlock = Free
  <2> DEFINE c == CASE s.op = "pack" /\ s.todo # {} -> "fill"
                    [] s.op = "pack" /\ s.todo = {} -> "stage"
                    [] s.op = "txn" /\ is_packed_transaction_needed(s) -> "stage"
                    [] OTHER -> "finish"
             t == [s EXCEPT !.pc = c]
  <2>1. Become(p, t) /\ packlock' = p
    BY <1>5 DEF packed_refs_lock
  <2>2. /\ s.op = "pack" => c \in {"fill", "stage"}
        /\ s.op = "txn" => \/ c = "stage"
                           \/ c = "finish" /\ ~ is_packed_transaction_needed(s)
    OBVIOUS
  <2> HIDE DEF c
  <2>3. SameWork(s, t) /\ t.got = s.got /\ t.pc = c
    BY <1>1 DEF Memory, SameWork
  <2> HIDE DEF t
  <2>4. CASE s.op = "pack"
    BY <1>2, <1>3, <1>5, <2>1, <2>2, <2>3, <2>4, PackerStep DEF SameWork
  <2>5. CASE s.op = "txn"
    <3>1. t.pc = "finish" => \A i \in Deletes(s) : packed[s.txn[i].ref] = Null
      BY <2>2, <2>3, <2>5 DEF is_packed_transaction_needed
    <3>2. t.pc \in {"stage", "finish"} /\ t.did = {}
      BY <1>3, <2>2, <2>3, <2>5 DEF SameWork
    <3> QED
      BY <1>2, <1>3, <1>5, <2>1, <2>3, <2>5, <3>1, <3>2, MoveOn
  <2> QED
    BY <1>3, <2>4, <2>5
<1> QED
  BY <1>4, <1>5

\* pack-refs has its cache, and has had packed-refs locked all the while.
LEMMA ShouldPackDeep ==
    ASSUME DeepInv, RSInv', NEW p \in Proc, doubt' = doubt, should_pack_refs(p)
    PROVE  DeepInv'
<1> DEFINE s == proc[p]
           t == [s EXCEPT !.pc = "stage"]
<1>1. /\ s \in Memory /\ Sound(s) /\ Holds(p, s, reflock, packlock)
      /\ Tied(p, s, reflock, packlock, staging.by)
  BY DEF DeepInv, RSInv
<1>2. /\ s.pc = "fill" /\ s.op = "pack" /\ UNCHANGED files /\ fresh' = fresh
  BY DEF should_pack_refs, At, bounds
<1>3. packlock = p /\ staging.by # p /\ s.did = {}
  BY <1>1, <1>2 DEF Holds, PackHolds, Tied, Sound
<1>4. Become(p, t)
  BY <1>3 DEF should_pack_refs
<1>5. t.op = "pack" /\ t.cache = s.cache /\ t.pc = "stage" /\ t.did = {}
  BY <1>1, <1>2, <1>3 DEF Memory
<1> HIDE DEF t
<1> QED
  BY <1>2, <1>3, <1>4, <1>5, PackerStep DEF files

\* The new packed-refs is staged under the lock.
LEMMA StageDeep ==
    ASSUME DeepInv, RSInv', NEW p \in Proc, doubt' = doubt, write_with_updates(p)
    PROVE  DeepInv'
<1> DEFINE s == proc[p]
<1>1. /\ s \in Memory /\ Sound(s) /\ RSInv /\ Tied(p, s, reflock, packlock, staging.by)
  BY DEF DeepInv, RSInv
<1>2. /\ s.pc = "stage" /\ fresh' = fresh
      /\ loose' = loose /\ packed' = packed /\ reflock' = reflock
  BY DEF write_with_updates, At, bounds
<1>3. s.op \in {"txn", "pack"} /\ s.did = {} /\ staging.by # p /\ packlock = p
  BY <1>1, <1>2 DEF Sound, Tied
<1>4. CASE staging.by # Free
  <2>1. /\ staging' = staging
        /\ IF s.op = "pack" THEN Become(p, Idle) /\ packlock' = Free
           ELSE Become(p, Fail(s)) /\ UNCHANGED packlock
    BY <1>4 DEF write_with_updates
  <2>2. CASE s.op = "pack"
    <3>1. Leaves(p)
      BY <1>1, <1>2, <1>3, <2>1, <2>2, Constants DEF Leaves, Become, RSInv
    <3>2. \A r \in Going(proc, staging.by) : r \in Going(proc', staging'.by)
      BY <1>2, <3>1, GoingKept
    <3> QED
      BY <1>2, <2>1, <2>2, <3>1, <3>2, ToIdle
  <2>3. CASE s.op = "txn"
    <3>1. Become(p, Fail(s)) /\ Changes(s) /\ UNCHANGED files
      BY <1>2, <2>1, <2>3 DEF Changes, files
    <3>2. Leaves(p)
      BY <3>1, OwnStep
    <3>3. \A r \in Going(proc, staging.by) : r \in Going(proc', staging'.by)
      BY <1>2, <3>2, GoingKept
    <3> QED
      BY <1>2, <3>1, <3>3, FailStep
  <2> QED
    BY <1>3, <2>2, <2>3
<1>5. CASE staging.by = Free
  <2> DEFINE c == IF s.op = "pack" THEN "packcommit" ELSE "finish"
             t == [s EXCEPT !.pc = c]
  <2>1. Become(p, t) /\ packlock' = p /\ staging' = [by |-> p, refs |-> NewPacked(s)]
    BY <1>3, <1>5 DEF write_with_updates
  <2>2. SameWork(s, t) /\ t.got = s.got /\ t.pc = c /\ t.did = {}
    BY <1>1, <1>3 DEF Memory, SameWork
  <2> HIDE DEF t
  <2>3. Deletes(t) = Deletes(s) /\ t.op = s.op /\ t.cache = s.cache /\ t.txn = s.txn
    BY <2>2 DEF Deletes, SameWork
  <2>4. Merged(t, packed) = NewPacked(s)
    BY <2>3 DEF Merged, NewPacked
  <2>5. CASE s.op = "pack"
    BY <1>2, <1>3, <1>5, <2>1, <2>2, <2>3, <2>4, <2>5, PackerStep
  <2>6. CASE s.op = "txn"
    BY <1>2, <1>3, <1>5, <2>1, <2>2, <2>4, <2>6, MoveOn
  <2> QED
    BY <1>3, <2>5, <2>6
<1> QED
  BY <1>4, <1>5

-----------------------------------------------------------------------------

\* Deletions under way stay so, but for those of p itself.
LEMMA GoingOthers ==
    ASSUME NEW p, Leaves(p), NEW r \in Going(proc, staging.by)
    PROVE  \/ r \in Going(proc', staging'.by)
           \/ /\ p \in Proc /\ proc[p].op = "txn" /\ proc[p].pc = "finish" /\ staging.by # p
              /\ \E i \in NeedsUnlink(proc[p]) : proc[p].txn[i].ref = r
BY DEF Going, Leaves

\* In memory nothing has changed but that the entries D are done.
DoneMore(s, t, D) ==
    /\ t.op = s.op /\ t.txn = s.txn /\ t.cache = s.cache /\ t.todo = s.todo
    /\ t.got = s.got /\ t.pc = s.pc /\ t.did = s.did \cup D

\* What a rename of a lock file onto its reference does.
LEMMA CommitIs ==
    ASSUME DeepInv, NEW p \in Proc, commit_ref(p), doubt' = doubt \ Settled(p)
    PROVE  \E i \in DOMAIN proc[p].txn \ proc[p].did, x \in Ref, v \in NewOf(proc[p]) :
             /\ proc[p].txn[i].ref = x /\ proc[p].txn[i].new = v
             /\ proc[p].op = "txn" /\ proc[p].pc = "finish"
             /\ i \notin Deletes(proc[p]) /\ v \in Oid /\ v # Null
             /\ reflock[x] = p /\ proc[p].got[x] # Unread
             /\ loose'[x] = v /\ (\A r \in Ref : r # x => loose'[r] = loose[r])
             /\ reflock'[x] = Free /\ (\A r \in Ref : r # x => reflock'[r] = reflock[r])
             /\ packed' = packed /\ packlock' = packlock /\ staging' = staging
             /\ fresh' = fresh /\ doubt' = doubt \ {x}
             /\ DoneMore(proc[p], proc'[p], {i})
             /\ \A q \in Proc \ {p} : proc'[q] = proc[q]
<1> DEFINE s == proc[p]
           i == First(NeedsCommit(s))
           u == s.txn[i]
           t == After(s, {i}, {u.ref})
<1>1. /\ s \in Memory /\ Sound(s) /\ RSInv /\ Holds(p, s, reflock, packlock)
  BY DEF DeepInv, RSInv
<1>2. /\ s.pc = "finish" /\ NeedsCommit(s) # {}
      /\ loose' = [loose EXCEPT ![u.ref] = u.new]
      /\ reflock' = [reflock EXCEPT ![u.ref] = Free]
      /\ proc' = [proc EXCEPT ![p] = t]
      /\ packed' = packed /\ packlock' = packlock /\ staging' = staging
      /\ fresh' = fresh
  BY DEF commit_ref, At, Become, After, bounds
<1>3. i \in NeedsCommit(s)
  <2>1. NeedsCommit(s) \subseteq Nat
    BY <1>1, TxnFacts DEF NeedsCommit
  <2> QED
    BY <1>2, <2>1, FirstIn
<1> HIDE DEF i
<1>4. /\ i \in DOMAIN s.txn \ s.did /\ u.ref \in Ref /\ u.new \in Oid /\ u.new # Null
      /\ i \notin Deletes(s)
  BY <1>1, <1>3, TxnFacts DEF NeedsCommit, Deletes
<1>5. s.op = "txn"
  <2>1. Changes(s)
    BY <1>1, <1>2 DEF Sound
  <2>2. s.op # "prune"
    BY <1>1, <1>4 DEF Holds, PruneHolds
  <2> QED
    BY <2>1, <2>2 DEF Changes
<1>6. u.new \in NewOf(s)
  BY <1>4, <1>5, Oids DEF NewOf
<1>7. reflock[u.ref] = p /\ s.got[u.ref] # Unread
  <2>1. i \in Checked(s)
    BY <1>2, <1>4 DEF Checked, Looks
  <2> QED
    BY <1>1, <1>2, <1>4, <1>5, <2>1 DEF Holds, TxnHolds, Changes
<1>8. DoneMore(s, t, {i})
  BY <1>1 DEF Memory, After, DoneMore
<1>9. t.did \ s.did = {i}
  BY <1>4, <1>8 DEF DoneMore
<1> HIDE DEF t
<1>10. proc'[p] = t /\ \A q \in Proc \ {p} : proc'[q] = proc[q]
  BY <1>1, <1>2 DEF RSInv
<1>11. Settled(p) = {u.ref}
  BY <1>5, <1>9, <1>10 DEF Settled
<1>12. /\ loose'[u.ref] = u.new /\ (\A r \in Ref : r # u.ref => loose'[r] = loose[r])
       /\ reflock'[u.ref] = Free /\ (\A r \in Ref : r # u.ref => reflock'[r] = reflock[r])
  BY <1>1, <1>2, <1>4 DEF RSInv, FilesOK
<1> HIDE DEF u
<1>13. s.txn[i].ref = u.ref /\ s.txn[i].new = u.new
  BY DEF u
<1>14. /\ s.pc = "finish" /\ packed' = packed /\ packlock' = packlock /\ staging' = staging
       /\ fresh' = fresh /\ DoneMore(s, proc'[p], {i}) /\ doubt' = doubt \ {u.ref}
  BY <1>2, <1>8, <1>10, <1>11
<1>15. i \in DOMAIN s.txn \ s.did /\ u.ref \in Ref /\ u.new \in NewOf(s)
  BY <1>4, <1>6
<1> QED
  BY <1>4, <1>5, <1>7, <1>10, <1>12, <1>13, <1>14, <1>15

\* A transaction that has done one more of its entries, whose lock is gone or
\* which is a deletion, holds what it held.
LEMMA DoneHolds ==
    ASSUME NEW p \in Proc, NEW s \in Memory, NEW t, NEW D, DoneMore(s, t, D), NEW locks, NEW after,
           NEW pack, Holds(p, s, locks, pack), s.pc = "finish",
           \A i \in DOMAIN s.txn : i \notin t.did \/ i \in Deletes(s) =>
               (locks[s.txn[i].ref] = p => after[s.txn[i].ref] = p)
    PROVE  Holds(p, t, after, pack)
<1>1. Deletes(t) = Deletes(s) /\ Changes(t) = Changes(s) /\ Checked(t) = DOMAIN s.txn
      /\ Checked(s) = DOMAIN s.txn /\ ~ Looks(s) /\ ~ Looks(t)
  BY DEF Deletes, Changes, Checked, Looks, DoneMore
<1>2. TxnHolds(p, t, after)
  BY <1>1 DEF Holds, TxnHolds, DoneMore
<1>3. PruneHolds(t) /\ PackHolds(p, t, pack)
  BY <1>1 DEF Holds, PruneHolds, PackHolds, DoneMore
<1> QED
  BY <1>2, <1>3 DEF Holds

\* The new value is in place: it is nobody else's, and nobody has seen it.
LEMMA CommitDeep ==
    ASSUME DeepInv, RSInv', NEW p \in Proc, doubt' = doubt \ Settled(p), commit_ref(p)
    PROVE  DeepInv'
<1> DEFINE s == proc[p]
           t == proc'[p]
<1>1. /\ s \in Memory /\ Holds(p, s, reflock, packlock) /\ Unwritten /\ Known
      /\ Sees(p, s, reflock, loose, packed, staging, doubt)
  BY DEF DeepInv, RSInv
<1>2. PICK i \in DOMAIN s.txn \ s.did, x \in Ref, v \in NewOf(s) :
             /\ s.txn[i].ref = x /\ s.txn[i].new = v
             /\ s.op = "txn" /\ s.pc = "finish"
             /\ i \notin Deletes(s) /\ v \in Oid /\ v # Null
             /\ reflock[x] = p /\ s.got[x] # Unread
             /\ loose'[x] = v /\ (\A r \in Ref : r # x => loose'[r] = loose[r])
             /\ reflock'[x] = Free /\ (\A r \in Ref : r # x => reflock'[r] = reflock[r])
             /\ packed' = packed /\ packlock' = packlock /\ staging' = staging
             /\ fresh' = fresh /\ doubt' = doubt \ {x}
             /\ DoneMore(s, t, {i})
             /\ \A q \in Proc \ {p} : proc'[q] = proc[q]
  BY CommitIs
<1>3. Leaves(p)
  BY <1>2, Constants DEF Leaves
<1>4. Touches(p)
  BY <1>2 DEF Touches
<1>5. \A j \in DOMAIN s.txn : s.txn[j].ref \in Ref /\ (s.txn[j].ref = x <=> j = i)
  BY <1>1, <1>2, TxnFacts DEF Holds, TxnHolds, Changes
<1>6. Holds(p, t, reflock', packlock')
  <2>1. \A j \in DOMAIN s.txn : j \notin t.did \/ j \in Deletes(s) =>
           (reflock[s.txn[j].ref] = p => reflock'[s.txn[j].ref] = p)
    BY <1>2, <1>5 DEF DoneMore
  <2>2. Holds(p, t, reflock', packlock)
    BY <1>1, <1>2, <2>1, DoneHolds
  <2> QED
    BY <1>2, <2>2
<1>7. Deletes(t) = Deletes(s) /\ NewOf(t) = NewOf(s) /\ NeedsUnlink(t) = NeedsUnlink(s)
      /\ Pending(t) = {} /\ Pending(s) = {}
  BY <1>2 DEF Deletes, NewOf, NeedsUnlink, Pending, DoneMore
<1>8. Sees(p, t, reflock', loose', packed', staging', doubt')
  <2>1. ASSUME NEW j \in Standing(p, t, reflock')
        PROVE  Current(t, t.txn[j].ref, loose', packed', doubt')
    <3>1. j \in DOMAIN s.txn \ s.did /\ j # i /\ t.txn = s.txn /\ t.got = s.got
      BY <1>2 DEF Standing, DoneMore
    <3>2. s.txn[j].ref \in Ref /\ s.txn[j].ref # x
      BY <1>5, <3>1
    <3>3. j \in Standing(p, s, reflock)
      <4>1. reflock'[s.txn[j].ref] = p /\ s.got[s.txn[j].ref] # Unread
        BY <3>1 DEF Standing
      <4>2. reflock[s.txn[j].ref] = p
        BY <1>2, <3>2, <4>1
      <4> QED
        BY <3>1, <4>1, <4>2 DEF Standing
    <3>4. Current(s, s.txn[j].ref, loose, packed, doubt)
      BY <1>1, <1>2, <3>3 DEF Sees, Changes
    <3> DEFINE r == s.txn[j].ref
    <3>5. loose'[r] = loose[r] /\ packed' = packed /\ (r \in doubt => r \in doubt')
      BY <1>2, <3>2
    <3>6. Current(t, r, loose', packed', doubt')
      <4> HIDE DEF r
      <4> QED
        BY <3>1, <3>4, <3>5 DEF Current, r
    <3> QED
      BY <3>1, <3>6
  <2>2. Merged(t, packed) = Merged(s, packed)
    BY <1>2, <1>7 DEF Merged, DoneMore
  <2>3. \A j \in Deletes(t) : t.txn[j] = s.txn[j]
    BY <1>2 DEF DoneMore
  <2> QED
    BY <1>1, <1>2, <1>7, <2>1, <2>2, <2>3 DEF Sees, DoneMore, Looks
<1>9. \A q \in Proc : proc'[q].cache = proc[q].cache /\ NewOf(proc'[q]) = NewOf(proc[q])
      /\ proc'[q].op = proc[q].op /\ Pending(proc'[q]) = Pending(proc[q])
  BY <1>2, <1>7 DEF DoneMore
<1>10. \A q \in Proc : proc[q].cache[x] # v
  BY <1>1, <1>2 DEF Unwritten
<1>11. Unwritten'
  <2>1. \A r \in Ref : loose'[r] < fresh' /\ packed'[r] < fresh'
    BY <1>1, <1>2 DEF Unwritten
  <2>2. ASSUME NEW q \in Proc, NEW j \in DOMAIN proc'[q].txn \ proc'[q].did,
               proc'[q].txn[j].new \in NewOf(proc'[q])
        PROVE  /\ loose'[proc'[q].txn[j].ref] # proc'[q].txn[j].new
               /\ packed'[proc'[q].txn[j].ref] # proc'[q].txn[j].new
               /\ \A y \in Proc : proc'[y].cache[proc'[q].txn[j].ref] # proc'[q].txn[j].new
    <3>1. proc'[q].txn = proc[q].txn /\ j \in DOMAIN proc[q].txn \ proc[q].did
      BY <1>2, <2>2 DEF DoneMore
    <3> DEFINE w == proc[q].txn[j]
    <3>2. w.ref \in Ref
      BY <3>1, TxnFacts DEF DeepInv, RSInv
    <3>3. w.new \in NewOf(proc[q])
      BY <1>9, <2>2, <3>1
    <3>4. /\ loose[w.ref] # w.new /\ packed[w.ref] # w.new
          /\ \A y \in Proc : proc[y].cache[w.ref] # w.new
      BY <1>1, <3>1, <3>3 DEF Unwritten
    <3>5. w.ref = x => w.new # v
      <4>1. CASE q = p
        <5>1. j # i
          BY <1>2, <2>2, <4>1 DEF DoneMore
        <5> QED
          BY <1>5, <3>1, <4>1, <5>1
      <4>2. CASE q # p
        BY <1>1, <1>2, <3>3, <4>2 DEF Unwritten
      <4> QED
        BY <4>1, <4>2
    <3> HIDE DEF w
    <3>6. loose'[w.ref] # w.new
      BY <1>2, <3>2, <3>4, <3>5
    <3> QED
      BY <1>2, <1>9, <3>1, <3>4, <3>6 DEF w
  <2> QED
    BY <1>1, <1>2, <1>9, <2>1, <2>2 DEF Unwritten
<1>12. \A r \in Going(proc, staging.by) : r \in Going(proc', staging'.by)
  BY <1>2, <1>7 DEF Going, DoneMore
<1>13. Known'
  <2> DEFINE g == Going(proc, staging.by)
             h == Going(proc', staging'.by)
  <2>0. \A r \in g : r \in h
    BY <1>12
  <2> HIDE DEF g, h
  <2>1. ASSUME NEW q \in Proc PROVE PackKnows(proc'[q], loose', packed', doubt')
    <3>1. PackKnows(proc[q], loose, packed, doubt)
      BY <1>1 DEF Known
    <3> QED
      BY <1>2, <1>9, <3>1 DEF PackKnows
  <2>2. ASSUME NEW q \in Proc PROVE PruneKnows(proc'[q], loose', packed', doubt', h)
    <3>1. PruneKnows(proc[q], loose, packed, doubt, g) /\ \A r \in Pending(proc[q]) : r \in Ref
      BY <1>1, PendingNamed DEF Known, g
    <3> QED
      BY <1>2, <1>9, <1>10, <2>0, <3>1 DEF PruneKnows
  <2>3. ASSUME NEW q \in Proc, NEW y \in Proc
        PROVE  Agree(proc'[q], proc'[y], loose', doubt')
    <3>1. Agree(proc[q], proc[y], loose, doubt) /\ \A r \in Pending(proc[y]) : r \in Ref
      BY <1>1, PendingNamed DEF Known
    <3> QED
      BY <1>2, <1>9, <1>10, <3>1 DEF Agree
  <2> QED
    BY <2>1, <2>2, <2>3 DEF Known, h
<1>14. \A q \in Proc : /\ Holds(q, proc'[q], reflock', packlock')
                       /\ Sees(q, proc'[q], reflock', loose', packed', staging', doubt')
  BY <1>3, <1>4, <1>6, <1>8, OthersHold, OthersSee
<1> QED
  BY <1>11, <1>13, <1>14 DEF DeepInv

\* The rest of the final phase: nothing left to unlink, or a lock off the list.
LEMMA FinishDeep ==
    ASSUME DeepInv, RSInv', NEW p \in Proc, doubt' = doubt,
           deactivate_tempfile(p) \/ files_transaction_finish(p)
    PROVE  DeepInv'
<1> DEFINE s == proc[p]
<1>1. /\ s \in Memory /\ Holds(p, s, reflock, packlock) /\ Sound(s)
      /\ Sees(p, s, reflock, loose, packed, staging, doubt)
  BY DEF DeepInv, RSInv
<1>2. s.pc = "finish" /\ UNCHANGED files /\ fresh' = fresh
  BY DEF deactivate_tempfile, files_transaction_finish, At, bounds
<1>3. Changes(s)
  BY <1>1, <1>2 DEF Sound
<1>4. CASE deactivate_tempfile(p)
  <2> DEFINE t == [s EXCEPT !.linger = {}]
  <2>1. Become(p, t)
    BY <1>4 DEF deactivate_tempfile
  <2>2. DoneMore(s, t, {}) /\ SameWork(s, t)
    BY <1>1 DEF Memory, DoneMore, SameWork
  <2> HIDE DEF t
  <2>3. /\ Leaves(p) /\ reflock' = reflock /\ packlock' = packlock /\ staging' = staging
        /\ loose' = loose /\ packed' = packed /\ proc'[p] = t
    BY <1>2, <2>1, OwnStep
  <2>4. Holds(p, t, reflock, packlock)
    BY <1>1, <1>2, <2>2, DoneHolds
  <2>5. /\ Changes(t) /\ Deletes(t) = Deletes(s) /\ Follows(s, t) /\ Narrows(s, t)
    BY <1>3, <2>2, SameWorkFacts
  <2>6. Sees(p, t, reflock, loose, packed, staging, doubt)
    <3>1. Standing(p, t, reflock) = Standing(p, s, reflock) /\ t.got = s.got /\ t.txn = s.txn
          /\ t.did = s.did /\ t.pc = s.pc /\ t.op = s.op
      BY <2>2 DEF Standing, DoneMore
    <3>2. Merged(t, packed) = Merged(s, packed)
      BY <2>2, <2>5 DEF Merged, DoneMore
    <3> QED
      BY <1>1, <1>2, <2>5, <3>1, <3>2 DEF Sees, Looks, Current, Changes
  <2>7. \A r \in Going(proc, staging.by) : r \in Going(proc', staging'.by)
    <3>1. NeedsUnlink(t) = NeedsUnlink(s) /\ t.txn = s.txn /\ t.op = s.op /\ t.pc = s.pc
      BY <2>2, <2>5 DEF NeedsUnlink, DoneMore
    <3> QED
      BY <2>3, <3>1 DEF Going, Leaves
  <2> QED
    BY <1>2, <2>1, <2>3, <2>4, <2>5, <2>6, <2>7, QuietStep
<1>5. CASE files_transaction_finish(p)
  <2> DEFINE t == [s EXCEPT !.pc = "cleanup"]
  <2>1. Become(p, t) /\ NeedsUnlink(s) = {}
    BY <1>5 DEF files_transaction_finish
  <2>2. t.got = s.got /\ t.pc = "cleanup" /\ SameWork(s, t)
    BY <1>1 DEF Memory, SameWork
  <2> HIDE DEF t
  <2>3. /\ Leaves(p) /\ reflock' = reflock /\ packlock' = packlock /\ staging' = staging
        /\ loose' = loose /\ packed' = packed
    BY <1>2, <2>1, OwnStep
  <2>4. Holds(p, t, reflock, packlock) /\ Sees(p, t, reflock, loose, packed, staging, doubt)
    BY <1>3, <2>2, Failing
  <2>5. Follows(s, t) /\ Narrows(s, t)
    BY <1>3, <2>2, SameWorkFacts
  <2>6. \A r \in Going(proc, staging.by) : r \in Going(proc', staging'.by)
    BY <2>1, <2>3, GoingOthers
  <2> QED
    BY <1>2, <2>1, <2>3, <2>4, <2>5, <2>6, QuietStep
<1> QED
  BY <1>4, <1>5

-----------------------------------------------------------------------------

\* What both cases of replacing packed-refs have in common.
LEMMA ReplaceIs ==
    ASSUME DeepInv, NEW p \in Proc, packed_transaction_finish(p)
    PROVE  /\ staging.by = p /\ packlock = p /\ packed' = Merged(proc[p], packed)
           /\ staging'.by = Free /\ loose' = loose /\ reflock' = reflock
           /\ packlock' = packlock /\ fresh' = fresh
           /\ proc[p].did \cap Deletes(proc[p]) = {}
           /\ proc[p].op \in {"txn", "pack"}
           /\ \A q \in Proc \ {p} : proc'[q] = proc[q]
           /\ Leaves(p)
<1>1. /\ RSInv /\ Tied(p, proc[p], reflock, packlock, staging.by)
      /\ Sees(p, proc[p], reflock, loose, packed, staging, doubt)
  BY DEF DeepInv, RSInv
<1>2. /\ staging.by = p /\ packed' = staging.refs /\ staging' = NoStaging
      /\ loose' = loose /\ reflock' = reflock /\ packlock' = packlock /\ fresh' = fresh
  BY DEF packed_transaction_finish, bounds
<1>3. staging'.by = Free
  BY <1>2 DEF NoStaging
<1>4. \A q \in Proc \ {p} : proc'[q] = proc[q]
  BY <1>1 DEF packed_transaction_finish, Become, RSInv
<1>5. Leaves(p)
  BY <1>2, <1>3, <1>4, Constants DEF Leaves
<1> QED
  BY <1>1, <1>2, <1>3, <1>4, <1>5 DEF Tied, Sees

\* What pack-refs does when it replaces packed-refs: no value changes, but of
\* a reference in doubt.
LEMMA PackReplaces ==
    ASSUME DeepInv, NEW p \in Proc, doubt' = doubt \ Settled(p),
           packed_transaction_finish(p), proc[p].op = "pack"
    PROVE  /\ doubt' = doubt /\ proc'[p].op = "pack" /\ proc'[p].pc = "packunlock"
           /\ proc'[p].cache = proc[p].cache
           /\ \A r \in Ref : packed'[r] = IF proc[p].cache[r] # Null THEN proc[p].cache[r]
                                          ELSE packed[r]
           /\ \A r \in Ref : loose[r] = Null => packed'[r] = packed[r] \/ r \in doubt
           /\ \A r \in Ref : reflock[r] # p
<1> DEFINE s == proc[p]
           t == [s EXCEPT !.pc = "packunlock"]
<1>1. /\ RSInv /\ s \in Memory /\ Tied(p, s, reflock, packlock, staging.by)
      /\ PackKnows(s, loose, packed, doubt)
  BY DEF DeepInv, RSInv, Known
<1>2. proc' = [proc EXCEPT ![p] = t]
  BY DEF packed_transaction_finish, Become
<1>3. t.op = "pack" /\ t.pc = "packunlock" /\ t.cache = s.cache
  BY <1>1 DEF Memory
<1> HIDE DEF t
<1>4. proc'[p] = t
  BY <1>1, <1>2 DEF RSInv
<1>5. doubt' = doubt
  BY DEF Settled
<1>6. \A r \in Ref : packed'[r] = IF s.cache[r] # Null THEN s.cache[r] ELSE packed[r]
  BY ReplaceIs DEF Merged
<1>7. \A r \in Ref : loose[r] = Null => packed'[r] = packed[r] \/ r \in doubt
  BY <1>1, <1>6 DEF PackKnows
<1> QED
  BY <1>1, <1>3, <1>4, <1>5, <1>6, <1>7 DEF Tied, Changes

\* What a transaction does when it replaces packed-refs.
LEMMA TxnReplaces ==
    ASSUME DeepInv, NEW p \in Proc, doubt' = doubt \ Settled(p),
           packed_transaction_finish(p), proc[p].op = "txn"
    PROVE  LET s == proc[p]
               D == Deletes(s) \ NeedsUnlink(s)
           IN  /\ s.pc = "finish" /\ NeedsCommit(s) = {} /\ DoneMore(s, proc'[p], D)
               /\ doubt' = doubt \ { s.txn[i].ref : i \in D }
               /\ \A i \in Deletes(s) : /\ i \notin s.did /\ s.txn[i].ref \in Ref
                                        /\ reflock[s.txn[i].ref] = p
                                        /\ s.got[s.txn[i].ref] # Unread
                                        /\ packed'[s.txn[i].ref] = Null
               /\ \A i \in D : loose[s.txn[i].ref] = Null
               /\ \A r \in Ref : r \notin { s.txn[i].ref : i \in Deletes(s) } =>
                                    packed'[r] = packed[r]
<1> DEFINE s == proc[p]
           D == Deletes(s) \ NeedsUnlink(s)
           t == [s EXCEPT !.did = @ \cup D]
<1>1. /\ RSInv /\ s \in Memory /\ Sound(s) /\ Holds(p, s, reflock, packlock)
      /\ Sees(p, s, reflock, loose, packed, staging, doubt)
  BY DEF DeepInv, RSInv
<1>2. s.pc = "finish" /\ NeedsCommit(s) = {} /\ proc' = [proc EXCEPT ![p] = t]
  BY <1>1 DEF packed_transaction_finish, At, Sound, Committed, Become
<1>3. s.did \cap Deletes(s) = {} /\ packed' = Merged(s, packed)
  BY ReplaceIs
<1> HIDE DEF D
<1>4. DoneMore(s, t, D)
  BY <1>1 DEF Memory, DoneMore
<1> HIDE DEF t
<1>5. proc'[p] = t
  BY <1>1, <1>2 DEF RSInv
<1>6. D \subseteq Deletes(s) /\ t.did \ s.did = D
  BY <1>3, <1>4 DEF DoneMore, D
<1>7. doubt' = doubt \ { s.txn[i].ref : i \in D }
  BY <1>5, <1>6 DEF Settled
<1>8. ASSUME NEW i \in Deletes(s)
      PROVE  /\ i \notin s.did /\ s.txn[i].ref \in Ref
             /\ reflock[s.txn[i].ref] = p /\ s.got[s.txn[i].ref] # Unread
             /\ packed'[s.txn[i].ref] = Null
  <2>1. i \in Checked(s) /\ i \in DOMAIN s.txn
    BY <1>2 DEF Checked, Looks, Deletes
  <2>2. s.txn[i].ref \in Ref
    BY <1>1, <2>1, TxnFacts
  <2> QED
    BY <1>1, <1>2, <1>3, <2>1, <2>2 DEF Holds, TxnHolds, Changes, Merged
<1>9. ASSUME NEW i \in D
      PROVE  loose[s.txn[i].ref] = Null
  <2>1. s.got[s.txn[i].ref].packed /\ i \in Deletes(s)
    BY <1>3 DEF D, NeedsUnlink
  <2>2. i \in Standing(p, s, reflock)
    BY <1>8, <2>1 DEF Standing, Deletes
  <2> QED
    BY <1>1, <2>1, <2>2 DEF Sees, Current, Changes
<1>10. \A r \in Ref : r \notin { s.txn[i].ref : i \in Deletes(s) } => packed'[r] = packed[r]
  BY <1>3 DEF Merged
<1> QED
  BY <1>2, <1>4, <1>5, <1>7, <1>8, <1>9, <1>10 DEF D

\* pack-refs replaces packed-refs.
LEMMA PackReplaceDeep ==
    ASSUME DeepInv, RSInv', NEW p \in Proc, doubt' = doubt \ Settled(p),
           packed_transaction_finish(p), proc[p].op = "pack"
    PROVE  DeepInv'
<1> DEFINE s == proc[p]
           t == proc'[p]
<1>1. /\ staging.by = p /\ packlock = p /\ staging'.by = Free /\ loose' = loose
      /\ reflock' = reflock /\ packlock' = packlock /\ fresh' = fresh
      /\ (\A q \in Proc \ {p} : proc'[q] = proc[q]) /\ Leaves(p)
  BY ReplaceIs
<1>2. /\ doubt' = doubt /\ t.op = "pack" /\ t.pc = "packunlock" /\ t.cache = s.cache
      /\ \A r \in Ref : packed'[r] = IF s.cache[r] # Null THEN s.cache[r] ELSE packed[r]
      /\ \A r \in Ref : loose[r] = Null => packed'[r] = packed[r] \/ r \in doubt
  BY PackReplaces
<1>3. Touches(p)
  BY <1>1, <1>2 DEF Touches
<1>4. Holds(p, t, reflock', packlock')
  BY <1>1, <1>2 DEF Holds, TxnHolds, PruneHolds, PackHolds, Changes
<1>5. Sees(p, t, reflock', loose', packed', staging', doubt')
  BY <1>1, <1>2, Constants DEF Sees, Changes
<1>6. Unwritten'
  <2>1. \A q \in Proc : Follows(proc[q], proc'[q])
    <3>1. Follows(s, t) /\ \A q \in Proc : Follows(proc[q], proc[q])
      BY <1>2 DEF Follows
    <3> QED
      BY <1>1, <3>1
  <2> QED
    BY <1>1, <1>2, <2>1, UnwrittenKept
<1>7. /\ Going(proc, staging.by) = {}
      /\ \A q \in Proc \ {p} : proc[q].op = "pack" => \A r \in Ref : proc[q].cache[r] = Null
  BY <1>1, PackerAlone
<1>8. Known'
  <2> DEFINE h == Going(proc', staging'.by)
  <2> HIDE DEF h
  <2>1. ASSUME NEW q \in Proc PROVE PackKnows(proc'[q], loose', packed', doubt')
    BY <1>1, <1>2, <1>7 DEF PackKnows
  <2>2. Pending(t) = { r \in Ref : s.cache[r] # Null }
    BY <1>2 DEF Pending
  <2>3. ASSUME NEW q \in Proc PROVE PruneKnows(proc'[q], loose', packed', doubt', h)
    <3>1. CASE q = p
      BY <1>2, <2>2, <3>1 DEF PruneKnows
    <3>2. CASE q # p
      <4>1. /\ PruneKnows(proc[q], loose, packed, doubt, {}) /\ Agree(s, proc[q], loose, doubt)
            /\ \A r \in Pending(proc[q]) : r \in Ref
        BY <1>7, PendingNamed DEF DeepInv, Known
      <4> QED
        BY <1>1, <1>2, <3>2, <4>1 DEF PruneKnows, Agree
    <3> QED
      BY <3>1, <3>2
  <2>4. ASSUME NEW q \in Proc, NEW y \in Proc
        PROVE  Agree(proc'[q], proc'[y], loose', doubt')
    <3>0. Agree(proc[q], proc[y], loose, doubt) /\ \A r \in Pending(proc[y]) : r \in Ref
      BY PendingNamed DEF DeepInv, Known
    <3>1. CASE y = p
      BY <1>1, <1>2, <1>7, <2>2, <3>1 DEF Agree
    <3>2. CASE y # p
      BY <1>1, <1>2, <3>0, <3>2 DEF Agree
    <3> QED
      BY <3>1, <3>2
  <2> QED
    BY <2>1, <2>3, <2>4 DEF Known, h
<1>9. \A q \in Proc : /\ Holds(q, proc'[q], reflock', packlock')
                      /\ Sees(q, proc'[q], reflock', loose', packed', staging', doubt')
  BY <1>1, <1>3, <1>4, <1>5, OthersHold, OthersSee
<1> QED
  BY <1>6, <1>8, <1>9 DEF DeepInv

\* A transaction replaces packed-refs: what it deletes is gone, or going.
LEMMA TxnReplaceDeep ==
    ASSUME DeepInv, RSInv', NEW p \in Proc, doubt' = doubt \ Settled(p),
           packed_transaction_finish(p), proc[p].op = "txn"
    PROVE  DeepInv'
<1> DEFINE s == proc[p]
           t == proc'[p]
           D == Deletes(s) \ NeedsUnlink(s)
           X == { s.txn[i].ref : i \in Deletes(s) }
<1>0. /\ s \in Memory /\ Holds(p, s, reflock, packlock)
      /\ Sees(p, s, reflock, loose, packed, staging, doubt)
  BY DEF DeepInv, RSInv
<1>1. /\ staging.by = p /\ packlock = p /\ staging'.by = Free /\ loose' = loose
      /\ reflock' = reflock /\ packlock' = packlock /\ fresh' = fresh
      /\ s.did \cap Deletes(s) = {}
      /\ (\A q \in Proc \ {p} : proc'[q] = proc[q]) /\ Leaves(p)
  BY ReplaceIs
<1>2. /\ s.pc = "finish" /\ DoneMore(s, t, D)
      /\ doubt' = doubt \ { s.txn[i].ref : i \in D }
      /\ \A i \in Deletes(s) : /\ i \notin s.did /\ s.txn[i].ref \in Ref
                               /\ reflock[s.txn[i].ref] = p
                               /\ s.got[s.txn[i].ref] # Unread
                               /\ packed'[s.txn[i].ref] = Null
      /\ \A i \in D : loose[s.txn[i].ref] = Null
      /\ \A r \in Ref : r \notin X => packed'[r] = packed[r]
  BY TxnReplaces
<1>3. D \subseteq Deletes(s) /\ Deletes(s) \subseteq DOMAIN s.txn
  BY DEF Deletes
<1>4. (\A r \in Ref : r \notin X => (r \in doubt => r \in doubt')) /\ doubt' \subseteq doubt
  BY <1>2, <1>3
<1>5. \A r \in X : reflock[r] = p /\ packed'[r] = Null
  BY <1>2
<1>6. Touches(p)
  BY <1>1, <1>2, <1>4, <1>5 DEF Touches
<1>7. Deletes(t) = Deletes(s) /\ NeedsUnlink(t) = NeedsUnlink(s)
  BY <1>2 DEF Deletes, NeedsUnlink, DoneMore
<1> HIDE DEF X, D
<1>8. Holds(p, t, reflock', packlock')
  <2>1. Holds(p, t, reflock, packlock)
    BY <1>0, <1>2, DoneHolds
  <2> QED
    BY <1>1, <2>1
<1>9. Sees(p, t, reflock', loose', packed', staging', doubt')
  <2>1. ASSUME NEW i \in Standing(p, t, reflock')
        PROVE  Current(t, t.txn[i].ref, loose', packed', doubt')
    <3> DEFINE x == s.txn[i].ref
    <3>1. i \in DOMAIN s.txn \ s.did /\ i \notin D /\ t.txn = s.txn /\ t.got = s.got
          /\ i \in Standing(p, s, reflock) /\ x \in Ref
      BY <1>0, <1>1, <1>2, TxnFacts DEF Standing, DoneMore
    <3>2. Current(s, x, loose, packed, doubt)
      BY <1>0, <3>1 DEF Sees, Changes
    <3>3. CASE i \in Deletes(s)
      <4>1. ~ s.got[x].packed /\ packed'[x] = Null
        BY <1>2, <3>1, <3>3 DEF D, NeedsUnlink
      <4> HIDE DEF x
      <4>2. Current(t, x, loose', packed', doubt')
        BY <1>1, <3>1, <3>2, <4>1 DEF Current
      <4> QED
        BY <3>1, <4>2 DEF x
    <3>4. CASE i \notin Deletes(s)
      <4>1. x \notin X
        BY <1>0, <1>3, <3>1, <3>4 DEF Holds, TxnHolds, Changes, X
      <4>2. packed'[x] = packed[x] /\ (x \in doubt => x \in doubt')
        BY <1>2, <1>4, <3>1, <4>1
      <4> HIDE DEF x
      <4>3. Current(t, x, loose', packed', doubt')
        BY <1>1, <3>1, <3>2, <4>2 DEF Current
      <4> QED
        BY <3>1, <4>3 DEF x
    <3> QED
      BY <3>3, <3>4
  <2>2. \A i \in Deletes(t) : packed'[t.txn[i].ref] = Null
    BY <1>2, <1>7 DEF DoneMore
  <2> QED
    BY <1>1, <1>2, <2>1, <2>2, Constants DEF Sees, Looks, DoneMore
<1>10. Unwritten'
  <2>1. \A q \in Proc : Follows(proc[q], proc'[q])
    <3>1. Follows(s, t) /\ \A q \in Proc : Follows(proc[q], proc[q])
      BY <1>2 DEF Follows, DoneMore
    <3> QED
      BY <1>1, <3>1
  <2>2. \A r \in Ref : packed'[r] \in {packed[r], Null}
    BY <1>2, <1>5
  <2> QED
    BY <1>1, <2>1, <2>2, UnwrittenKept
<1>11. \A q \in Proc \ {p} : proc[q].op = "pack" => \A r \in Ref : proc[q].cache[r] = Null
  BY <1>1, PackerAlone
<1>12. Known'
  <2> DEFINE g == Going(proc, staging.by)
             h == Going(proc', staging'.by)
  <2>0. \A r \in g : r \in h
    BY <1>1, GoingOthers
  <2>1. \A r \in X : loose[r] # Null => r \in h
    <3> SUFFICES ASSUME NEW r \in X, loose[r] # Null PROVE r \in h
      OBVIOUS
    <3>1. PICK i \in Deletes(s) : s.txn[i].ref = r
      BY DEF X
    <3>2. i \in NeedsUnlink(s) /\ r \in Ref
      BY <1>2, <3>1 DEF D
    <3>3. /\ i \in NeedsUnlink(t) /\ t.txn[i].ref = r /\ t.op = "txn" /\ t.pc = "finish"
          /\ staging'.by # p
      BY <1>1, <1>2, <1>7, <3>1, <3>2, Constants DEF DoneMore
    <3> QED
      BY <3>2, <3>3 DEF Going
  <2> HIDE DEF g, h
  <2>2. ASSUME NEW q \in Proc PROVE PackKnows(proc'[q], loose', packed', doubt')
    BY <1>1, <1>2, <1>11 DEF PackKnows, DoneMore
  <2>3. Pending(t) = {}
    BY <1>2 DEF Pending, DoneMore
  <2>4. ASSUME NEW q \in Proc PROVE PruneKnows(proc'[q], loose', packed', doubt', h)
    <3>1. CASE q = p
      BY <2>3, <3>1 DEF PruneKnows
    <3>2. CASE q # p
      <4>1. /\ PruneKnows(proc[q], loose, packed, doubt, g)
            /\ \A r \in Pending(proc[q]) : r \in Ref /\ proc[q].cache[r] # Null
        BY PendingNamed DEF DeepInv, Known, g
      <4> QED
        BY <1>1, <1>2, <1>4, <2>0, <2>1, <3>2, <4>1 DEF PruneKnows
    <3> QED
      BY <3>1, <3>2
  <2>5. ASSUME NEW q \in Proc, NEW y \in Proc
        PROVE  Agree(proc'[q], proc'[y], loose', doubt')
    <3>1. CASE y = p
      BY <2>3, <3>1 DEF Agree
    <3>2. CASE y # p
      <4>1. \A r \in Pending(proc[y]) : r \in Ref
        BY PendingNamed
      <4> QED
        BY <1>1, <1>2, <1>11, <3>2, <4>1 DEF Agree, DoneMore
    <3> QED
      BY <3>1, <3>2
  <2> QED
    BY <2>2, <2>4, <2>5 DEF Known, h
<1>13. \A q \in Proc : /\ Holds(q, proc'[q], reflock', packlock')
                       /\ Sees(q, proc'[q], reflock', loose', packed', staging', doubt')
  BY <1>1, <1>6, <1>8, <1>9, OthersHold, OthersSee
<1> QED
  BY <1>10, <1>12, <1>13 DEF DeepInv

-----------------------------------------------------------------------------

\* A reference that is going is locked by the process that deletes it.
LEMMA GoingLocked ==
    ASSUME DeepInv, NEW r \in Going(proc, staging.by)
    PROVE  \E q \in Proc : proc[q].op = "txn" /\ reflock[r] = q
<1>1. PICK q \in Proc : /\ proc[q].op = "txn" /\ proc[q].pc = "finish"
                        /\ \E i \in NeedsUnlink(proc[q]) : proc[q].txn[i].ref = r
  BY DEF Going
<1>2. PICK i \in NeedsUnlink(proc[q]) : proc[q].txn[i].ref = r
  BY <1>1
<1>3. i \in Deletes(proc[q]) /\ i \in Checked(proc[q])
  BY <1>1 DEF NeedsUnlink, Deletes, Checked, Looks
<1>4. reflock[r] = q
  BY <1>1, <1>2, <1>3 DEF DeepInv, Holds, TxnHolds, Changes
<1> QED
  BY <1>1, <1>4

\* What the unlinking of a loose file does.  A pruning removes the very value
\* that is packed; a deletion has taken the reference out of packed-refs before.
LEMMA UnlinkIs ==
    ASSUME DeepInv, NEW p \in Proc, unlink_loose(p), doubt' = doubt \ Settled(p)
    PROVE  \E i \in NeedsUnlink(proc[p]), x \in Ref :
             /\ i \in DOMAIN proc[p].txn /\ i \notin proc[p].did
             /\ proc[p].txn[i].ref = x /\ proc[p].txn[i].new = Null
             /\ proc[p].pc = "finish" /\ staging.by # p
             /\ reflock[x] = p /\ proc[p].got[x] # Unread /\ loose[x] = proc[p].got[x].val
             /\ loose'[x] = Null /\ (\A r \in Ref : r # x => loose'[r] = loose[r])
             /\ packed' = packed /\ reflock' = reflock /\ packlock' = packlock
             /\ staging' = staging /\ fresh' = fresh
             /\ DoneMore(proc[p], proc'[p], {i})
             /\ \A q \in Proc \ {p} : proc'[q] = proc[q]
             /\ \/ /\ proc[p].op = "txn" /\ packed[x] = Null /\ packlock = p
                   /\ doubt' = doubt \ {x}
                \/ /\ proc[p].op = "prune" /\ doubt' = doubt /\ x \in Pending(proc[p])
                   /\ loose[x] = proc[p].cache[x]
                   /\ packed[x] = loose[x] \/ x \in doubt
<1> DEFINE s == proc[p]
           i == First(NeedsUnlink(s))
           x == s.txn[i].ref
           t == [s EXCEPT !.did = @ \cup {i}]
<1>1. /\ s \in Memory /\ Sound(s) /\ RSInv /\ Holds(p, s, reflock, packlock) /\ Known
      /\ Sees(p, s, reflock, loose, packed, staging, doubt)
  BY DEF DeepInv, RSInv
<1>2. /\ s.pc = "finish" /\ NeedsUnlink(s) # {} /\ staging.by # p
      /\ loose' = [loose EXCEPT ![x] = Null]
      /\ proc' = [proc EXCEPT ![p] = t]
      /\ packed' = packed /\ reflock' = reflock /\ packlock' = packlock /\ staging' = staging
      /\ fresh' = fresh
  BY DEF unlink_loose, At, Become, bounds
<1>3. i \in NeedsUnlink(s)
  <2>1. NeedsUnlink(s) \subseteq Nat
    BY <1>1, TxnFacts DEF NeedsUnlink, Deletes
  <2> QED
    BY <1>2, <2>1, FirstIn
<1> HIDE DEF i
<1>4. /\ i \in DOMAIN s.txn /\ i \notin s.did /\ i \in Deletes(s) /\ s.txn[i].new = Null
      /\ x \in Ref /\ ~ s.got[x].packed /\ i \in Checked(s)
  BY <1>1, <1>2, <1>3, TxnFacts DEF NeedsUnlink, Deletes, Checked, Looks
<1>5. Changes(s)
  BY <1>1, <1>2 DEF Sound
<1>6. DoneMore(s, t, {i})
  BY <1>1 DEF Memory, DoneMore
<1>7. t.did \ s.did = {i}
  BY <1>4, <1>6 DEF DoneMore
<1> HIDE DEF t
<1>8. proc'[p] = t /\ \A q \in Proc \ {p} : proc'[q] = proc[q]
  BY <1>1, <1>2 DEF RSInv
<1>9. reflock[x] = p /\ s.got[x] # Unread
  BY <1>1, <1>2, <1>4, <1>5 DEF Holds, TxnHolds
<1>10. loose[x] = s.got[x].val
  <2>1. i \in Standing(p, s, reflock)
    BY <1>4, <1>9 DEF Standing
  <2> QED
    BY <1>1, <1>4, <1>5, <2>1 DEF Sees, Current
<1>11. loose'[x] = Null /\ (\A r \in Ref : r # x => loose'[r] = loose[r])
  BY <1>1, <1>2, <1>4 DEF RSInv, FilesOK
<1>12. /\ s.pc = "finish" /\ staging.by # p /\ packed' = packed /\ reflock' = reflock
       /\ packlock' = packlock /\ staging' = staging /\ fresh' = fresh
       /\ DoneMore(s, proc'[p], {i})
  BY <1>2, <1>6, <1>8
<1>13. CASE s.op = "txn"
  <2>1. doubt' = doubt \ {x}
    BY <1>7, <1>8, <1>13 DEF Settled
  <2>2. packlock = p /\ packed[x] = Null
    BY <1>1, <1>2, <1>4, <1>13 DEF Holds, PackHolds, Sees
  <2> HIDE DEF x
  <2>3. s.txn[i].ref = x
    BY DEF x
  <2> QED
    BY <1>3, <1>4, <1>8, <1>9, <1>10, <1>11, <1>13, <1>12, <2>1, <2>2, <2>3
<1>14. CASE s.op = "prune"
  <2>1. doubt' = doubt
    BY <1>14 DEF Settled
  <2>2. i = 1 /\ loose[x] = s.cache[x] /\ loose[x] # Null
    BY <1>1, <1>4, <1>9, <1>10, <1>14 DEF Holds, PruneHolds
  <2>3. x \in Pending(s)
    BY <1>4, <1>14 DEF Pending
  <2>4. x \notin Going(proc, staging.by)
    BY <1>9, <1>14, GoingLocked
  <2>5. packed[x] = loose[x] \/ x \in doubt
    BY <1>1, <2>2, <2>3, <2>4 DEF Known, PruneKnows
  <2> HIDE DEF x
  <2>6. s.txn[i].ref = x
    BY DEF x
  <2> QED
    BY <1>3, <1>4, <1>8, <1>9, <1>10, <1>11, <1>14, <1>12, <2>1, <2>2, <2>3, <2>5, <2>6
<1> QED
  BY <1>5, <1>13, <1>14 DEF Changes

\* A loose file is unlinked.
LEMMA UnlinkDeep ==
    ASSUME DeepInv, RSInv', NEW p \in Proc, doubt' = doubt \ Settled(p), unlink_loose(p)
    PROVE  DeepInv'
<1> DEFINE s == proc[p]
           t == proc'[p]
<1>1. /\ s \in Memory /\ Holds(p, s, reflock, packlock) /\ Known
      /\ Sees(p, s, reflock, loose, packed, staging, doubt)
  BY DEF DeepInv, RSInv
<1>2. PICK i \in NeedsUnlink(s), x \in Ref :
             /\ i \in DOMAIN s.txn /\ i \notin s.did
             /\ s.txn[i].ref = x /\ s.txn[i].new = Null
             /\ s.pc = "finish" /\ staging.by # p
             /\ reflock[x] = p /\ s.got[x] # Unread /\ loose[x] = s.got[x].val
             /\ loose'[x] = Null /\ (\A r \in Ref : r # x => loose'[r] = loose[r])
             /\ packed' = packed /\ reflock' = reflock /\ packlock' = packlock
             /\ staging' = staging /\ fresh' = fresh
             /\ DoneMore(s, t, {i})
             /\ \A q \in Proc \ {p} : proc'[q] = proc[q]
             /\ \/ /\ s.op = "txn" /\ packed[x] = Null /\ packlock = p
                   /\ doubt' = doubt \ {x}
                \/ /\ s.op = "prune" /\ doubt' = doubt /\ x \in Pending(s)
                   /\ loose[x] = s.cache[x]
                   /\ packed[x] = loose[x] \/ x \in doubt
  BY UnlinkIs
<1>3. Leaves(p)
  BY <1>2 DEF Leaves
<1>4. \A r \in Ref : r # x => (r \in doubt <=> r \in doubt')
  BY <1>2
<1>5. Touches(p)
  BY <1>2, <1>4 DEF Touches
<1>6. Changes(s) /\ Changes(t) /\ Deletes(t) = Deletes(s) /\ NeedsUnlink(t) = NeedsUnlink(s) \ {i}
  BY <1>2 DEF Changes, Deletes, NeedsUnlink, DoneMore
<1>7. \A j \in DOMAIN s.txn : s.txn[j].ref \in Ref /\ (s.txn[j].ref = x <=> j = i)
  BY <1>1, <1>2, <1>6, TxnFacts DEF Holds, TxnHolds
<1>8. Holds(p, t, reflock', packlock')
  <2>1. Holds(p, t, reflock, packlock)
    BY <1>1, <1>2, DoneHolds
  <2> QED
    BY <1>2, <2>1
<1>9. Sees(p, t, reflock', loose', packed', staging', doubt')
  <2>1. ASSUME NEW j \in Standing(p, t, reflock')
        PROVE  Current(t, t.txn[j].ref, loose', packed', doubt')
    <3>1. j \in DOMAIN s.txn \ s.did /\ j # i /\ t.txn = s.txn /\ t.got = s.got
          /\ j \in Standing(p, s, reflock)
      BY <1>2 DEF Standing, DoneMore
    <3>2. s.txn[j].ref \in Ref /\ s.txn[j].ref # x
      BY <1>7, <3>1
    <3>3. Current(s, s.txn[j].ref, loose, packed, doubt)
      BY <1>1, <1>6, <3>1 DEF Sees
    <3>4. PICK r \in Ref : r = s.txn[j].ref /\ r # x
      BY <3>2
    <3>5. loose'[r] = loose[r] /\ packed'[r] = packed[r] /\ (r \in doubt <=> r \in doubt')
      BY <1>2, <1>4, <3>4
    <3>6. t.got[r] = s.got[r] /\ t.txn[j].ref = r /\ Current(s, r, loose, packed, doubt)
      BY <3>1, <3>3, <3>4
    <3> HIDE DEF s, t
    <3> QED
      BY <3>5, <3>6 DEF Current
  <2>2. t.op = "txn" => \A j \in Deletes(t) : packed'[t.txn[j].ref] = Null
    BY <1>1, <1>2, <1>6 DEF Sees, DoneMore
  <2> QED
    BY <1>2, <2>1, <2>2 DEF Sees, Looks, DoneMore
<1>10. Unwritten'
  <2>1. \A q \in Proc : Follows(proc[q], proc'[q])
    <3>1. Follows(s, t) /\ \A q \in Proc : Follows(proc[q], proc[q])
      BY <1>2 DEF Follows, DoneMore
    <3> QED
      BY <1>2, <3>1
  <2> QED
    BY <1>2, <2>1, UnwrittenKept
<1>11. \A q \in Proc : /\ proc'[q].cache = proc[q].cache /\ proc'[q].op = proc[q].op
                       /\ Pending(proc'[q]) \subseteq Pending(proc[q])
  <2>1. Pending(t) \subseteq Pending(s)
    BY <1>2 DEF Pending, DoneMore
  <2> QED
    BY <1>2, <2>1 DEF DoneMore
<1>12. \A q \in Proc : proc[q].op = "pack" /\ proc[q].cache[x] # Null =>
          packed[x] = proc[q].cache[x] \/ x \in doubt'
  <2>1. CASE s.op = "txn"
    BY <1>2, <2>1, PackerAlone
  <2>2. CASE s.op = "prune"
    <3>1. \A q \in Proc : Agree(proc[q], s, loose, doubt)
      BY <1>1 DEF Known
    <3> QED
      BY <1>2, <2>2, <3>1 DEF Agree
  <2> QED
    BY <1>2, <2>1, <2>2
<1>13. Known'
  <2> DEFINE g == Going(proc, staging.by)
             h == Going(proc', staging'.by)
  <2>0. \A r \in g : r # x => r \in h
    <3>1. t.op = s.op /\ t.txn = s.txn /\ t.pc = s.pc
      BY <1>2 DEF DoneMore
    <3>2. \A j \in NeedsUnlink(s) : s.txn[j].ref # x => j \in NeedsUnlink(t)
      BY <1>2, <1>6
    <3> QED
      BY <1>2, <3>1, <3>2 DEF Going
  <2> HIDE DEF g, h
  <2>1. ASSUME NEW q \in Proc PROVE PackKnows(proc'[q], loose', packed', doubt')
    <3>1. PackKnows(proc[q], loose, packed, doubt)
      BY <1>1 DEF Known
    <3> QED
      BY <1>2, <1>4, <1>11, <1>12, <3>1 DEF PackKnows
  <2>2. ASSUME NEW q \in Proc PROVE PruneKnows(proc'[q], loose', packed', doubt', h)
    <3>1. /\ PruneKnows(proc[q], loose, packed, doubt, g)
          /\ \A r \in Pending(proc[q]) : r \in Ref /\ proc[q].cache[r] # Null
      BY <1>1, PendingNamed DEF Known, g
    <3> QED
      BY <1>2, <1>4, <1>11, <2>0, <3>1 DEF PruneKnows
  <2>3. ASSUME NEW q \in Proc, NEW y \in Proc
        PROVE  Agree(proc'[q], proc'[y], loose', doubt')
    <3>1. /\ Agree(proc[q], proc[y], loose, doubt)
          /\ \A r \in Pending(proc[y]) : r \in Ref /\ proc[y].cache[r] # Null
      BY <1>1, PendingNamed DEF Known
    <3> QED
      BY <1>2, <1>4, <1>11, <3>1 DEF Agree
  <2> QED
    BY <2>1, <2>2, <2>3 DEF Known, h
<1>14. \A q \in Proc : /\ Holds(q, proc'[q], reflock', packlock')
                       /\ Sees(q, proc'[q], reflock', loose', packed', staging', doubt')
  BY <1>3, <1>5, <1>8, <1>9, OthersHold, OthersSee
<1> QED
  BY <1>10, <1>13, <1>14 DEF DeepInv

-----------------------------------------------------------------------------

\* Cleaning up, p gives a lock file up, or its packed-refs.new.
LEMMA LetGo ==
    ASSUME DeepInv, RSInv', NEW p \in Proc, proc[p].pc = "cleanup", proc' = proc,
           loose' = loose, packed' = packed, packlock' = packlock, fresh' = fresh, doubt' = doubt,
           \A r \in Ref : reflock'[r] = reflock[r] \/ (reflock[r] = p /\ reflock'[r] = Free),
           staging' = staging \/ (staging.by = p /\ staging'.by = Free)
    PROVE  DeepInv'
<1> DEFINE s == proc[p]
<1>1. /\ s \in Memory /\ RSInv /\ Holds(p, s, reflock, packlock)
      /\ Sees(p, s, reflock, loose, packed, staging, doubt)
  BY DEF DeepInv, RSInv
<1>2. Become(p, s)
  BY <1>1 DEF Become, RSInv
<1>3. Leaves(p)
  BY Constants DEF Leaves
<1>4. Holds(p, s, reflock', packlock')
  BY <1>1 DEF Holds, TxnHolds, Looks
<1>5. Sees(p, s, reflock', loose', packed', staging', doubt')
  <2>1. \A i \in DOMAIN s.txn : s.txn[i].ref \in Ref
    BY <1>1, TxnFacts
  <2>2. Standing(p, s, reflock') \subseteq Standing(p, s, reflock)
    BY <2>1, Constants DEF Standing
  <2> QED
    BY <1>1, <2>2, Constants DEF Sees, Looks
<1>6. \A r \in Going(proc, staging.by) : r \in Going(proc', staging'.by)
  BY <1>3, GoingKept
<1>7. Follows(s, s) /\ Narrows(s, s)
  BY DEF Follows, Narrows
<1> QED
  BY <1>2, <1>3, <1>4, <1>5, <1>6, <1>7, QuietStep

\* The next pruning: nothing locked, nothing read, the cache as it was.
LEMMA NextPruneIs ==
    ASSUME NEW w \in Memory, NEW n \in NextPrune(w), n # Idle
    PROVE  /\ n.op = "prune" /\ n.pc = "lock" /\ n.pos = 1 /\ n.cache = w.cache /\ n.did = {}
           /\ \E r \in w.todo : /\ n.txn = << [ref |-> r, new |-> Null, old |-> w.cache[r]] >>
                                /\ n.todo = w.todo \ {r}
           /\ \A r \in Ref : n.got[r] = Unread
<1>1. PICK r \in w.todo :
        n = [Idle EXCEPT !.op = "prune", !.pc = "lock", !.pos = 1,
                         !.todo = w.todo \ {r}, !.cache = w.cache,
                         !.txn = << [ref |-> r, new |-> Null, old |-> w.cache[r]] >>]
  BY DEF NextPrune
<1> DEFINE x == << [ref |-> r, new |-> Null, old |-> w.cache[r]] >>
           d == w.todo \ {r}
<1>2. n = [Idle EXCEPT !.op = "prune", !.pc = "lock", !.pos = 1,
                       !.todo = d, !.cache = w.cache, !.txn = x]
  BY <1>1
<1> HIDE DEF x, d
<1>3. /\ n.op = "prune" /\ n.pc = "lock" /\ n.pos = 1 /\ n.cache = w.cache /\ n.did = {}
      /\ n.txn = x /\ n.todo = d /\ n.got = [y \in Ref |-> Unread]
  BY <1>2 DEF Idle
<1> QED
  BY <1>3 DEF x, d

\* A process goes on to the next pruning, or is done.
LEMMA PruneStep ==
    ASSUME DeepInv, RSInv', NEW p \in Proc, NEW w \in Memory, NEW n \in NextPrune(w),
           \A r \in w.todo : w.cache[r] # Null, w.cache = proc[p].cache,
           w.todo \subseteq Pending(proc[p]), Become(p, n), Leaves(p), proc[p].pc # "finish",
           loose' = loose, packed' = packed, fresh' = fresh, doubt' = doubt
    PROVE  DeepInv'
<1>1. \A r \in Going(proc, staging.by) : r \in Going(proc', staging'.by)
  BY GoingKept
<1>2. CASE n = Idle
  BY <1>1, <1>2, ToIdle
<1>3. CASE n # Idle
  <2>1. /\ n.op = "prune" /\ n.pc = "lock" /\ n.pos = 1 /\ n.cache = w.cache /\ n.did = {}
        /\ \A r \in Ref : n.got[r] = Unread
    BY <1>3, NextPruneIs
  <2>2. PICK r \in w.todo : /\ n.txn = << [ref |-> r, new |-> Null, old |-> w.cache[r]] >>
                            /\ n.todo = w.todo \ {r}
    BY <1>3, NextPruneIs
  <2>3. r \in Ref /\ w.todo \subseteq Ref
    BY DEF Memory
  <2>4. /\ DOMAIN n.txn = {1} /\ n.txn[1].ref = r /\ n.txn[1].new = Null
        /\ n.txn[1].old = w.cache[r]
    BY <2>2
  <2>5. staging'.by # p
    <3>1. Tied(p, proc'[p], reflock', packlock', staging'.by) /\ proc'[p] = n
      BY DEF RSInv, Become, DeepInv
    <3> QED
      BY <2>1, <3>1 DEF Tied
  <2>6. Holds(p, n, reflock', packlock')
    <3>1. TxnHolds(p, n, reflock')
      BY <2>1, <2>3, <2>4 DEF TxnHolds, Checked, Looks
    <3>2. PruneHolds(n) /\ PackHolds(p, n, packlock')
      BY <2>1, <2>2, <2>3, <2>4 DEF PruneHolds, PackHolds
    <3> QED
      BY <3>1, <3>2 DEF Holds
  <2>7. Sees(p, n, reflock', loose', packed', staging', doubt')
    <3>1. Standing(p, n, reflock') = {}
      BY <2>1, <2>3, <2>4 DEF Standing
    <3> QED
      BY <2>1, <2>5, <3>1 DEF Sees, Looks
  <2>8. Follows(proc[p], n)
    BY <2>1 DEF Follows
  <2>9. Narrows(proc[p], n)
    <3>1. Pending(n) \subseteq w.todo
      BY <2>1, <2>2, <2>4 DEF Pending
    <3> QED
      BY <2>1, <3>1 DEF Narrows
  <2> QED
    BY <1>1, <2>6, <2>7, <2>8, <2>9, QuietStep
<1> QED
  BY <1>2, <1>3

\* Locks given up one by one, and what follows a packing or a pruning.
LEMMA CleanupDeep ==
    ASSUME DeepInv, RSInv', NEW p \in Proc, doubt' = doubt,
           \/ unlock_ref(p) \/ packed_transaction_cleanup(p)
           \/ packed_refs_unlock(p) \/ files_transaction_cleanup(p)
    PROVE  DeepInv'
<1> DEFINE s == proc[p]
<1>1. /\ s \in Memory /\ RSInv /\ Sound(s) /\ Holds(p, s, reflock, packlock)
      /\ Tied(p, s, reflock, packlock, staging.by)
  BY DEF DeepInv, RSInv
<1>2. /\ loose' = loose /\ packed' = packed /\ fresh' = fresh
  BY DEF unlock_ref, packed_transaction_cleanup, packed_refs_unlock, files_transaction_cleanup,
         files, bounds
<1>3. CASE unlock_ref(p)
  <2> DEFINE i == First(HeldLocks(p))
             x == s.txn[i].ref
  <2>1. /\ s.pc = "cleanup" /\ proc' = proc /\ packlock' = packlock /\ staging' = staging
        /\ reflock' = [reflock EXCEPT ![x] = Free] /\ HeldLocks(p) # {}
    BY <1>3 DEF unlock_ref, At
  <2>2. HeldLocks(p) \subseteq Nat
    BY <1>1, TxnFacts DEF HeldLocks
  <2>3. i \in HeldLocks(p)
    BY <2>1, <2>2, FirstIn
  <2>4. reflock[x] = p
    BY <2>3 DEF HeldLocks
  <2> HIDE DEF x
  <2>5. \A r \in Ref : reflock'[r] = reflock[r] \/ (reflock[r] = p /\ reflock'[r] = Free)
    BY <1>1, <2>1, <2>4 DEF RSInv, FilesOK
  <2> QED
    BY <1>2, <2>1, <2>5, LetGo
<1>4. CASE packed_transaction_cleanup(p)
  <2>1. /\ s.pc = "cleanup" /\ proc' = proc /\ packlock' = packlock /\ reflock' = reflock
        /\ staging.by = p /\ staging'.by = Free
    BY <1>4 DEF packed_transaction_cleanup, At, NoStaging
  <2> QED
    BY <1>2, <2>1, LetGo
<1>5. CASE packed_refs_unlock(p)
  <2>1. packlock = p /\ packlock' = Free /\ reflock' = reflock /\ staging' = staging
    BY <1>5 DEF packed_refs_unlock
  <2>2. \A q \in Proc \ {p} : proc'[q] = proc[q]
    BY <1>1, <1>5 DEF packed_refs_unlock, Become, RSInv
  <2>3. Leaves(p)
    BY <2>1, <2>2, Constants DEF Leaves
  <2>4. CASE s.pc = "packunlock"
    <3> DEFINE S == { r \in Ref : s.cache[r] # Null }
               w == [s EXCEPT !.todo = S]
    <3>1. PICK n \in NextPrune(w) : Become(p, n)
      BY <1>5, <2>4 DEF packed_refs_unlock, At
    <3>2. S \subseteq Ref /\ \A r \in S : s.cache[r] # Null
      OBVIOUS
    <3>3. S = Pending(s)
      BY <1>1, <2>4 DEF Pending, Sound
    <3> HIDE DEF S
    <3>4. w \in Memory /\ w.todo = S /\ w.cache = s.cache
      BY <1>1, <3>2 DEF Memory
    <3> HIDE DEF w
    <3> QED
      BY <1>2, <2>3, <2>4, <3>1, <3>2, <3>3, <3>4, PruneStep
  <2>5. CASE s.pc # "packunlock"
    <3>1. Become(p, Idle) /\ s.pc = "cleanup"
      BY <1>5, <2>5 DEF packed_refs_unlock, At
    <3>2. \A r \in Going(proc, staging.by) : r \in Going(proc', staging'.by)
      BY <2>3, <3>1, GoingKept
    <3> QED
      BY <1>2, <2>3, <3>1, <3>2, ToIdle
  <2> QED
    BY <2>4, <2>5
<1>6. CASE files_transaction_cleanup(p)
  <2>1. s.pc = "cleanup" /\ UNCHANGED files
    BY <1>6 DEF files_transaction_cleanup, At
  <2>2. PICK n \in IF s.op = "prune" THEN NextPrune(s) ELSE {Idle} : Become(p, n)
    BY <1>6 DEF files_transaction_cleanup
  <2>3. Leaves(p)
    BY <2>1, <2>2, OwnStep
  <2>4. CASE s.op = "prune"
    <3>1. s.todo \subseteq Pending(s) /\ \A r \in s.todo : s.cache[r] # Null
      BY <1>1, <2>4 DEF Pending, Holds, PruneHolds
    <3> QED
      BY <1>1, <1>2, <2>1, <2>2, <2>3, <2>4, <3>1, PruneStep
  <2>5. CASE s.op # "prune"
    <3>1. \A r \in Going(proc, staging.by) : r \in Going(proc', staging'.by)
      BY <2>1, <2>3, GoingKept
    <3> QED
      BY <1>2, <2>2, <2>3, <2>5, <3>1, ToIdle
  <2> QED
    BY <2>4, <2>5
<1> QED
  BY <1>3, <1>4, <1>5, <1>6

-----------------------------------------------------------------------------

\* What p leaves half deleted when it stops is in doubt from then on.
LEMMA HalfGoing ==
    ASSUME DeepInv, NEW p \in Proc, Leaves(p), doubt' = doubt \cup HalfDeleted(p),
           NEW r \in Going(proc, staging.by)
    PROVE  r \in Going(proc', staging'.by) \/ r \in doubt' \/ loose[r] = Null
<1> DEFINE s == proc[p]
<1>1. SUFFICES ASSUME s.op = "txn", s.pc = "finish", staging.by # p, loose[r] # Null,
                      NEW i \in NeedsUnlink(s), s.txn[i].ref = r
               PROVE  r \in doubt'
  BY GoingOthers
<1>2. i \in Deletes(s)
  BY DEF NeedsUnlink
<1>3. packed[r] = Null
  BY <1>1, <1>2 DEF DeepInv, Sees
<1>4. r \in HalfDeleted(p)
  BY <1>1, <1>3 DEF HalfDeleted, At
<1> QED
  BY <1>4

\* A process is killed, or gets a signal; a file operation fails.
LEMMA FaultDeep ==
    ASSUME Careful, DeepInv, RSInv', NEW p \in Proc, doubt' = doubt \cup HalfDeleted(p),
           Interrupted(p)
    PROVE  DeepInv'
<1> DEFINE s == proc[p]
<1>1. RSInv /\ s \in Memory /\ Sound(s)
  BY DEF DeepInv, RSInv
<1>2. /\ loose' = loose /\ packed' = packed /\ fresh' = fresh /\ doubt \subseteq doubt'
  BY DEF Interrupted, Killed, remove_tempfiles_on_signal, CallFails, Fault, files
<1>3. \A q \in Proc \ {p} : proc'[q] = proc[q]
  BY <1>1 DEF Interrupted, Killed, remove_tempfiles_on_signal, CallFails, Become, RSInv
<1>4. CASE CallFails(p)
  <2>1. Become(p, Fail(s)) /\ UNCHANGED files
    BY <1>4 DEF CallFails
  <2>2. Changes(s)
    BY <1>1, <1>4 DEF CallFails, At, Sound, Changes
  <2>3. Leaves(p)
    BY <2>1, OwnStep
  <2> QED
    BY <1>2, <2>1, <2>2, <2>3, HalfGoing, FailStep
<1>5. CASE Killed(p)
  <2>1. Become(p, Idle)
    BY <1>5 DEF Killed
  <2>2. /\ \A r \in Ref : reflock'[r] = IF reflock[r] = p THEN Stale ELSE reflock[r]
        /\ packlock' = IF packlock = p THEN Stale ELSE packlock
        /\ staging' = IF staging.by = p THEN [NoStaging EXCEPT !.by = Stale] ELSE staging
    BY <1>5 DEF Killed
  <2>3. staging.by = p => staging'.by = Stale
    BY <2>2 DEF NoStaging
  <2>4. Leaves(p)
    BY <1>3, <2>2, <2>3, Constants DEF Leaves
  <2> QED
    BY <1>2, <2>1, <2>4, HalfGoing, ToIdle
<1>6. CASE remove_tempfiles_on_signal(p)
  <2>1. Become(p, Idle) /\ s.linger = {}
    BY <1>6 DEF remove_tempfiles_on_signal, Careful
  <2>2. /\ \A r \in Ref : reflock'[r] = IF reflock[r] = p THEN Free ELSE reflock[r]
        /\ packlock' = IF packlock = p THEN Free ELSE packlock
        /\ staging' = IF staging.by = p THEN NoStaging ELSE staging
    BY <1>6, <2>1 DEF remove_tempfiles_on_signal
  <2>3. staging.by = p => staging'.by = Free
    BY <2>2 DEF NoStaging
  <2>4. Leaves(p)
    BY <1>3, <2>2, <2>3, Constants DEF Leaves
  <2> QED
    BY <1>2, <2>1, <2>4, HalfGoing, ToIdle
<1> QED
  BY <1>4, <1>5, <1>6 DEF Interrupted

\* A step of no process: the user removes a lock file nobody holds.
LEMMA NobodyDeep ==
    ASSUME DeepInv, RSInv', proc' = proc, loose' = loose, packed' = packed, doubt' = doubt,
           fresh' = fresh, Leaves(Free)
    PROVE  DeepInv'
<1>1. Touches(Free) /\ Free \notin Proc
  BY Constants DEF Touches
<1>2. \A q \in Proc : Follows(proc[q], proc'[q]) /\ Narrows(proc[q], proc'[q])
  BY DEF Follows, Narrows
<1>3. Unwritten'
  BY <1>2, UnwrittenKept
<1>4. \A r \in Going(proc, staging.by) : r \in Going(proc', staging'.by)
  BY <1>1, GoingKept
<1>5. Known'
  BY <1>2, <1>4, KnownKept
<1>6. \A q \in Proc : /\ Holds(q, proc'[q], reflock', packlock')
                      /\ Sees(q, proc'[q], reflock', loose', packed', staging', doubt')
  BY <1>1, OthersHold, OthersSee
<1> QED
  BY <1>3, <1>5, <1>6 DEF DeepInv

\* The user removes what a killed process has left: it is nobody's.
LEMMA UserDeep ==
    ASSUME DeepInv, RSInv', doubt' = doubt, UserRemovesStale
    PROVE  DeepInv'
<1>1. /\ proc' = proc /\ loose' = loose /\ packed' = packed /\ fresh' = fresh
  BY DEF UserRemovesStale, bounds
<1>2. Leaves(Free)
  <2>1. \A r \in Ref : reflock'[r] = reflock[r] \/ (reflock[r] = Stale /\ reflock'[r] = Free)
    BY DEF UserRemovesStale, DeepInv, RSInv, FilesOK
  <2>2. packlock' = packlock \/ (packlock = Stale /\ packlock' = Free)
    BY DEF UserRemovesStale
  <2>3. staging' = staging \/ (staging.by = Stale /\ staging'.by = Free)
    BY DEF UserRemovesStale, NoStaging
  <2> QED
    BY <1>1, <2>1, <2>2, <2>3, Constants DEF Leaves
<1> QED
  BY <1>1, <1>2, NobodyDeep

\* At the start no name has been handed out, and nothing is under way.
LEMMA InitDeep == RSInit => DeepInv
<1> SUFFICES ASSUME RSInit PROVE DeepInv
  OBVIOUS
<1>1. RSInv
  BY InitInv
<1>2. /\ \A p \in Proc : proc[p].op = "none" /\ proc[p].txn = <<>>
                         /\ \A r \in Ref : proc[p].cache[r] = Null
      /\ staging.by = Free /\ fresh = FirstOid
  BY DEF RSInit, Idle, NoStaging
<1>3. \A p \in Proc : /\ Holds(p, proc[p], reflock, packlock)
                      /\ Sees(p, proc[p], reflock, loose, packed, staging, doubt)
  BY <1>2, Constants DEF Holds, TxnHolds, PruneHolds, PackHolds, Changes, Sees
<1>4. Unwritten
  <2>1. FirstOid \in Nat /\ \A r \in Ref : /\ loose[r] < FirstOid /\ packed[r] < FirstOid
                                           /\ loose[r] \in Oid
    BY <1>1, RefStoreAssumption DEF RefStoreAssumption, RSInit, RSInv, FilesOK
  <2>2. \A r \in Ref : Null < FirstOid
    BY <2>1, Oids DEF Null
  <2>3. \A p \in Proc : NewOf(proc[p]) = {} /\ DOMAIN proc[p].txn = {}
    BY <1>2 DEF NewOf
  <2> QED
    BY <1>2, <2>1, <2>2, <2>3 DEF Unwritten
<1>5. Known
  BY <1>2 DEF Known, PackKnows, PruneKnows, Agree, Pending
<1> QED
  BY <1>1, <1>3, <1>4, <1>5 DEF DeepInv

\* What is read is handed over, and nothing is done by that.
LEMMA DeliverDoes ==
    ASSUME NEW s \in Memory, NEW v, NEW b, Looks(s), s.op # "none",
           Changes(s) => s.pos \in DOMAIN s.txn /\ s.txn[s.pos].ref \in Ref,
           v \in Oid, b \in BOOLEAN
    PROVE  Deliver(s, v, b).did = s.did
<1>1. CASE Changes(s)
  <2> DEFINE g == [s.got EXCEPT ![s.txn[s.pos].ref] = [val |-> v, packed |-> b]]
             u == [s EXCEPT !.got = g]
  <2>1. \/ Deliver(s, v, b) = Fail(s)
        \/ Deliver(s, v, b) = NextUpdate(u)
    BY <1>1 DEF Deliver, lock_ref_for_update, Changes, Memory
  <2>2. g \in [Ref -> [val : Oid \cup {Any}, packed : BOOLEAN]]
    BY <1>1 DEF Memory
  <2> HIDE DEF g
  <2>3. u \in Memory /\ u.txn = s.txn /\ u.pos = s.pos /\ u.did = s.did
    BY <2>2 DEF Memory
  <2> HIDE DEF u
  <2>4. NextUpdate(u).did = u.did
    BY <1>1, <2>3, NextUpdateIs DEF SameWork
  <2>5. Fail(s).did = s.did
    BY FailIs DEF SameWork
  <2> QED
    BY <2>1, <2>3, <2>4, <2>5
<1>2. CASE ~ Changes(s)
  <2>1. s.op \in {"pack", "iter", "read"}
    BY <1>2 DEF Memory, Changes
  <2> QED
    BY <2>1, DeliverReads
<1> QED
  BY <1>1, <1>2

\* The steps that read, lock, stage and clean up change no reference for good.
Prepares(p) ==
    \/ read_lstat(p) \/ read_open(p) \/ packed_read_raw_ref(p)
    \/ loose_fill_ref_dir(p) \/ packed_ref_iterator_begin(p) \/ ReadReturns(p)
    \/ lock_raw_ref(p) \/ packed_refs_lock(p)
    \/ should_pack_refs(p) \/ write_with_updates(p)
    \/ deactivate_tempfile(p) \/ files_transaction_finish(p)
    \/ unlock_ref(p) \/ packed_transaction_cleanup(p)
    \/ packed_refs_unlock(p) \/ files_transaction_cleanup(p)

\* None of them ends the doubt about a reference.
LEMMA NoneSettled ==
    ASSUME DeepInv, NEW p \in Proc, Prepares(p)
    PROVE  Settled(p) = {}
<1> DEFINE s == proc[p]
<1>1. s \in Memory /\ Sound(s) /\ RSInv
  BY DEF DeepInv, RSInv
<1>2. \A t : Become(p, t) => proc'[p] = t
  BY <1>1 DEF Become, RSInv
<1>3. SUFFICES s.op # "txn" \/ proc'[p].did \subseteq s.did
  BY DEF Settled
<1>4. Idle.did = {}
  BY DEF Idle
<1>5. Fail(s).did = s.did
  BY <1>1, FailIs DEF SameWork
<1>6. CASE read_lstat(p) \/ read_open(p) \/ packed_read_raw_ref(p)
  <2>1. Looks(s)
    BY <1>6 DEF read_lstat, read_open, packed_read_raw_ref, At, Looks
  <2>2. Changes(s) => s.pos \in DOMAIN s.txn /\ s.txn[s.pos].ref \in Ref
    BY <1>1, <2>1, TxnFacts DEF Sound
  <2>3. s.op # "none" /\ s.target \in Ref
    BY <1>1, <2>1 DEF Sound
  <2>4. \A v \in Oid, b \in BOOLEAN : Deliver(s, v, b).did = s.did
    BY <1>1, <2>1, <2>2, <2>3, DeliverDoes
  <2>5. loose[s.target] \in Oid /\ packed[s.target] \in Oid
    BY <1>1, <2>3 DEF RSInv, FilesOK
  <2>6. CASE read_lstat(p)
    <3> DEFINE c == IF loose[s.target] = Null THEN "readpacked" ELSE "open"
               t == [s EXCEPT !.tries = @ + 1, !.pc = c]
    <3>1. Become(p, Deliver(s, Null, FALSE)) \/ Become(p, t)
      BY <2>6 DEF read_lstat
    <3>2. t.did = s.did
      BY <1>1 DEF Memory
    <3> QED
      BY <1>2, <2>4, <3>1, <3>2, Constants
  <2>7. CASE read_open(p)
    <3>1. Become(p, Deliver(s, loose[s.target], FALSE)) \/ Become(p, [s EXCEPT !.pc = "stat"])
      BY <2>7 DEF read_open
    <3>2. [s EXCEPT !.pc = "stat"].did = s.did
      BY <1>1 DEF Memory
    <3> QED
      BY <1>2, <2>4, <2>5, <3>1, <3>2
  <2>8. CASE packed_read_raw_ref(p)
    <3>1. Become(p, Deliver(s, packed[s.target], packed[s.target] # Null))
      BY <2>8 DEF packed_read_raw_ref
    <3> QED
      BY <1>2, <2>4, <2>5, <3>1
  <2> QED
    BY <1>6, <2>6, <2>7, <2>8
<1>7. CASE \/ loose_fill_ref_dir(p) \/ packed_ref_iterator_begin(p) \/ ReadReturns(p)
           \/ should_pack_refs(p)
  BY <1>1, <1>7 DEF loose_fill_ref_dir, packed_ref_iterator_begin, ReadReturns,
                    should_pack_refs, Sound, At
<1>8. CASE lock_raw_ref(p)
  <2> DEFINE t == [s EXCEPT !.pc = "stat", !.target = s.txn[s.pos].ref, !.tries = 0]
  <2>1. Become(p, t) \/ Become(p, Fail(s))
    BY <1>8 DEF lock_raw_ref
  <2>2. t.did = s.did
    BY <1>1 DEF Memory
  <2> QED
    BY <1>2, <1>5, <2>1, <2>2
<1>9. CASE packed_refs_lock(p)
  <2>1. PICK c : Become(p, [s EXCEPT !.pc = c]) \/ Become(p, Fail(s)) \/ Become(p, Idle)
    BY <1>9 DEF packed_refs_lock
  <2>2. [s EXCEPT !.pc = c].did = s.did
    BY <1>1 DEF Memory
  <2> QED
    BY <1>2, <1>4, <1>5, <2>1, <2>2
<1>10. CASE write_with_updates(p)
  <2>1. PICK c : Become(p, [s EXCEPT !.pc = c]) \/ Become(p, Fail(s)) \/ Become(p, Idle)
    BY <1>10 DEF write_with_updates
  <2>2. [s EXCEPT !.pc = c].did = s.did
    BY <1>1 DEF Memory
  <2> QED
    BY <1>2, <1>4, <1>5, <2>1, <2>2
<1>11. CASE deactivate_tempfile(p)
  <2>1. Become(p, [s EXCEPT !.linger = {}]) /\ [s EXCEPT !.linger = {}].did = s.did
    BY <1>1, <1>11 DEF deactivate_tempfile, Memory
  <2> QED
    BY <1>2, <2>1
<1>12. CASE files_transaction_finish(p)
  <2>1. Become(p, [s EXCEPT !.pc = "cleanup"]) /\ [s EXCEPT !.pc = "cleanup"].did = s.did
    BY <1>1, <1>12 DEF files_transaction_finish, Memory
  <2> QED
    BY <1>2, <2>1
<1>13. CASE unlock_ref(p) \/ packed_transaction_cleanup(p)
  BY <1>13 DEF unlock_ref, packed_transaction_cleanup
<1>14. CASE packed_refs_unlock(p) \/ files_transaction_cleanup(p)
  <2>1. s.op = "txn" => Become(p, Idle)
    BY <1>1, <1>14 DEF packed_refs_unlock, files_transaction_cleanup, At, Sound
  <2> QED
    BY <1>2, <1>4, <2>1
<1> QED
  BY <1>6, <1>7, <1>8, <1>9, <1>10, <1>11, <1>12, <1>13, <1>14 DEF Prepares

\* Every step of a careful store preserves the invariant.
LEMMA NextDeep ==
    ASSUME Careful, DeepInv, [RSNext]_rsVars
    PROVE  DeepInv'
<1>1. RSInv'
  BY NextInv DEF DeepInv
<1>2. ASSUME NEW p \in Proc, Run(p) PROVE DeepInv'
  <2>1. Step(p) /\ doubt' = doubt \ Settled(p)
    BY <1>2 DEF Run
  <2>2. CASE Prepares(p)
    <3>1. doubt' = doubt
      BY <2>1, <2>2, NoneSettled
    <3> QED
      BY <1>1, <2>2, <3>1, ReadDeep, FillDeep, ReaderDeep, LockDeep, PackedLockDeep,
         ShouldPackDeep, StageDeep, FinishDeep, CleanupDeep DEF Prepares
  <2>3. CASE commit_ref(p)
    BY <1>1, <2>1, <2>3, CommitDeep
  <2>4. CASE unlink_loose(p)
    BY <1>1, <2>1, <2>4, UnlinkDeep
  <2>5. CASE packed_transaction_finish(p)
    BY <1>1, <2>1, <2>5, ReplaceIs, PackReplaceDeep, TxnReplaceDeep
  <2> QED
    BY <2>1, <2>2, <2>3, <2>4, <2>5 DEF Step, Prepares
<1>3. ASSUME NEW p \in Proc, Start(p), doubt' = doubt PROVE DeepInv'
  BY <1>1, <1>3, StartOther, StartTransaction DEF Start
<1>4. ASSUME NEW p \in Proc, Interrupted(p), doubt' = doubt \cup HalfDeleted(p) PROVE DeepInv'
  BY <1>1, <1>4, FaultDeep
<1>5. CASE UserRemovesStale /\ doubt' = doubt
  BY <1>1, <1>5, UserDeep
<1>6. CASE UNCHANGED rsVars
  <2>1. /\ proc' = proc /\ loose' = loose /\ packed' = packed /\ doubt' = doubt
        /\ fresh' = fresh /\ reflock' = reflock /\ packlock' = packlock /\ staging' = staging
    BY <1>6 DEF rsVars, files, bounds
  <2>2. Leaves(Free)
    BY <2>1 DEF Leaves
  <2> QED
    BY <1>1, <2>1, <2>2, NobodyDeep
<1> QED
  BY <1>2, <1>3, <1>4, <1>5, <1>6 DEF RSNext

-----------------------------------------------------------------------------
(***************************************************************************)
(* The refinement: what each step is to RefMap.                            *)
(***************************************************************************)

\* The invariant holds of a careful store.
THEOREM StoreDeepInvariant ==
    ASSUME Careful
    PROVE  RSSpec => []DeepInv
<1>1. DeepInv /\ [RSNext]_rsVars => DeepInv'
  BY NextDeep
<1> QED
  BY <1>1, InitDeep, PTL DEF RSSpec

\* The value of a reference, and the claims of a process, from files and memory.
Val(l, k, r) == IF l[r] # Null THEN l[r] ELSE k[r]

\* The entries under way, and the claim each of them is to RefMap.
Live(p, s, locks) == { i \in Standing(p, s, locks) : s.op = "txn" /\ s.txn[i].new # Keep }

ClaimOn(s, i) == [ref |-> s.txn[i].ref, seen |-> s.got[s.txn[i].ref].val, new |-> s.txn[i].new]

Claims(p, s, locks) == { ClaimOn(s, i) : i \in Live(p, s, locks) }

\* What RefMap sees of the files and of the memory, before and after a step.
LEMMA Mapped ==
    /\ \A r \in Ref : Value(r) = Val(loose, packed, r) /\ Value(r)' = Val(loose', packed', r)
    /\ \A p \in Proc : /\ ClaimsOf(p) = Claims(p, proc[p], reflock)
                       /\ ClaimsOf(p)' = Claims(p, proc'[p], reflock')
<1>1. \A r \in Ref : Value(r) = Val(loose, packed, r) /\ Value(r)' = Val(loose', packed', r)
  BY DEF Value, Val
<1>2. ASSUME NEW p \in Proc PROVE ClaimsOf(p) = Claims(p, proc[p], reflock)
  BY DEF ClaimsOf, Claims, ClaimOn, Live, Standing
<1>3. ASSUME NEW p \in Proc PROVE ClaimsOf(p)' = Claims(p, proc'[p], reflock')
  BY DEF ClaimsOf, Claims, ClaimOn, Live, Standing
<1> QED
  BY <1>1, <1>2, <1>3

\* Claims of p given up, and references left in doubt, while no value changes.
LEMMA MapRelease ==
    ASSUME NEW p \in Proc, loose' = loose, packed' = packed,
           \A q \in Proc \ {p} : Claims(q, proc'[q], reflock') = Claims(q, proc[q], reflock),
           Claims(p, proc'[p], reflock') \subseteq Claims(p, proc[p], reflock),
           doubt \subseteq doubt',
           doubt' \subseteq doubt \cup { c.ref : c \in Claims(p, proc[p], reflock) }
    PROVE  Map!MapNext
<1> DEFINE old == Claims(p, proc[p], reflock)
           new == Claims(p, proc'[p], reflock')
           f == [q \in Proc |-> ClaimsOf(q)]
<1>1. f \in [Proc -> {f[q] : q \in Proc}] /\ f[p] = old /\ \A q \in Proc : f[q] = ClaimsOf(q)
  BY Mapped
<1>2. [q \in Proc |-> ClaimsOf(q)]' = [q \in Proc |-> Claims(q, proc'[q], reflock')]
  BY Mapped
<1>3. [r \in Ref |-> Value(r)]' = [r \in Ref |-> Value(r)]
  BY Mapped
<1>4. new = old \ (old \ new)
  OBVIOUS
<1>5. [q \in Proc |-> ClaimsOf(q)]' = [f EXCEPT ![p] = f[p] \ (old \ new)]
  BY <1>1, <1>2, <1>4, Mapped
<1>6. Map!Release(p, old \ new)
  BY <1>1, <1>3, <1>5 DEF Map!Release
<1>7. (old \ new) \in SUBSET f[p]
  BY <1>1
<1> QED
  BY <1>6, <1>7 DEF Map!MapNext

\* Values change only where p applies claims it holds, and where there is doubt.
LEMMA MapApply ==
    ASSUME RSInv', NEW p \in Proc,
           \A q \in Proc \ {p} : Claims(q, proc'[q], reflock') = Claims(q, proc[q], reflock),
           NEW S \in SUBSET Claims(p, proc[p], reflock),
           Claims(p, proc'[p], reflock') = Claims(p, proc[p], reflock) \ S,
           \A c \in S : /\ c.ref \in Ref /\ Val(loose', packed', c.ref) = c.new
                        /\ Val(loose, packed, c.ref) = c.seen \/ c.ref \in doubt,
           \A r \in Ref : r \notin { c.ref : c \in S } \cup doubt =>
               Val(loose', packed', r) = Val(loose, packed, r),
           doubt' \subseteq doubt
    PROVE  Map!MapNext
<1> DEFINE f == [q \in Proc |-> ClaimsOf(q)]
           v == [r \in Ref |-> Value(r)]
<1>1. f[p] = Claims(p, proc[p], reflock) /\ \A q \in Proc : f[q] = ClaimsOf(q)
  BY Mapped
<1>2. [q \in Proc |-> ClaimsOf(q)]' = [f EXCEPT ![p] = f[p] \ S]
  <2>1. [q \in Proc |-> ClaimsOf(q)]' = [q \in Proc |-> Claims(q, proc'[q], reflock')]
    BY Mapped
  <2> QED
    BY <1>1, <2>1, Mapped
<1>3. \A r \in Ref : v[r] = Val(loose, packed, r) /\ v'[r] = Val(loose', packed', r)
  BY Mapped
<1>4. v' \in [Ref -> Oid]
  BY DEF RSInv, FilesOK, Value
<1> HIDE DEF v
<1>5. \A c \in S : (v[c.ref] = c.seen \/ c.ref \in doubt) /\ v'[c.ref] = c.new
  BY <1>3
<1>6. \A r \in Ref \ ({ c.ref : c \in S } \cup doubt) : v'[r] = v[r]
  BY <1>3
<1>7. Map!Apply(p, S)
  BY <1>2, <1>4, <1>5, <1>6 DEF Map!Apply, Map!OnlyChange, v
<1>8. S \in SUBSET f[p]
  BY <1>1
<1> QED
  BY <1>7, <1>8 DEF Map!MapNext

\* A reference in doubt comes or goes; claims are as they were.
LEMMA MapWaver ==
    ASSUME RSInv',
           \A q \in Proc : Claims(q, proc'[q], reflock') = Claims(q, proc[q], reflock),
           \A r \in Ref : r \notin doubt => Val(loose', packed', r) = Val(loose, packed, r),
           doubt' \subseteq doubt
    PROVE  Map!MapNext
<1> DEFINE f == [q \in Proc |-> ClaimsOf(q)]
           v == [r \in Ref |-> Value(r)]
<1>1. f' = f
  BY Mapped
<1>2. v' \in [Ref -> Oid]
  BY DEF RSInv, FilesOK, Value
<1>3. \A r \in Ref \ doubt : v'[r] = v[r]
  BY Mapped
<1> HIDE DEF v
<1>4. Map!Waver
  BY <1>1, <1>2, <1>3 DEF Map!Waver, Map!OnlyChange, v
<1> QED
  BY <1>4 DEF Map!MapNext

\* p claims a reference nobody has a claim on, having seen its value.
LEMMA MapClaim ==
    ASSUME NEW p \in Proc, NEW x \in Ref, NEW w \in Oid,
           loose' = loose, packed' = packed, doubt' = doubt,
           \A q \in Proc \ {p} : Claims(q, proc'[q], reflock') = Claims(q, proc[q], reflock),
           \A q \in Proc : \A c \in Claims(q, proc[q], reflock) : c.ref # x,
           Claims(p, proc'[p], reflock') = Claims(p, proc[p], reflock)
               \cup {[ref |-> x, seen |-> Val(loose, packed, x), new |-> w]}
    PROVE  Map!MapNext
<1> DEFINE f == [q \in Proc |-> ClaimsOf(q)]
           v == [r \in Ref |-> Value(r)]
           c == [ref |-> x, seen |-> Val(loose, packed, x), new |-> w]
<1>1. f[p] = Claims(p, proc[p], reflock) /\ \A q \in Proc : f[q] = ClaimsOf(q)
  BY Mapped
<1>2. v' = v /\ v[x] = Val(loose, packed, x)
  BY Mapped
<1>3. c = [ref |-> x, seen |-> v[x], new |-> w]
  BY <1>2
<1> HIDE DEF c
<1>4. [q \in Proc |-> ClaimsOf(q)]' = [f EXCEPT ![p] = f[p] \cup {c}]
  <2>1. [q \in Proc |-> ClaimsOf(q)]' = [q \in Proc |-> Claims(q, proc'[q], reflock')]
    BY Mapped
  <2> QED
    BY <1>1, <2>1, Mapped DEF c
<1>5. x \notin Map!Claimed
  <2>1. \A q \in Proc : \A d \in f[q] : d.ref # x
    BY <1>1, Mapped
  <2> QED
    BY <2>1 DEF Map!Claimed
<1>6. Map!Claim(p, x, w)
  BY <1>2, <1>3, <1>4, <1>5 DEF Map!Claim
<1> QED
  BY <1>6 DEF Map!MapNext

\* Others' claims are theirs.
LEMMA OthersClaims ==
    ASSUME DeepInv, NEW p, Leaves(p), NEW q \in Proc \ {p}
    PROVE  Claims(q, proc'[q], reflock') = Claims(q, proc[q], reflock)
<1>1. proc'[q] = proc[q] /\ \A r \in Ref : reflock'[r] = q <=> reflock[r] = q
  BY DEF Leaves
<1>2. \A i \in DOMAIN proc[q].txn : proc[q].txn[i].ref \in Ref
  BY TxnFacts DEF DeepInv, RSInv
<1>3. Live(q, proc'[q], reflock') = Live(q, proc[q], reflock)
  BY <1>1, <1>2 DEF Live, Standing
<1> QED
  BY <1>1, <1>3 DEF Claims

\* A process that does not change references claims none.
LEMMA NoClaims ==
    ASSUME NEW p, NEW s, NEW locks, s.op # "txn"
    PROVE  Claims(p, s, locks) = {}
BY DEF Claims, Live

\* Claims are kept, or given up, as long as the same work goes on.
LEMMA FewerClaims ==
    ASSUME NEW p, NEW s \in Memory, NEW t, NEW locks, NEW after,
           t.op = s.op, t.txn = s.txn, t.got = s.got, s.did \subseteq t.did,
           \A r \in Ref : after[r] = p => locks[r] = p \/ s.got[r] = Unread
    PROVE  Claims(p, t, after) \subseteq Claims(p, s, locks)
<1>1. \A i \in DOMAIN s.txn : s.txn[i].ref \in Ref
  BY TxnFacts
<1>2. Live(p, t, after) \subseteq Live(p, s, locks)
  BY <1>1 DEF Live, Standing
<1>3. \A i : ClaimOn(t, i) = ClaimOn(s, i)
  BY DEF ClaimOn
<1> QED
  BY <1>2, <1>3 DEF Claims

\* The steps that change no value leave everything to the others, and take
\* no lock but of a reference still to be read.
LEMMA PreparesLeaves ==
    ASSUME DeepInv, NEW p \in Proc, Prepares(p)
    PROVE  /\ Leaves(p) /\ loose' = loose /\ packed' = packed /\ fresh' = fresh
           /\ \A r \in Ref : reflock'[r] = p => reflock[r] = p \/ proc[p].got[r] = Unread
<1> DEFINE s == proc[p]
<1>1. /\ s \in Memory /\ RSInv /\ Sound(s) /\ Holds(p, s, reflock, packlock)
      /\ Tied(p, s, reflock, packlock, staging.by)
  BY DEF DeepInv, RSInv
<1>2. /\ loose' = loose /\ packed' = packed /\ fresh' = fresh
  BY DEF Prepares, read_lstat, read_open, packed_read_raw_ref, loose_fill_ref_dir,
         packed_ref_iterator_begin, ReadReturns, lock_raw_ref, packed_refs_lock,
         should_pack_refs, write_with_updates, deactivate_tempfile, files_transaction_finish,
         unlock_ref, packed_transaction_cleanup, packed_refs_unlock,
         files_transaction_cleanup, files, bounds
<1>3. \A q \in Proc \ {p} : proc'[q] = proc[q]
  <2>1. proc' = proc \/ \E t : Become(p, t)
    BY DEF Prepares, read_lstat, read_open, packed_read_raw_ref, loose_fill_ref_dir,
           packed_ref_iterator_begin, ReadReturns, lock_raw_ref, packed_refs_lock,
           should_pack_refs, write_with_updates, deactivate_tempfile, files_transaction_finish,
           unlock_ref, packed_transaction_cleanup, packed_refs_unlock,
           files_transaction_cleanup
  <2> QED
    BY <1>1, <2>1 DEF Become, RSInv
<1>4. CASE UNCHANGED files
  BY <1>2, <1>3, <1>4 DEF Leaves, files
<1>5. CASE lock_raw_ref(p)
  <2> DEFINE x == s.txn[s.pos].ref
  <2>1. s.pc = "lock" /\ packlock' = packlock /\ staging' = staging
    BY <1>5 DEF lock_raw_ref, At
  <2>2. s.pos \in DOMAIN s.txn /\ Changes(s) /\ s.pos \in Nat /\ x \in Ref
    BY <1>1, <2>1, TxnFacts DEF Sound, Memory
  <2>3. s.got[x] = Unread
    BY <1>1, <2>1, <2>2 DEF Holds, TxnHolds
  <2>4. reflock' = reflock \/ (reflock[x] = Free /\ reflock' = [reflock EXCEPT ![x] = p])
    BY <1>5 DEF lock_raw_ref
  <2> HIDE DEF x
  <2>5. \A r \in Ref : reflock'[r] = reflock[r] \/ (r = x /\ reflock[r] = Free /\ reflock'[r] = p)
    BY <1>1, <2>4 DEF RSInv, FilesOK
  <2> QED
    BY <1>2, <1>3, <2>1, <2>3, <2>5, Constants DEF Leaves
<1>6. CASE packed_refs_lock(p) \/ packed_refs_unlock(p)
  <2>1. reflock' = reflock /\ staging' = staging
    BY <1>6 DEF packed_refs_lock, packed_refs_unlock
  <2>2. \/ packlock' = packlock \/ (packlock = Free /\ packlock' = p)
        \/ (packlock = p /\ packlock' = Free)
    BY <1>6 DEF packed_refs_lock, packed_refs_unlock
  <2> QED
    BY <1>2, <1>3, <2>1, <2>2, Constants DEF Leaves
<1>7. CASE write_with_updates(p)
  <2>1. reflock' = reflock /\ packlock = p
    BY <1>1, <1>7 DEF write_with_updates, At, Tied
  <2>2. packlock' \in {packlock, Free}
    BY <1>7 DEF write_with_updates
  <2>3. staging' = staging \/ (staging.by = Free /\ staging'.by = p)
    BY <1>7 DEF write_with_updates
  <2> QED
    BY <1>2, <1>3, <2>1, <2>2, <2>3, Constants DEF Leaves
<1>8. CASE packed_transaction_cleanup(p)
  <2>1. reflock' = reflock /\ packlock' = packlock /\ staging.by = p /\ staging'.by = Free
    BY <1>8 DEF packed_transaction_cleanup, NoStaging
  <2> QED
    BY <1>2, <1>3, <2>1, Constants DEF Leaves
<1>9. CASE unlock_ref(p)
  <2> DEFINE i == First(HeldLocks(p))
             x == s.txn[i].ref
  <2>1. /\ packlock' = packlock /\ staging' = staging
        /\ reflock' = [reflock EXCEPT ![x] = Free] /\ HeldLocks(p) # {}
    BY <1>9 DEF unlock_ref
  <2>2. HeldLocks(p) \subseteq Nat
    BY <1>1, TxnFacts DEF HeldLocks
  <2>3. i \in HeldLocks(p)
    BY <2>1, <2>2, FirstIn
  <2>4. reflock[x] = p
    BY <2>3 DEF HeldLocks
  <2> HIDE DEF x
  <2>5. \A r \in Ref : reflock'[r] = reflock[r] \/ (reflock[r] = p /\ reflock'[r] = Free)
    BY <1>1, <2>1, <2>4 DEF RSInv, FilesOK
  <2> QED
    BY <1>2, <1>3, <2>1, <2>5, Constants DEF Leaves
<1> QED
  BY <1>4, <1>5, <1>6, <1>7, <1>8, <1>9
     DEF Prepares, read_lstat, read_open, packed_read_raw_ref, loose_fill_ref_dir,
         packed_ref_iterator_begin, ReadReturns, should_pack_refs, deactivate_tempfile,
         files_transaction_finish, files_transaction_cleanup

\* What they leave of a transaction in memory, when it is not reading.
LEMMA PreparesKeeps ==
    ASSUME DeepInv, NEW p \in Proc, Prepares(p), ~ Looks(proc[p])
    PROVE  \/ proc'[p].op # "txn"
           \/ /\ proc'[p].op = proc[p].op /\ proc'[p].txn = proc[p].txn
              /\ proc'[p].got = proc[p].got /\ proc'[p].did = proc[p].did
<1> DEFINE s == proc[p]
           Same(t) == /\ t.op = s.op /\ t.txn = s.txn /\ t.got = s.got /\ t.did = s.did
<1>1. s \in Memory /\ Sound(s) /\ RSInv
  BY DEF DeepInv, RSInv
<1>2. \A t : Become(p, t) => proc'[p] = t
  BY <1>1 DEF Become, RSInv
<1>3. Idle.op = "none"
  BY DEF Idle
<1>4. Same(Fail(s))
  BY <1>1, FailIs DEF SameWork
<1>5. \A c : Same([s EXCEPT !.pc = c])
  BY <1>1 DEF Memory
<1>6. CASE \/ packed_refs_lock(p) \/ should_pack_refs(p) \/ write_with_updates(p)
           \/ files_transaction_finish(p)
  <2>1. PICK c : Become(p, [s EXCEPT !.pc = c]) \/ Become(p, Fail(s)) \/ Become(p, Idle)
    BY <1>6 DEF packed_refs_lock, should_pack_refs, write_with_updates,
                files_transaction_finish
  <2> DEFINE t == [s EXCEPT !.pc = c]
  <2>2. Same(t) /\ (Become(p, t) \/ Become(p, Fail(s)) \/ Become(p, Idle))
    BY <1>5, <2>1
  <2> HIDE DEF t
  <2> QED
    BY <1>2, <1>3, <1>4, <2>2
<1>7. CASE lock_raw_ref(p)
  <2> DEFINE t == [s EXCEPT !.pc = "stat", !.target = s.txn[s.pos].ref, !.tries = 0]
  <2>1. Become(p, t) \/ Become(p, Fail(s))
    BY <1>7 DEF lock_raw_ref
  <2>2. Same(t)
    BY <1>1 DEF Memory
  <2> QED
    BY <1>2, <1>4, <2>1, <2>2
<1>8. CASE loose_fill_ref_dir(p)
  <2>1. s.op \in {"pack", "iter"}
    BY <1>1, <1>8 DEF loose_fill_ref_dir, At, Sound
  <2>2. PICK r, c : Become(p, [s EXCEPT !.todo = @ \ {r}, !.target = r, !.tries = 0, !.pc = c])
    BY <1>8 DEF loose_fill_ref_dir
  <2>3. [s EXCEPT !.todo = @ \ {r}, !.target = r, !.tries = 0, !.pc = c].op = s.op
    BY <1>1 DEF Memory
  <2> QED
    BY <1>2, <2>1, <2>2, <2>3
<1>9. CASE packed_ref_iterator_begin(p)
  <2>1. s.op = "iter"
    BY <1>9 DEF packed_ref_iterator_begin
  <2>2. PICK c : Become(p, [s EXCEPT !.pc = "return", !.cache = c])
    BY <1>9 DEF packed_ref_iterator_begin
  <2>3. [s EXCEPT !.pc = "return", !.cache = c].op = s.op
    BY <1>1 DEF Memory
  <2> QED
    BY <1>2, <2>1, <2>2, <2>3
<1>10. CASE ReadReturns(p)
  BY <1>2, <1>3, <1>10 DEF ReadReturns
<1>11. CASE deactivate_tempfile(p)
  <2>1. Become(p, [s EXCEPT !.linger = {}]) /\ Same([s EXCEPT !.linger = {}])
    BY <1>1, <1>11 DEF deactivate_tempfile, Memory
  <2> QED
    BY <1>2, <2>1
<1>12. CASE unlock_ref(p) \/ packed_transaction_cleanup(p)
  BY <1>12 DEF unlock_ref, packed_transaction_cleanup
<1>13. CASE packed_refs_unlock(p) \/ files_transaction_cleanup(p)
  <2>1. \/ Become(p, Idle)
        \/ \E w : \E n \in NextPrune(w) : Become(p, n)
    BY <1>13 DEF packed_refs_unlock, files_transaction_cleanup
  <2>2. ASSUME NEW w, NEW n \in NextPrune(w) PROVE n.op # "txn"
    <3>1. CASE n = Idle
      BY <1>3, <3>1
    <3>2. CASE n # Idle
      <4>1. PICK x, d, c : n = [Idle EXCEPT !.op = "prune", !.pc = "lock", !.pos = 1,
                                            !.todo = d, !.cache = c, !.txn = x]
        BY <3>2 DEF NextPrune
      <4> QED
        BY <4>1 DEF Idle
    <3> QED
      BY <3>1, <3>2
  <2> QED
    BY <1>2, <1>3, <2>1, <2>2
<1> QED
  BY <1>6, <1>7, <1>8, <1>9, <1>10, <1>11, <1>12, <1>13
     DEF Prepares, read_lstat, read_open, packed_read_raw_ref, At, Looks

\* A value read under the lock of a reference fails the check, or is noted.
LEMMA NotedIs ==
    ASSUME NEW s \in Memory, Changes(s), s.pos \in DOMAIN s.txn, NEW x \in Ref,
           s.txn[s.pos].ref = x, NEW v \in Oid, NEW b \in BOOLEAN
    PROVE  \/ Deliver(s, v, b) = Fail(s)
           \/ /\ SameWork(s, Deliver(s, v, b))
              /\ Deliver(s, v, b).got[x] = [val |-> v, packed |-> b]
              /\ \A r \in Ref : r # x => Deliver(s, v, b).got[r] = s.got[r]
<1> DEFINE g == [s.got EXCEPT ![x] = [val |-> v, packed |-> b]]
           u == [s EXCEPT !.got = g]
<1>1. \/ Deliver(s, v, b) = Fail(s)
      \/ Deliver(s, v, b) = NextUpdate(u)
  BY DEF Deliver, lock_ref_for_update, Changes, Memory
<1>2. g \in [Ref -> [val : Oid \cup {Any}, packed : BOOLEAN]]
      /\ g[x] = [val |-> v, packed |-> b] /\ \A r \in Ref : r # x => g[r] = s.got[r]
  BY DEF Memory
<1> HIDE DEF g
<1>3. u \in Memory /\ u.txn = s.txn /\ u.pos = s.pos /\ u.got = g /\ SameWork(s, u)
  BY <1>2 DEF Memory, SameWork
<1> HIDE DEF u
<1>4. SameWork(u, NextUpdate(u)) /\ NextUpdate(u).got = u.got
  BY <1>3, NextUpdateIs
<1>5. SameWork(s, NextUpdate(u))
  BY <1>3, <1>4 DEF SameWork
<1> QED
  BY <1>1, <1>2, <1>3, <1>4, <1>5

\* A transaction reads a reference under its lock: it fails, or the change is
\* claimed, with the very value the reference has.
LEMMA DeliverMap ==
    ASSUME DeepInv, NEW p \in Proc, proc[p].op = "txn", Looks(proc[p]),
           NEW v \in Oid, NEW b \in BOOLEAN, Become(p, Deliver(proc[p], v, b)),
           UNCHANGED files, doubt' = doubt,
           ~ b => loose[proc[p].target] = v, b => loose[proc[p].target] = Null,
           loose[proc[p].target] = Null => packed[proc[p].target] = v
    PROVE  Map!MapNext
<1> DEFINE s == proc[p]
           t == Deliver(s, v, b)
           x == s.target
<1>1. s \in Memory /\ Sound(s) /\ Holds(p, s, reflock, packlock) /\ Changes(s)
  BY DEF DeepInv, RSInv, Changes
<1>2. /\ s.pos \in DOMAIN s.txn /\ x = s.txn[s.pos].ref /\ reflock[x] = p /\ x \in Ref
      /\ s.did = {} /\ s.got[x] = Unread
  <2>1. s.pos \in Nat
    BY <1>1 DEF Memory
  <2> QED
    BY <1>1, <2>1 DEF Sound, Holds, TxnHolds, Looks
<1>3. /\ Leaves(p) /\ proc'[p] = t /\ reflock' = reflock /\ loose' = loose /\ packed' = packed
  BY OwnStep
<1>4. \A q \in Proc \ {p} : Claims(q, proc'[q], reflock') = Claims(q, proc[q], reflock)
  BY <1>3, OthersClaims
<1>5. CASE t = Fail(s)
  <2>1. SameWork(s, t) /\ t.got = s.got
    BY <1>1, <1>5, FailIs
  <2> HIDE DEF t
  <2>2. Claims(p, t, reflock') \subseteq Claims(p, s, reflock)
    BY <1>1, <1>3, <2>1, FewerClaims DEF SameWork
  <2> QED
    BY <1>3, <1>4, <2>2, MapRelease
<1>6. CASE t # Fail(s)
  <2>1. /\ SameWork(s, t) /\ t.got[x] = [val |-> v, packed |-> b]
        /\ \A r \in Ref : r # x => t.got[r] = s.got[r]
    BY <1>1, <1>2, <1>6, NotedIs
  <2> HIDE DEF t
  <2>2. t.got[x].val = v /\ t.got[x] # Unread
    BY <2>1, Constants DEF Unread
  <2>3. \A i \in DOMAIN s.txn : s.txn[i].ref \in Ref /\ (s.txn[i].ref = x <=> i = s.pos)
    BY <1>1, <1>2, TxnFacts DEF Holds, TxnHolds
  <2>4. Val(loose, packed, x) = v
    BY DEF Val
  <2>5. s.pos \notin Live(p, s, reflock)
    BY <1>2 DEF Live, Standing
  <2>6. \A i \in Live(p, s, reflock) : i \in DOMAIN s.txn /\ i # s.pos
    BY <2>5 DEF Live, Standing
  <2>7. Live(p, t, reflock) = Live(p, s, reflock)
                               \cup (IF s.txn[s.pos].new = Keep THEN {} ELSE {s.pos})
    <3>1. ASSUME NEW i \in DOMAIN s.txn
          PROVE  i \in Live(p, t, reflock) <=>
                    i \in Live(p, s, reflock) \/ (i = s.pos /\ s.txn[s.pos].new # Keep)
      <4>1. CASE i = s.pos
        BY <1>2, <2>1, <2>2, <2>5, <4>1 DEF Live, Standing, SameWork
      <4>2. CASE i # s.pos
        BY <2>1, <2>3, <4>2 DEF Live, Standing, SameWork
      <4> QED
        BY <4>1, <4>2
    <3>2. Live(p, t, reflock) \subseteq DOMAIN s.txn
      BY <2>1 DEF Live, Standing, SameWork
    <3> QED
      BY <1>2, <2>6, <3>1, <3>2
  <2>8. \A i \in Live(p, s, reflock) : ClaimOn(t, i) = ClaimOn(s, i)
    BY <2>1, <2>3, <2>6 DEF ClaimOn, SameWork
  <2>9. \A q \in Proc : \A c \in Claims(q, proc[q], reflock) : c.ref # x
    <3> SUFFICES ASSUME NEW q \in Proc, NEW i \in Live(q, proc[q], reflock)
                 PROVE  ClaimOn(proc[q], i).ref # x
      BY DEF Claims
    <3>1. CASE q = p
      BY <2>3, <2>6, <3>1 DEF ClaimOn
    <3>2. CASE q # p
      BY <1>2, <3>2 DEF ClaimOn, Live, Standing
    <3> QED
      BY <3>1, <3>2
  <2>10. CASE s.txn[s.pos].new = Keep
    <3>1. Claims(p, t, reflock) = Claims(p, s, reflock)
      BY <2>7, <2>8, <2>10 DEF Claims
    <3> QED
      BY <1>3, <1>4, <3>1, MapRelease
  <2>11. CASE s.txn[s.pos].new # Keep
    <3> DEFINE w == s.txn[s.pos].new
    <3>1. w \in Oid
      BY <1>1, <1>2, <2>11, TxnFacts
    <3>2. ClaimOn(t, s.pos) = [ref |-> x, seen |-> Val(loose, packed, x), new |-> w]
      BY <1>2, <2>1, <2>2, <2>4 DEF ClaimOn, SameWork
    <3>3. Claims(p, t, reflock) = Claims(p, s, reflock) \cup {ClaimOn(t, s.pos)}
      <4>1. Live(p, t, reflock) = Live(p, s, reflock) \cup {s.pos}
        BY <2>7, <2>11
      <4> QED
        BY <2>8, <4>1 DEF Claims
    <3> HIDE DEF w
    <3> QED
      BY <1>2, <1>3, <1>4, <2>9, <3>1, <3>2, <3>3, MapClaim
  <2> QED
    BY <2>10, <2>11
<1> QED
  BY <1>5, <1>6

\* Reading is a claim of RefMap, or no step of it.
LEMMA ReadMap ==
    ASSUME DeepInv, NEW p \in Proc, doubt' = doubt,
           read_lstat(p) \/ read_open(p) \/ packed_read_raw_ref(p)
    PROVE  Map!MapNext
<1> DEFINE s == proc[p]
           x == s.target
<1>1. /\ s \in Memory /\ Sound(s) /\ Looks(s) /\ RSInv
      /\ UNCHANGED files /\ s.op # "none"
      /\ Sees(p, s, reflock, loose, packed, staging, doubt)
  BY DEF DeepInv, RSInv, read_lstat, read_open, packed_read_raw_ref, At, Looks, Sound
<1>2. x \in Ref /\ loose[x] \in Oid /\ packed[x] \in Oid
  BY <1>1 DEF Sound, RSInv, FilesOK
<1>3. PICK t : Become(p, t)
  BY DEF read_lstat, read_open, packed_read_raw_ref
<1>4. /\ Leaves(p) /\ proc'[p] = t /\ reflock' = reflock /\ loose' = loose /\ packed' = packed
  BY <1>1, <1>3, OwnStep
<1>5. \A q \in Proc \ {p} : Claims(q, proc'[q], reflock') = Claims(q, proc[q], reflock)
  BY <1>4, OthersClaims
<1>6. ASSUME t.op = s.op, t.txn = s.txn, t.got = s.got, t.did = s.did
      PROVE  Map!MapNext
  <2>1. Claims(p, t, reflock') \subseteq Claims(p, s, reflock)
    BY <1>1, <1>4, <1>6, FewerClaims
  <2> QED
    BY <1>4, <1>5, <2>1, MapRelease
<1>7. ASSUME NEW v \in Oid, NEW b \in BOOLEAN, Become(p, Deliver(s, v, b)),
             s.op = "txn" => /\ ~ b => loose[x] = v
                             /\ b => loose[x] = Null
                             /\ loose[x] = Null => packed[x] = v
      PROVE  Map!MapNext
  <2>1. CASE s.op = "txn"
    BY <1>1, <1>7, <2>1, DeliverMap
  <2>2. CASE s.op # "txn"
    <3>1. t = Deliver(s, v, b)
      BY <1>1, <1>4, <1>7 DEF Become, RSInv
    <3>2. t.op = s.op
      BY <1>1, <3>1, DeliverSound
    <3>3. Claims(p, t, reflock') = {}
      BY <2>2, <3>2, NoClaims
    <3> QED
      BY <1>4, <1>5, <3>3, MapRelease
  <2> QED
    BY <2>1, <2>2
<1>8. CASE read_lstat(p)
  <2>1. s.op = "txn" => s.tries = 0
    BY <1>1, <1>8 DEF read_lstat, At, Sees, Changes
  <2>2. CASE s.tries = ReadTries
    <3>1. Become(p, Deliver(s, Null, FALSE))
      BY <1>8, <2>2 DEF read_lstat
    <3>2. s.op # "txn"
      BY <2>1, <2>2 DEF ReadTries
    <3> QED
      BY <1>7, <3>1, <3>2, Constants
  <2>3. CASE s.tries # ReadTries
    <3> DEFINE c == IF loose[x] = Null THEN "readpacked" ELSE "open"
               w == [s EXCEPT !.tries = @ + 1, !.pc = c]
    <3>1. Become(p, w)
      BY <1>8, <2>3 DEF read_lstat
    <3>2. w.op = s.op /\ w.txn = s.txn /\ w.got = s.got /\ w.did = s.did
      BY <1>1 DEF Memory
    <3> HIDE DEF w
    <3>3. t = w
      BY <1>1, <1>4, <3>1 DEF Become, RSInv
    <3> QED
      BY <1>6, <3>2, <3>3
  <2> QED
    BY <2>2, <2>3
<1>9. CASE read_open(p)
  <2>1. s.op = "txn" => loose[x] # Null
    BY <1>1, <1>9 DEF read_open, At, Sees, Changes
  <2>2. CASE loose[x] = Null
    <3> DEFINE w == [s EXCEPT !.pc = "stat"]
    <3>1. Become(p, w)
      BY <1>9, <2>2 DEF read_open
    <3>2. w.op = s.op /\ w.txn = s.txn /\ w.got = s.got /\ w.did = s.did
      BY <1>1 DEF Memory
    <3> HIDE DEF w
    <3>3. t = w
      BY <1>1, <1>4, <3>1 DEF Become, RSInv
    <3> QED
      BY <1>6, <3>2, <3>3
  <2>3. CASE loose[x] # Null
    <3>1. Become(p, Deliver(s, loose[x], FALSE))
      BY <1>9, <2>3 DEF read_open
    <3> QED
      BY <1>2, <1>7, <2>3, <3>1
  <2> QED
    BY <2>2, <2>3
<1>10. CASE packed_read_raw_ref(p)
  <2>1. s.op = "txn" => loose[x] = Null
    BY <1>1, <1>10 DEF packed_read_raw_ref, At, Sees, Changes
  <2>2. Become(p, Deliver(s, packed[x], packed[x] # Null))
    BY <1>10 DEF packed_read_raw_ref
  <2> QED
    BY <1>2, <1>7, <2>1, <2>2
<1> QED
  BY <1>8, <1>9, <1>10

\* Locking, staging, cleaning up: at most claims are given up.
LEMMA PreparesMap ==
    ASSUME DeepInv, NEW p \in Proc, doubt' = doubt, Prepares(p)
    PROVE  Map!MapNext
<1> DEFINE s == proc[p]
<1>1. CASE Looks(s)
  <2>1. read_lstat(p) \/ read_open(p) \/ packed_read_raw_ref(p)
    <3>1. RSInv /\ Sound(s)
      BY DEF DeepInv, RSInv
    <3> QED
      BY <1>1, <3>1 DEF Looks, Prepares, loose_fill_ref_dir, packed_ref_iterator_begin,
         ReadReturns, lock_raw_ref, packed_refs_lock, should_pack_refs, write_with_updates,
         deactivate_tempfile, files_transaction_finish, unlock_ref,
         packed_transaction_cleanup, packed_refs_unlock, files_transaction_cleanup, At
  <2> QED
    BY <2>1, ReadMap
<1>2. CASE ~ Looks(s)
  <2>1. /\ Leaves(p) /\ loose' = loose /\ packed' = packed
        /\ \A r \in Ref : reflock'[r] = p => reflock[r] = p \/ s.got[r] = Unread
    BY PreparesLeaves
  <2>2. \A q \in Proc \ {p} : Claims(q, proc'[q], reflock') = Claims(q, proc[q], reflock)
    BY <2>1, OthersClaims
  <2>3. Claims(p, proc'[p], reflock') \subseteq Claims(p, s, reflock)
    <3>1. s \in Memory
      BY DEF DeepInv, RSInv
    <3>2. CASE proc'[p].op # "txn"
      BY <3>2, NoClaims
    <3>3. CASE /\ proc'[p].op = s.op /\ proc'[p].txn = s.txn
               /\ proc'[p].got = s.got /\ proc'[p].did = s.did
      BY <2>1, <3>1, <3>3, FewerClaims
    <3> QED
      BY <1>2, <3>2, <3>3, PreparesKeeps
  <2> QED
    BY <2>1, <2>2, <2>3, MapRelease
<1> QED
  BY <1>1, <1>2

\* An operation that starts has no claim yet.
LEMMA StartMap ==
    ASSUME DeepInv, NEW p \in Proc, doubt' = doubt, Start(p)
    PROVE  Map!MapNext
<1>1. UNCHANGED files /\ \E t : Become(p, t)
  BY DEF Start, ref_transaction_commit, files_pack_refs, files_read_raw_ref,
         files_ref_iterator_begin
<1>2. PICK t : Become(p, t)
  BY <1>1
<1>3. /\ Leaves(p) /\ loose' = loose /\ packed' = packed /\ proc'[p] = t /\ reflock' = reflock
  BY <1>1, <1>2, OwnStep
<1>4. proc[p].pc = "idle"
  BY DEF Start, ref_transaction_commit, files_pack_refs, files_read_raw_ref,
         files_ref_iterator_begin, Starts, At
<1>5. \A r \in Ref : reflock[r] # p
  BY <1>4, IdleHoldsNothing DEF DeepInv
<1>6. RSInv'
  BY StartInv DEF DeepInv
<1>7. Claims(p, proc'[p], reflock') = {}
  <2>1. \A i \in DOMAIN proc'[p].txn : proc'[p].txn[i].ref \in Ref
    <3>1. proc'[p] \in Memory
      BY <1>6 DEF RSInv
    <3> QED
      BY <3>1, TxnFacts
  <2>2. Live(p, proc'[p], reflock') = {}
    BY <1>3, <1>5, <2>1 DEF Live, Standing
  <2> QED
    BY <2>2 DEF Claims
<1>8. \A q \in Proc \ {p} : Claims(q, proc'[q], reflock') = Claims(q, proc[q], reflock)
  BY <1>3, OthersClaims
<1> QED
  BY <1>3, <1>7, <1>8, MapRelease

\* What a claim has seen is so, unless there is doubt.
LEMMA ClaimSeen ==
    ASSUME DeepInv, NEW p \in Proc, NEW i \in Live(p, proc[p], reflock)
    PROVE  /\ proc[p].txn[i].ref \in Ref /\ reflock[proc[p].txn[i].ref] = p
           /\ \/ Val(loose, packed, proc[p].txn[i].ref) = ClaimOn(proc[p], i).seen
              \/ proc[p].txn[i].ref \in doubt
<1> DEFINE s == proc[p]
           r == s.txn[i].ref
<1>1. i \in Standing(p, s, reflock) /\ Changes(s) /\ i \in DOMAIN s.txn /\ reflock[r] = p
  BY DEF Live, Standing, Changes
<1>2. r \in Ref
  BY <1>1, TxnFacts DEF DeepInv, RSInv
<1>3. Current(s, r, loose, packed, doubt)
  BY <1>1 DEF DeepInv, Sees
<1>4. ClaimOn(s, i).seen = s.got[r].val
  BY DEF ClaimOn
<1> HIDE DEF r
<1>5. Val(loose, packed, r) = s.got[r].val \/ r \in doubt
  BY <1>3 DEF Current, Val
<1> QED
  BY <1>1, <1>2, <1>4, <1>5 DEF r

\* The claims on the entries in D are gone; the others are there.
LEMMA ClaimsDone ==
    ASSUME DeepInv, NEW p \in Proc, NEW D, DoneMore(proc[p], proc'[p], D),
           D \subseteq Live(p, proc[p], reflock),
           \A i \in DOMAIN proc[p].txn \ (proc[p].did \cup D) :
               (reflock'[proc[p].txn[i].ref] = p <=> reflock[proc[p].txn[i].ref] = p)
    PROVE  Claims(p, proc'[p], reflock')
               = Claims(p, proc[p], reflock) \ { ClaimOn(proc[p], i) : i \in D }
<1> DEFINE s == proc[p]
           t == proc'[p]
<1>1. t.txn = s.txn /\ t.got = s.got /\ t.op = s.op /\ t.did = s.did \cup D
  BY DEF DoneMore
<1>2. Live(p, t, reflock') = Live(p, s, reflock) \ D
  BY <1>1 DEF Live, Standing
<1>3. \A i : ClaimOn(t, i) = ClaimOn(s, i)
  BY <1>1 DEF ClaimOn
<1>4. \A i, j \in Live(p, s, reflock) : ClaimOn(s, i) = ClaimOn(s, j) => i = j
  <2>1. ASSUME NEW i \in Live(p, s, reflock), NEW j \in Live(p, s, reflock),
               ClaimOn(s, i) = ClaimOn(s, j)
        PROVE  i = j
    <3>1. s.txn[i].ref = s.txn[j].ref
      BY <2>1 DEF ClaimOn
    <3>2. Changes(s) /\ i \in DOMAIN s.txn /\ j \in DOMAIN s.txn
      BY DEF Live, Standing, Changes
    <3> QED
      BY <3>1, <3>2 DEF DeepInv, Holds, TxnHolds
  <2> QED
    BY <2>1
<1> QED
  BY <1>2, <1>3, <1>4 DEF Claims

\* A rename of a lock file applies one claim.
LEMMA CommitMap ==
    ASSUME DeepInv, RSInv', NEW p \in Proc, commit_ref(p), doubt' = doubt \ Settled(p)
    PROVE  Map!MapNext
<1> DEFINE s == proc[p]
           t == proc'[p]
<1>1. PICK i \in DOMAIN s.txn \ s.did, x \in Ref, v \in NewOf(s) :
             /\ s.txn[i].ref = x /\ s.txn[i].new = v
             /\ s.op = "txn" /\ s.pc = "finish"
             /\ i \notin Deletes(s) /\ v \in Oid /\ v # Null
             /\ reflock[x] = p /\ s.got[x] # Unread
             /\ loose'[x] = v /\ (\A r \in Ref : r # x => loose'[r] = loose[r])
             /\ reflock'[x] = Free /\ (\A r \in Ref : r # x => reflock'[r] = reflock[r])
             /\ packed' = packed /\ packlock' = packlock /\ staging' = staging
             /\ fresh' = fresh /\ doubt' = doubt \ {x}
             /\ DoneMore(s, t, {i})
             /\ \A q \in Proc \ {p} : proc'[q] = proc[q]
  BY CommitIs
<1>2. Leaves(p)
  BY <1>1, Constants DEF Leaves
<1>3. \A q \in Proc \ {p} : Claims(q, proc'[q], reflock') = Claims(q, proc[q], reflock)
  BY <1>2, OthersClaims
<1>4. i \in Live(p, s, reflock)
  BY <1>1, Oids DEF Live, Standing
<1> DEFINE c == ClaimOn(s, i)
<1>5. c.ref = x /\ c.new = v
  BY <1>1 DEF ClaimOn
<1>6. Val(loose, packed, x) = c.seen \/ x \in doubt
  BY <1>1, <1>4, ClaimSeen
<1>7. Claims(p, t, reflock') = Claims(p, s, reflock) \ {c}
  <2>1. \A j \in DOMAIN s.txn : j # i => s.txn[j].ref \in Ref /\ s.txn[j].ref # x
    BY <1>1, TxnFacts DEF DeepInv, RSInv, Holds, TxnHolds, Changes
  <2>2. {i} \subseteq Live(p, s, reflock)
    BY <1>4
  <2>3. \A j \in DOMAIN s.txn \ (s.did \cup {i}) :
           (reflock'[s.txn[j].ref] = p <=> reflock[s.txn[j].ref] = p)
    BY <1>1, <2>1
  <2>4. Claims(p, t, reflock') = Claims(p, s, reflock) \ { ClaimOn(s, j) : j \in {i} }
    BY <1>1, <2>2, <2>3, ClaimsDone
  <2> QED
    BY <2>4
<1>8. c \in Claims(p, s, reflock)
  BY <1>4 DEF Claims
<1> HIDE DEF c
<1>9. \A r \in Ref : r # x => Val(loose', packed', r) = Val(loose, packed, r)
  BY <1>1 DEF Val
<1>10. Val(loose', packed', x) = v
  BY <1>1 DEF Val
<1> DEFINE S == {c}
<1>11. /\ S \in SUBSET Claims(p, s, reflock) /\ Claims(p, t, reflock') = Claims(p, s, reflock) \ S
       /\ \A d \in S : /\ d.ref \in Ref /\ Val(loose', packed', d.ref) = d.new
                       /\ Val(loose, packed, d.ref) = d.seen \/ d.ref \in doubt
       /\ x \in { d.ref : d \in S }
  BY <1>5, <1>6, <1>7, <1>8, <1>10
<1> HIDE DEF S
<1> QED
  BY <1>1, <1>3, <1>9, <1>11, MapApply

\* An unlink applies one claim, or, pruning, changes nothing that is certain.
LEMMA UnlinkMap ==
    ASSUME DeepInv, RSInv', NEW p \in Proc, unlink_loose(p), doubt' = doubt \ Settled(p)
    PROVE  Map!MapNext
<1> DEFINE s == proc[p]
           t == proc'[p]
<1>1. PICK i \in NeedsUnlink(s), x \in Ref :
             /\ i \in DOMAIN s.txn /\ i \notin s.did
             /\ s.txn[i].ref = x /\ s.txn[i].new = Null
             /\ s.pc = "finish" /\ staging.by # p
             /\ reflock[x] = p /\ s.got[x] # Unread /\ loose[x] = s.got[x].val
             /\ loose'[x] = Null /\ (\A r \in Ref : r # x => loose'[r] = loose[r])
             /\ packed' = packed /\ reflock' = reflock /\ packlock' = packlock
             /\ staging' = staging /\ fresh' = fresh
             /\ DoneMore(s, t, {i})
             /\ \A q \in Proc \ {p} : proc'[q] = proc[q]
             /\ \/ /\ s.op = "txn" /\ packed[x] = Null /\ packlock = p
                   /\ doubt' = doubt \ {x}
                \/ /\ s.op = "prune" /\ doubt' = doubt /\ x \in Pending(s)
                   /\ loose[x] = s.cache[x]
                   /\ packed[x] = loose[x] \/ x \in doubt
  BY UnlinkIs
<1>2. Leaves(p)
  BY <1>1 DEF Leaves
<1>3. \A q \in Proc \ {p} : Claims(q, proc'[q], reflock') = Claims(q, proc[q], reflock)
  BY <1>2, OthersClaims
<1>4. \A r \in Ref : r # x => Val(loose', packed', r) = Val(loose, packed, r)
  BY <1>1 DEF Val
<1>5. CASE s.op = "prune"
  <2>1. t.op = "prune"
    BY <1>1, <1>5 DEF DoneMore
  <2>2. Claims(p, t, reflock') = {} /\ Claims(p, s, reflock) = {}
    BY <1>5, <2>1, NoClaims
  <2>3. x \notin doubt => Val(loose', packed', x) = Val(loose, packed, x)
    BY <1>1, <1>5 DEF Val
  <2> QED
    BY <1>1, <1>3, <1>4, <1>5, <2>2, <2>3, MapWaver
<1>6. CASE s.op = "txn"
  <2>1. i \in Live(p, s, reflock)
    BY <1>1, <1>6, Constants DEF Live, Standing
  <2> DEFINE c == ClaimOn(s, i)
  <2>2. c.ref = x /\ c.new = Null
    BY <1>1 DEF ClaimOn
  <2>3. Val(loose, packed, x) = c.seen \/ x \in doubt
    BY <1>1, <2>1, ClaimSeen
  <2>4. Claims(p, t, reflock') = Claims(p, s, reflock) \ {c}
    <3>1. {i} \subseteq Live(p, s, reflock)
      BY <2>1
    <3>2. Claims(p, t, reflock') = Claims(p, s, reflock) \ { ClaimOn(s, j) : j \in {i} }
      BY <1>1, <3>1, ClaimsDone
    <3> QED
      BY <3>2
  <2>5. c \in Claims(p, s, reflock)
    BY <2>1 DEF Claims
  <2> HIDE DEF c
  <2>6. Val(loose', packed', x) = Null
    BY <1>1, <1>6 DEF Val
  <2> DEFINE S == {c}
  <2>7. /\ S \in SUBSET Claims(p, s, reflock) /\ Claims(p, t, reflock') = Claims(p, s, reflock) \ S
        /\ \A d \in S : /\ d.ref \in Ref /\ Val(loose', packed', d.ref) = d.new
                        /\ Val(loose, packed, d.ref) = d.seen \/ d.ref \in doubt
        /\ x \in { d.ref : d \in S }
    BY <2>2, <2>3, <2>4, <2>5, <2>6
  <2> HIDE DEF S
  <2> QED
    BY <1>1, <1>3, <1>4, <1>6, <2>7, MapApply
<1> QED
  BY <1>1, <1>5, <1>6

\* Replacing packed-refs applies the claims on references without a loose file,
\* or, packing, changes nothing that is certain.
LEMMA ReplaceMap ==
    ASSUME DeepInv, RSInv', NEW p \in Proc, packed_transaction_finish(p),
           doubt' = doubt \ Settled(p)
    PROVE  Map!MapNext
<1> DEFINE s == proc[p]
           t == proc'[p]
<1>1. /\ loose' = loose /\ reflock' = reflock /\ s.op \in {"txn", "pack"} /\ Leaves(p)
  BY ReplaceIs
<1>2. \A q \in Proc \ {p} : Claims(q, proc'[q], reflock') = Claims(q, proc[q], reflock)
  BY <1>1, OthersClaims
<1>3. CASE s.op = "pack"
  <2>1. /\ doubt' = doubt /\ t.op = "pack"
        /\ \A r \in Ref : loose[r] = Null => packed'[r] = packed[r] \/ r \in doubt
    BY <1>3, PackReplaces
  <2>2. Claims(p, t, reflock') = {} /\ Claims(p, s, reflock) = {}
    BY <1>3, <2>1, NoClaims
  <2>3. \A r \in Ref : r \notin doubt => Val(loose', packed', r) = Val(loose, packed, r)
    BY <1>1, <2>1 DEF Val
  <2> QED
    BY <1>2, <2>1, <2>2, <2>3, MapWaver
<1>4. CASE s.op = "txn"
  <2> DEFINE D == Deletes(s) \ NeedsUnlink(s)
             X == { s.txn[i].ref : i \in Deletes(s) }
             S == { ClaimOn(s, i) : i \in D }
  <2>1. /\ s.pc = "finish" /\ DoneMore(s, t, D)
        /\ doubt' = doubt \ { s.txn[i].ref : i \in D }
        /\ \A i \in Deletes(s) : /\ i \notin s.did /\ s.txn[i].ref \in Ref
                                 /\ reflock[s.txn[i].ref] = p
                                 /\ s.got[s.txn[i].ref] # Unread
                                 /\ packed'[s.txn[i].ref] = Null
        /\ \A i \in D : loose[s.txn[i].ref] = Null
        /\ \A r \in Ref : r \notin X => packed'[r] = packed[r]
    BY <1>4, TxnReplaces
  <2>2. Deletes(s) \subseteq Live(p, s, reflock)
    BY <1>4, <2>1, Constants DEF Live, Standing, Deletes
  <2>3. D \subseteq Live(p, s, reflock) /\ D \subseteq Deletes(s)
    BY <2>2
  <2>4. Claims(p, t, reflock') = Claims(p, s, reflock) \ S
    BY <1>1, <2>1, <2>3, ClaimsDone
  <2>5. S \in SUBSET Claims(p, s, reflock)
    BY <2>3 DEF Claims
  <2>6. ASSUME NEW c \in S
        PROVE  /\ c.ref \in Ref /\ Val(loose', packed', c.ref) = c.new
               /\ Val(loose, packed, c.ref) = c.seen \/ c.ref \in doubt
    <3>1. PICK i \in D : c = ClaimOn(s, i)
      OBVIOUS
    <3>2. c.ref = s.txn[i].ref /\ c.new = Null /\ i \in Live(p, s, reflock) /\ i \in Deletes(s)
      BY <2>3, <3>1 DEF ClaimOn, Deletes
    <3>3. c.ref \in Ref /\ (Val(loose, packed, c.ref) = c.seen \/ c.ref \in doubt)
      BY <3>1, <3>2, ClaimSeen
    <3> HIDE DEF D
    <3>4. loose'[c.ref] = Null /\ packed'[c.ref] = Null
      BY <1>1, <2>1, <3>1, <3>2
    <3> QED
      BY <3>2, <3>3, <3>4 DEF Val
  <2>7. ASSUME NEW r \in Ref, r \notin { c.ref : c \in S } \cup doubt
        PROVE  Val(loose', packed', r) = Val(loose, packed, r)
    <3>1. CASE r \notin X
      BY <1>1, <2>1, <3>1 DEF Val
    <3>2. CASE r \in X
      <4>1. PICK i \in Deletes(s) : s.txn[i].ref = r
        BY <3>2
      <4>2. i \notin D
        <5> SUFFICES ASSUME i \in D PROVE FALSE
          OBVIOUS
        <5>1. ClaimOn(s, i) \in S /\ ClaimOn(s, i).ref = r
          BY <4>1 DEF ClaimOn
        <5> QED
          BY <2>7, <5>1
      <4>3. ~ s.got[r].packed
        BY <4>1, <4>2 DEF NeedsUnlink
      <4>4. Current(s, r, loose, packed, doubt)
        <5>1. i \in Standing(p, s, reflock)
          BY <2>2 DEF Live
        <5> QED
          BY <1>4, <4>1, <5>1 DEF DeepInv, Sees, Changes
      <4>5. packed'[r] = Null
        BY <2>1, <4>1
      <4> QED
        BY <1>1, <2>7, <4>3, <4>4, <4>5 DEF Current, Val
    <3> QED
      BY <3>1, <3>2
  <2>8. doubt' \subseteq doubt
    BY <2>1
  <2> HIDE DEF S, D, X
  <2> QED
    BY <1>2, <2>4, <2>5, <2>6, <2>7, <2>8, MapApply
<1> QED
  BY <1>1, <1>3, <1>4

\* A process that stops, or fails, gives claims up and may leave doubt.
LEMMA FaultMap ==
    ASSUME Careful, DeepInv, NEW p \in Proc, doubt' = doubt \cup HalfDeleted(p), Interrupted(p)
    PROVE  Map!MapNext
<1> DEFINE s == proc[p]
<1>1. RSInv /\ s \in Memory /\ Sound(s) /\ Holds(p, s, reflock, packlock)
  BY DEF DeepInv, RSInv
<1>2. /\ loose' = loose /\ packed' = packed
  BY DEF Interrupted, Killed, remove_tempfiles_on_signal, CallFails, files
<1>3. \A q \in Proc \ {p} : proc'[q] = proc[q]
  BY <1>1 DEF Interrupted, Killed, remove_tempfiles_on_signal, CallFails, Become, RSInv
<1>4. \A q \in Proc \ {p} : \A r \in Ref : reflock'[r] = q <=> reflock[r] = q
  BY Constants DEF Interrupted, Killed, remove_tempfiles_on_signal, CallFails, files, Careful
<1>5. \A q \in Proc \ {p} : Claims(q, proc'[q], reflock') = Claims(q, proc[q], reflock)
  <2> SUFFICES ASSUME NEW q \in Proc \ {p}
               PROVE  Claims(q, proc[q], reflock') = Claims(q, proc[q], reflock)
    BY <1>3
  <2>1. \A i \in DOMAIN proc[q].txn : proc[q].txn[i].ref \in Ref
    BY <1>1, TxnFacts DEF RSInv
  <2>2. Live(q, proc[q], reflock') = Live(q, proc[q], reflock)
    BY <1>4, <2>1 DEF Live, Standing
  <2> QED
    BY <2>2 DEF Claims
<1>6. Claims(p, proc'[p], reflock') \subseteq Claims(p, s, reflock)
  <2>1. CASE CallFails(p)
    <3>1. Become(p, Fail(s)) /\ reflock' = reflock
      BY <2>1 DEF CallFails, files
    <3>2. proc'[p] = Fail(s)
      BY <1>1, <3>1 DEF Become, RSInv
    <3>3. SameWork(s, Fail(s)) /\ Fail(s).got = s.got
      BY <1>1, FailIs
    <3> QED
      BY <1>1, <3>1, <3>2, <3>3, FewerClaims DEF SameWork
  <2>2. CASE Killed(p) \/ remove_tempfiles_on_signal(p)
    <3>1. Become(p, Idle)
      BY <2>2 DEF Killed, remove_tempfiles_on_signal
    <3>2. proc'[p] = Idle /\ Idle.op = "none"
      BY <1>1, <3>1 DEF Become, RSInv, Idle
    <3> QED
      BY <3>2, NoClaims
  <2> QED
    BY <2>1, <2>2 DEF Interrupted
<1>7. HalfDeleted(p) \subseteq { c.ref : c \in Claims(p, s, reflock) }
  <2> SUFFICES ASSUME NEW r \in HalfDeleted(p)
               PROVE  \E c \in Claims(p, s, reflock) : r = c.ref
    OBVIOUS
  <2>1. PICK i \in NeedsUnlink(s) : s.txn[i].ref = r /\ s.op = "txn" /\ s.pc = "finish"
    BY DEF HalfDeleted, At
  <2>2. i \in Deletes(s) /\ i \notin s.did /\ i \in DOMAIN s.txn /\ i \in Checked(s)
        /\ s.txn[i].new = Null
    BY <2>1 DEF NeedsUnlink, Deletes, Checked, Looks
  <2>3. reflock[r] = p /\ s.got[r] # Unread
    BY <1>1, <2>1, <2>2 DEF Holds, TxnHolds, Changes
  <2>4. i \in Live(p, s, reflock)
    BY <2>1, <2>2, <2>3, Constants DEF Live, Standing
  <2>5. ClaimOn(s, i).ref = r
    BY <2>1 DEF ClaimOn
  <2> QED
    BY <2>4, <2>5 DEF Claims
<1> QED
  BY <1>2, <1>5, <1>6, <1>7, MapRelease

\* A step of no process is no step of RefMap.
LEMMA NobodyMap ==
    ASSUME DeepInv, RSInv', proc' = proc, loose' = loose, packed' = packed, doubt' = doubt,
           \A q \in Proc : \A r \in Ref : reflock'[r] = q <=> reflock[r] = q
    PROVE  Map!MapNext
<1>1. ASSUME NEW q \in Proc
      PROVE  Claims(q, proc'[q], reflock') = Claims(q, proc[q], reflock)
  <2>1. \A i \in DOMAIN proc[q].txn : proc[q].txn[i].ref \in Ref
    BY TxnFacts DEF DeepInv, RSInv
  <2>2. Live(q, proc[q], reflock') = Live(q, proc[q], reflock)
    BY <2>1 DEF Live, Standing
  <2> QED
    BY <2>2 DEF Claims
<1> QED
  BY <1>1, MapWaver

\* Every step of the files store is a step of RefMap.
LEMMA NextMap ==
    ASSUME Careful, DeepInv, [RSNext]_rsVars
    PROVE  [Map!MapNext]_(Map!mapVars)
<1>0. SUFFICES Map!MapNext
  OBVIOUS
<1>1. RSInv'
  BY NextInv DEF DeepInv
<1>2. ASSUME NEW p \in Proc, Run(p) PROVE Map!MapNext
  <2>1. Step(p) /\ doubt' = doubt \ Settled(p)
    BY <1>2 DEF Run
  <2>2. CASE Prepares(p)
    <3>1. doubt' = doubt
      BY <2>1, <2>2, NoneSettled
    <3> QED
      BY <2>2, <3>1, PreparesMap
  <2>3. CASE commit_ref(p)
    BY <1>1, <2>1, <2>3, CommitMap
  <2>4. CASE unlink_loose(p)
    BY <1>1, <2>1, <2>4, UnlinkMap
  <2>5. CASE packed_transaction_finish(p)
    BY <1>1, <2>1, <2>5, ReplaceMap
  <2> QED
    BY <2>1, <2>2, <2>3, <2>4, <2>5 DEF Step, Prepares
<1>3. ASSUME NEW p \in Proc, Start(p), doubt' = doubt PROVE Map!MapNext
  BY <1>3, StartMap
<1>4. ASSUME NEW p \in Proc, Interrupted(p), doubt' = doubt \cup HalfDeleted(p)
      PROVE  Map!MapNext
  BY <1>4, FaultMap
<1>5. CASE UserRemovesStale /\ doubt' = doubt
  <2>1. /\ proc' = proc /\ loose' = loose /\ packed' = packed
    BY <1>5 DEF UserRemovesStale
  <2>2. \A r \in Ref : reflock'[r] = reflock[r] \/ (reflock[r] = Stale /\ reflock'[r] = Free)
    BY <1>5 DEF UserRemovesStale, DeepInv, RSInv, FilesOK
  <2>3. \A q \in Proc : \A r \in Ref : reflock'[r] = q <=> reflock[r] = q
    BY <2>2, Constants
  <2> QED
    BY <1>1, <1>5, <2>1, <2>3, NobodyMap
<1>6. CASE UNCHANGED rsVars
  <2>1. /\ proc' = proc /\ loose' = loose /\ packed' = packed /\ doubt' = doubt
        /\ reflock' = reflock
    BY <1>6 DEF rsVars, files
  <2> QED
    BY <1>1, <2>1, NobodyMap
<1> QED
  BY <1>2, <1>3, <1>4, <1>5, <1>6 DEF RSNext

\* The files store implements RefMap: whatever processes run at the same time
\* and wherever they are interrupted, no update is lost, no deleted or
\* overwritten value comes back, and packing, pruning, failing and cleaning up
\* change no reference, but for one whose deletion was interrupted half way
\* (files_transaction_finish(), files_pack_refs(), remove_tempfiles()).
THEOREM StoreImplementsMap ==
    ASSUME Careful
    PROVE  RSSpec => ImplementsRefMap
<1>1. RSInit => Map!MapInit
  <2> SUFFICES ASSUME RSInit PROVE Map!MapInit
    OBVIOUS
  <2>1. [r \in Ref |-> Value(r)] \in [Ref -> Oid]
    BY InitInv DEF RSInv, FilesOK, Value
  <2>2. \A p \in Proc : ClaimsOf(p) = {}
    BY DEF RSInit, ClaimsOf, Idle
  <2>3. doubt = {}
    BY DEF RSInit
  <2> QED
    BY <2>1, <2>2, <2>3 DEF Map!MapInit
<1>2. DeepInv /\ [RSNext]_rsVars => [Map!MapNext]_(Map!mapVars)
  BY NextMap
<1> QED
  BY <1>1, <1>2, StoreDeepInvariant, PTL DEF RSSpec, ImplementsRefMap, Map!MapSpec

-----------------------------------------------------------------------------
(***************************************************************************)
(* What a reader without a lock reads.                                     *)
(***************************************************************************)

\* The values packed-refs, which is k, has for a reference or may get from
\* a packing under way; m is the memory of the processes.
Coming(m, k, r) ==
    {k[r]} \cup { m[q].cache[r] : q \in { x \in Proc : m[x].op = "pack" /\ m[x].cache[r] # Null } }

\* The reader has found no loose file of the reference, and has packed-refs
\* still to look into.
Missed(s, r) ==
    \/ r = s.target /\ \/ s.pc = "readpacked"
                       \/ s.pc = "stat" /\ s.tries > 0
                       \/ s.pc = "open" /\ s.tries > 1
    \/ /\ s.op = "iter" /\ r \notin s.todo \cup s.broken /\ s.cache[r] = Null
       /\ s.pc = "fill" \/ (Looks(s) /\ r # s.target)

\* What the reader has found, or may yet find in packed-refs, is in w,
\* unless it has given up.
Finds(s, w, c, r) ==
    /\ Missed(s, r) => c \subseteq w
    /\ /\ s.op = "iter" /\ r \notin s.gaveup
       /\ s.cache[r] # Null \/ r \in s.broken \/ s.pc = "return"
       => s.cache[r] \in w
    /\ /\ s.op = "read" /\ r \notin s.gaveup /\ s.pc = "return" /\ r = s.target
       => s.cache[r] \in w

\* The values of a reference, whatever they become while it is in doubt.
Follow(w, l, k, d, r) == Val(l, k, r) \in w /\ (r \in d => Oid \subseteq w)

\* The inductive invariant of the readers, on top of DeepInv.
ReadersInv ==
    \A p \in Proc : Reading(proc[p]) => \A r \in Ref :
        /\ Follow(window[p][r], loose, packed, doubt, r)
        /\ Finds(proc[p], window[p][r], Coming(proc, packed, r), r)

\* The history keeps what it has, and follows the files.
LEMMA Tracked ==
    ASSUME Track, NEW p \in Proc, Reading(proc'[p]), NEW r \in Ref
    PROVE  /\ window[p][r] \subseteq window'[p][r]
           /\ Follow(window'[p][r], loose', packed', doubt', r)
           /\ r \in Unpacked => Null \in window'[p][r]
<1>1. window'[p][r] = window[p][r] \cup {Val(loose', packed', r)}
                      \cup (IF r \in Unpacked THEN {Null} ELSE {})
                      \cup (IF r \in doubt' THEN Oid ELSE {})
  BY DEF Track, Value, Val
<1> QED
  BY <1>1 DEF Follow

\* Where the values come from that packed-refs may have after a step.
Sources == \A r \in Ref :
    Coming(proc', packed', r) \subseteq
        Coming(proc, packed, r) \cup {Val(loose, packed, r)}
            \cup (IF r \in Unpacked THEN {Null} ELSE {})

\* A reader that takes no step loses nothing by what others do.
LEMMA ReaderWaits ==
    ASSUME ReadersInv, Track, Sources, NEW p \in Proc, proc'[p] = proc[p], Reading(proc[p]),
           NEW r \in Ref
    PROVE  /\ Follow(window'[p][r], loose', packed', doubt', r)
           /\ Finds(proc'[p], window'[p][r], Coming(proc', packed', r), r)
<1>1. /\ Follow(window[p][r], loose, packed, doubt, r)
      /\ Finds(proc[p], window[p][r], Coming(proc, packed, r), r)
  BY DEF ReadersInv
<1>2. /\ window[p][r] \subseteq window'[p][r]
      /\ Follow(window'[p][r], loose', packed', doubt', r)
      /\ r \in Unpacked => Null \in window'[p][r]
  BY Tracked
<1>3. ASSUME Coming(proc, packed, r) \subseteq window[p][r]
      PROVE  Coming(proc', packed', r) \subseteq window'[p][r]
  BY <1>1, <1>2, <1>3 DEF Sources, Follow
<1> QED
  BY <1>1, <1>2, <1>3 DEF Finds

\* Without its loose file a reference has the packed value, and a packing
\* under way has no other.
LEMMA NothingElse ==
    ASSUME DeepInv, ReadersInv, NEW p \in Proc, Reading(proc[p]), NEW r \in Ref, loose[r] = Null
    PROVE  Coming(proc, packed, r) \subseteq window[p][r]
<1>1. Follow(window[p][r], loose, packed, doubt, r)
  BY DEF ReadersInv
<1>2. packed[r] \in window[p][r]
  BY <1>1 DEF Follow, Val
<1>3. ASSUME NEW q \in Proc, proc[q].op = "pack", proc[q].cache[r] # Null
      PROVE  proc[q].cache[r] \in window[p][r]
  <2>1. packed[r] = proc[q].cache[r] \/ r \in doubt
    BY <1>3 DEF DeepInv, Known, PackKnows
  <2>2. proc[q].cache[r] \in Oid
    BY DEF DeepInv, RSInv, Memory
  <2> QED
    BY <1>1, <1>2, <2>1, <2>2 DEF Follow
<1> QED
  BY <1>2, <1>3 DEF Coming

\* What a packing has in its cache it had before, or has just read.
PicksUp(s, t, l, k) == t.op = "pack" => \A r \in Ref :
    \/ t.cache[r] = Null
    \/ s.op = "pack" /\ t.cache[r] = s.cache[r]
    \/ t.cache[r] \in {Val(l, k, r), k[r]}

\* A step that packs nothing that was not there.
LEMMA NothingComes ==
    ASSUME NEW p \in Proc, packed' = packed, \A q \in Proc \ {p} : proc'[q] = proc[q],
           PicksUp(proc[p], proc'[p], loose, packed)
    PROVE  Sources
<1> SUFFICES ASSUME NEW r \in Ref, NEW v \in Coming(proc', packed', r)
             PROVE  v \in Coming(proc, packed, r) \cup {Val(loose, packed, r)}
  BY DEF Sources
<1>1. CASE v = packed[r]
  BY <1>1 DEF Coming
<1>2. ASSUME NEW q \in Proc, proc'[q].op = "pack", proc'[q].cache[r] # Null,
             v = proc'[q].cache[r]
      PROVE  v \in Coming(proc, packed, r) \cup {Val(loose, packed, r)}
  <2>1. CASE q # p
    BY <1>2, <2>1 DEF Coming
  <2>2. CASE q = p
    BY <1>2, <2>2 DEF Coming, PicksUp
  <2> QED
    BY <2>1, <2>2
<1> QED
  BY <1>1, <1>2 DEF Coming

\* A reader's own step changes no file: it is enough that what it finds has
\* been there.
LEMMA ReaderActs ==
    ASSUME Track, NEW p \in Proc, Reading(proc[p]), Reading(proc'[p]), packed' = packed,
           \A q \in Proc \ {p} : proc'[q] = proc[q], NEW r \in Ref,
           Finds(proc'[p], window[p][r], Coming(proc, packed, r), r)
    PROVE  /\ Follow(window'[p][r], loose', packed', doubt', r)
           /\ Finds(proc'[p], window'[p][r], Coming(proc', packed', r), r)
<1>1. /\ window[p][r] \subseteq window'[p][r]
      /\ Follow(window'[p][r], loose', packed', doubt', r)
  BY Tracked
<1>2. Coming(proc', packed', r) \subseteq Coming(proc, packed, r)
  <2>1. proc'[p].op # "pack"
    BY DEF Reading
  <2>2. ASSUME NEW q \in Proc, proc'[q].op = "pack", proc'[q].cache[r] # Null
        PROVE  proc'[q].cache[r] \in Coming(proc, packed, r)
    BY <2>1, <2>2 DEF Coming
  <2>3. packed'[r] \in Coming(proc, packed, r)
    BY DEF Coming
  <2> QED
    BY <2>2, <2>3 DEF Coming
<1> QED
  BY <1>1, <1>2 DEF Finds

\* A reader reads a value that has been there, or gives up.
LEMMA FindsDelivered ==
    ASSUME NEW s \in Memory, Reading(s), Looks(s), s.target \in Ref,
           NEW v \in Oid, NEW b \in BOOLEAN, NEW w, NEW c, NEW r \in Ref,
           Finds(s, w, c, r),
           r = s.target => v \in w \/ (v = Null /\ s.pc = "stat")
    PROVE  Finds(Deliver(s, v, b), w, c, r)
<1> DEFINE t == Deliver(s, v, b)
<1>1. /\ t.op = s.op /\ t.todo = s.todo /\ t.target = s.target
      /\ t.pc = IF s.op = "read" THEN "return" ELSE "fill"
      /\ \A x \in Ref : t.cache[x] = IF x = s.target THEN v ELSE s.cache[x]
      /\ s.op = "iter" => t.broken = s.broken \cup (IF v = Null THEN {s.target} ELSE {})
      /\ t.gaveup = s.gaveup \cup (IF s.pc = "stat" THEN {s.target} ELSE {})
  BY DeliverReads DEF GivenUp, Reading
<1> SUFFICES Finds(t, w, c, r)
  OBVIOUS
<1> HIDE DEF t
<1>2. s.pc \notin {"fill", "return"} /\ s.op \in {"read", "iter"}
  BY DEF Looks, Reading
<1>0. t.cache[s.target] = v /\ \A x \in Ref : x # s.target => t.cache[x] = s.cache[x]
  BY <1>1
<1>3. CASE r = s.target
  <2>1. ~ Missed(t, r)
    BY <1>0, <1>1, <1>2, <1>3 DEF Missed, Looks
  <2>2. r \in t.gaveup \/ t.cache[r] \in w
    BY <1>0, <1>1, <1>3
  <2> QED
    BY <2>1, <2>2 DEF Finds
<1>4. CASE r # s.target
  <2>1. t.cache[r] = s.cache[r] /\ (r \in t.gaveup <=> r \in s.gaveup)
        /\ (s.op = "iter" => (r \in t.broken <=> r \in s.broken))
    BY <1>0, <1>1, <1>4
  <2>2. Missed(t, r) => Missed(s, r)
    BY <1>1, <1>2, <1>4, <2>1 DEF Missed, Looks
  <2> QED
    BY <1>1, <1>2, <1>4, <2>1, <2>2 DEF Finds
<1> QED
  BY <1>3, <1>4

\* The reader's system calls.
LEMMA LooksReads ==
    ASSUME DeepInv, ReadersInv, NEW p \in Proc, Reading(proc[p]),
           read_lstat(p) \/ read_open(p) \/ packed_read_raw_ref(p)
    PROVE  /\ Reading(proc'[p])
           /\ \A r \in Ref : Finds(proc'[p], window[p][r], Coming(proc, packed, r), r)
<1> DEFINE s == proc[p]
<1>1. /\ RSInv /\ s \in Memory /\ Looks(s) /\ s.target \in Ref /\ s.tries \in 0 .. ReadTries
      /\ loose[s.target] \in Oid /\ packed[s.target] \in Oid
  BY DEF DeepInv, RSInv, FilesOK, Sound, Looks, read_lstat, read_open, packed_read_raw_ref, At,
         Memory
<1>2. \A t : Become(p, t) => proc'[p] = t
  BY <1>1 DEF Become, RSInv
<1>3. \A r \in Ref : /\ Follow(window[p][r], loose, packed, doubt, r)
                     /\ Finds(s, window[p][r], Coming(proc, packed, r), r)
  BY DEF ReadersInv
<1>4. \A v \in Oid, b \in BOOLEAN : Reading(Deliver(s, v, b))
  BY <1>1, DeliverReads DEF Reading
<1>5. ASSUME NEW c \in {"stat", "open", "readpacked"}, NEW n \in 0 .. ReadTries,
             Become(p, [s EXCEPT !.tries = n, !.pc = c]),
             c # "open" => loose[s.target] = Null,
             c = "open" => n <= 1 \/ Missed(s, s.target)
      PROVE  /\ Reading(proc'[p])
             /\ \A r \in Ref : Finds(proc'[p], window[p][r], Coming(proc, packed, r), r)
  <2> DEFINE t == [s EXCEPT !.tries = n, !.pc = c]
  <2>1. /\ t.op = s.op /\ t.todo = s.todo /\ t.target = s.target /\ t.tries = n /\ t.pc = c
        /\ t.cache = s.cache /\ t.broken = s.broken /\ t.gaveup = s.gaveup
    BY <1>1 DEF Memory
  <2>2. proc'[p] = t
    BY <1>2, <1>5
  <2> HIDE DEF t
  <2>3. Reading(t)
    BY <2>1 DEF Reading
  <2>4. ASSUME NEW r \in Ref
        PROVE  Finds(t, window[p][r], Coming(proc, packed, r), r)
    <3>1. Finds(s, window[p][r], Coming(proc, packed, r), r)
      BY <1>3
    <3>2. Missed(t, r) => Coming(proc, packed, r) \subseteq window[p][r]
      <4>1. CASE r # s.target
        BY <1>1, <2>1, <3>1, <4>1 DEF Finds, Missed, Looks
      <4>2. CASE r = s.target /\ loose[r] = Null
        BY <4>2, NothingElse
      <4>3. CASE r = s.target /\ c = "open"
        <5>1. Missed(t, r) => n > 1
          BY <2>1, <4>3 DEF Missed, Looks
        <5> QED
          BY <1>5, <3>1, <4>3, <5>1 DEF Finds
      <4> QED
        BY <1>5, <4>1, <4>2, <4>3
    <3> QED
      BY <1>1, <2>1, <3>1, <3>2 DEF Finds, Looks
  <2> QED
    BY <2>2, <2>3, <2>4
<1>6. ASSUME NEW v \in Oid, NEW b \in BOOLEAN, Become(p, Deliver(s, v, b)),
             v \in window[p][s.target] \/ (v = Null /\ s.pc = "stat")
      PROVE  /\ Reading(proc'[p])
             /\ \A r \in Ref : Finds(proc'[p], window[p][r], Coming(proc, packed, r), r)
  <2>1. proc'[p] = Deliver(s, v, b)
    BY <1>2, <1>6
  <2>2. ASSUME NEW r \in Ref
        PROVE  Finds(Deliver(s, v, b), window[p][r], Coming(proc, packed, r), r)
    BY <1>1, <1>3, <1>6, FindsDelivered
  <2> QED
    BY <1>4, <2>1, <2>2
<1>7. CASE read_lstat(p)
  <2>1. s.pc = "stat"
    BY <1>7 DEF read_lstat, At
  <2>2. CASE s.tries = ReadTries
    <3>1. Become(p, Deliver(s, Null, FALSE))
      BY <1>7, <2>2 DEF read_lstat
    <3> QED
      BY <1>6, <2>1, <3>1, Constants
  <2>3. CASE s.tries # ReadTries
    <3> DEFINE c == IF loose[s.target] = Null THEN "readpacked" ELSE "open"
    <3>1. Become(p, [s EXCEPT !.tries = s.tries + 1, !.pc = c])
      BY <1>7, <2>3 DEF read_lstat
    <3>2. s.tries + 1 \in 0 .. ReadTries
      BY <1>1, <2>3 DEF ReadTries
    <3>3. s.tries + 1 <= 1 \/ Missed(s, s.target)
      BY <1>1, <2>1 DEF Missed, ReadTries
    <3> QED
      BY <1>5, <2>1, <3>1, <3>2, <3>3
  <2> QED
    BY <2>2, <2>3
<1>8. CASE read_open(p)
  <2>1. CASE loose[s.target] = Null
    <3>1. Become(p, [s EXCEPT !.pc = "stat"])
      BY <1>8, <2>1 DEF read_open
    <3>2. [s EXCEPT !.pc = "stat"] = [s EXCEPT !.tries = s.tries, !.pc = "stat"]
      BY <1>1 DEF Memory
    <3>3. Become(p, [s EXCEPT !.tries = s.tries, !.pc = "stat"])
      BY <3>1, <3>2
    <3> QED
      BY <1>1, <1>5, <2>1, <3>3
  <2>2. CASE loose[s.target] # Null
    <3>1. Become(p, Deliver(s, loose[s.target], FALSE))
      BY <1>8, <2>2 DEF read_open
    <3>2. loose[s.target] \in window[p][s.target]
      BY <1>1, <1>3, <2>2 DEF Follow, Val
    <3> QED
      BY <1>1, <1>6, <2>2, <3>1, <3>2
  <2> QED
    BY <2>1, <2>2
<1>9. CASE packed_read_raw_ref(p)
  <2>1. Become(p, Deliver(s, packed[s.target], packed[s.target] # Null)) /\ s.pc = "readpacked"
    BY <1>9 DEF packed_read_raw_ref, At
  <2>2. Coming(proc, packed, s.target) \subseteq window[p][s.target]
    BY <1>1, <1>3, <2>1 DEF Finds, Missed
  <2>3. packed[s.target] \in window[p][s.target]
    BY <2>2 DEF Coming
  <2> QED
    BY <1>1, <1>6, <2>1, <2>2, <2>3
<1> QED
  BY <1>7, <1>8, <1>9

\* The iteration looks for the next loose file, and in the end reads
\* packed-refs for those it has not found.
LEMMA FillReads ==
    ASSUME DeepInv, ReadersInv, NEW p \in Proc, Reading(proc[p]),
           loose_fill_ref_dir(p) \/ packed_ref_iterator_begin(p)
    PROVE  /\ Reading(proc'[p])
           /\ \A r \in Ref : Finds(proc'[p], window[p][r], Coming(proc, packed, r), r)
<1> DEFINE s == proc[p]
<1>1. RSInv /\ s \in Memory /\ s.pc = "fill" /\ s.op = "iter"
  BY DEF DeepInv, RSInv, Sound, loose_fill_ref_dir, packed_ref_iterator_begin, At, Reading
<1>2. \A t : Become(p, t) => proc'[p] = t
  BY <1>1 DEF Become, RSInv
<1>3. \A r \in Ref : Finds(s, window[p][r], Coming(proc, packed, r), r)
  BY DEF ReadersInv
<1>4. CASE loose_fill_ref_dir(p)
  <2>1. PICK x \in s.todo :
           Become(p, [s EXCEPT !.todo = @ \ {x}, !.target = x, !.tries = 0,
                               !.pc = IF loose[x] = Null THEN "fill" ELSE "stat"])
    BY <1>4 DEF loose_fill_ref_dir
  <2> DEFINE f == IF loose[x] = Null THEN "fill" ELSE "stat"
             t == [s EXCEPT !.todo = @ \ {x}, !.target = x, !.tries = 0, !.pc = f]
  <2>2. /\ t.op = "iter" /\ t.todo = s.todo \ {x} /\ t.target = x /\ t.tries = 0
        /\ t.pc = f /\ t.cache = s.cache /\ t.broken = s.broken /\ t.gaveup = s.gaveup
    BY <1>1 DEF Memory
  <2>3. proc'[p] = t
    BY <1>2, <2>1
  <2> HIDE DEF t
  <2>4. ASSUME NEW r \in Ref
        PROVE  Finds(t, window[p][r], Coming(proc, packed, r), r)
    <3>1. Finds(s, window[p][r], Coming(proc, packed, r), r)
      BY <1>3
    <3>2. CASE r = x /\ loose[x] = Null
      <4>1. Coming(proc, packed, r) \subseteq window[p][r]
        BY <3>2, NothingElse
      <4> QED
        BY <1>1, <2>2, <3>1, <3>2, <4>1 DEF Finds
    <3>3. CASE r = x /\ loose[x] # Null
      BY <1>1, <2>2, <3>1, <3>3 DEF Finds, Missed, Looks
    <3>4. CASE r # x
      BY <1>1, <2>2, <3>1, <3>4 DEF Finds, Missed, Looks
    <3> QED
      BY <3>2, <3>3, <3>4
  <2> QED
    BY <2>2, <2>3, <2>4 DEF Reading
<1>5. CASE packed_ref_iterator_begin(p)
  <2> DEFINE c == [r \in Ref |-> IF s.cache[r] # Null \/ r \in s.broken THEN s.cache[r]
                                ELSE packed[r]]
             t == [s EXCEPT !.pc = "return", !.cache = c]
  <2>1. Become(p, t) /\ s.todo = {}
    BY <1>1, <1>5 DEF packed_ref_iterator_begin, Memory
  <2>2. \A r \in Ref : c[r] = IF s.cache[r] # Null \/ r \in s.broken THEN s.cache[r]
                              ELSE packed[r]
    OBVIOUS
  <2> HIDE DEF c
  <2>3. t.op = "iter" /\ t.pc = "return" /\ t.cache = c /\ t.gaveup = s.gaveup
    BY <1>1 DEF Memory
  <2>4. proc'[p] = t
    BY <1>2, <2>1
  <2> HIDE DEF t
  <2>5. ASSUME NEW r \in Ref
        PROVE  Finds(t, window[p][r], Coming(proc, packed, r), r)
    <3>1. Finds(s, window[p][r], Coming(proc, packed, r), r)
      BY <1>3
    <3>2. packed[r] \in Coming(proc, packed, r)
      BY DEF Coming
    <3>3. r \notin s.gaveup => c[r] \in window[p][r]
      BY <1>1, <2>1, <2>2, <3>1, <3>2 DEF Finds, Missed
    <3> QED
      BY <2>3, <3>3 DEF Finds, Missed, Looks
  <2> QED
    BY <2>3, <2>4, <2>5 DEF Reading
<1> QED
  BY <1>4, <1>5

\* A read that begins has found nothing yet.
LEMMA StartReads ==
    ASSUME DeepInv, Track, NEW p \in Proc, Start(p), Reading(proc'[p]), NEW r \in Ref
    PROVE  /\ Follow(window'[p][r], loose', packed', doubt', r)
           /\ Finds(proc'[p], window'[p][r], Coming(proc', packed', r), r)
<1>1. RSInv
  BY DEF DeepInv
<1>2. \A t : Become(p, t) => proc'[p] = t
  BY <1>1 DEF Become, RSInv
<1>3. Follow(window'[p][r], loose', packed', doubt', r)
  BY Tracked
<1>4. CASE files_read_raw_ref(p)
  <2>1. PICK x \in Ref : Become(p, [Idle EXCEPT !.op = "read", !.pc = "stat", !.target = x])
    BY <1>4 DEF files_read_raw_ref
  <2> DEFINE t == [Idle EXCEPT !.op = "read", !.pc = "stat", !.target = x]
  <2>2. t.op = "read" /\ t.pc = "stat" /\ t.tries = 0
    BY DEF Idle
  <2>3. proc'[p] = t
    BY <1>2, <2>1
  <2> QED
    BY <1>3, <2>2, <2>3 DEF Finds, Missed
<1>5. CASE files_ref_iterator_begin(p)
  <2> DEFINE t == [Idle EXCEPT !.op = "iter", !.pc = "fill", !.todo = Ref]
  <2>1. t.op = "iter" /\ t.pc = "fill" /\ t.todo = Ref /\ t.cache[r] = Null /\ t.broken = {}
    BY DEF Idle
  <2>2. proc'[p] = t
    BY <1>2, <1>5 DEF files_ref_iterator_begin
  <2> QED
    BY <1>3, <2>1, <2>2 DEF Finds, Missed
<1>6. CASE files_pack_refs(p)
  <2>1. PICK c : Become(p, [Idle EXCEPT !.op = "pack", !.todo = Ref, !.pc = c])
    BY <1>6 DEF files_pack_refs
  <2>2. [Idle EXCEPT !.op = "pack", !.todo = Ref, !.pc = c].op = "pack"
    BY DEF Idle
  <2> QED
    BY <1>2, <2>1, <2>2 DEF Reading
<1>7. CASE ref_transaction_commit(p)
  <2>1. PICK x : Become(p, [Idle EXCEPT !.op = "txn", !.pc = "lock", !.pos = 1, !.txn = x])
    BY <1>7 DEF ref_transaction_commit
  <2>2. [Idle EXCEPT !.op = "txn", !.pc = "lock", !.pos = 1, !.txn = x].op = "txn"
    BY DEF Idle
  <2> QED
    BY <1>2, <2>1, <2>2 DEF Reading
<1> QED
  BY <1>4, <1>5, <1>6, <1>7 DEF Start

\* What is read is handed over to the same operation, which notes it at most
\* in its cache.
LEMMA DeliverPicksUp ==
    ASSUME NEW s \in Memory, Looks(s), s.target \in Ref, s.op # "none",
           Changes(s) => s.pos \in DOMAIN s.txn /\ s.txn[s.pos].ref \in Ref,
           NEW v \in Oid, NEW b \in BOOLEAN, NEW l, NEW k,
           v \in {Null, Val(l, k, s.target), k[s.target]}
    PROVE  /\ Deliver(s, v, b).op = s.op
           /\ PicksUp(s, Deliver(s, v, b), l, k)
<1> DEFINE t == Deliver(s, v, b)
<1>1. CASE Changes(s)
  <2>1. t = Fail(s) \/ SameWork(s, t)
    BY <1>1, NotedIs
  <2>2. SameWork(s, Fail(s))
    BY FailIs
  <2> QED
    BY <1>1, <2>1, <2>2 DEF SameWork, PicksUp, Changes
<1>2. CASE ~ Changes(s)
  <2>1. s.op \in {"pack", "iter", "read"}
    BY <1>2 DEF Memory, Changes
  <2>2. t.op = s.op /\ \A r \in Ref : t.cache[r] = IF r = s.target THEN v ELSE s.cache[r]
    BY <2>1, DeliverReads
  <2> HIDE DEF t
  <2>4. t.op = s.op /\ PicksUp(s, t, l, k)
    BY <2>2 DEF PicksUp
  <2> QED
    BY <2>4 DEF t
<1> QED
  BY <1>1, <1>2

\* A step that prepares stays in its operation or ends it, and packs nothing
\* that was not there.
LEMMA PreparesPicksUp ==
    ASSUME DeepInv, NEW p \in Proc, Prepares(p)
    PROVE  /\ PicksUp(proc[p], proc'[p], loose, packed)
           /\ Reading(proc'[p]) => Reading(proc[p])
<1> DEFINE s == proc[p]
           Same(t) == t.op = s.op /\ t.cache = s.cache
           Good(t) == PicksUp(s, t, loose, packed) /\ (Reading(t) => Reading(s))
<1>1. s \in Memory /\ Sound(s) /\ RSInv
  BY DEF DeepInv, RSInv
<1>2. \A t : Become(p, t) => proc'[p] = t
  BY <1>1 DEF Become, RSInv
<1>3. SUFFICES Good(proc'[p])
  OBVIOUS
<1>4. ASSUME NEW t, Same(t) \/ t.op \in {"none", "txn", "prune"} PROVE Good(t)
  BY <1>4 DEF PicksUp, Reading
<1>5. Good(Idle)
  <2>1. Idle.op = "none"
    BY DEF Idle
  <2> QED
    BY <1>4, <2>1
<1>6. Good(Fail(s))
  <2>1. Same(Fail(s))
    BY <1>1, FailIs DEF SameWork
  <2> QED
    BY <1>4, <2>1
<1>7. ASSUME NEW c PROVE Good([s EXCEPT !.pc = c])
  <2> DEFINE t == [s EXCEPT !.pc = c]
  <2>1. Same(t)
    BY <1>1 DEF Memory
  <2> HIDE DEF t
  <2>2. Good(t)
    BY <1>4, <2>1
  <2> QED
    BY <2>2 DEF t
<1> HIDE DEF Good
<1>8. CASE read_lstat(p) \/ read_open(p) \/ packed_read_raw_ref(p)
  <2>1. Looks(s)
    BY <1>8 DEF read_lstat, read_open, packed_read_raw_ref, At, Looks
  <2>2. /\ Changes(s) => s.pos \in DOMAIN s.txn /\ s.txn[s.pos].ref \in Ref
        /\ s.op # "none" /\ s.target \in Ref
    BY <1>1, <2>1, TxnFacts DEF Sound
  <2>3. loose[s.target] \in Oid /\ packed[s.target] \in Oid
    BY <1>1, <2>2 DEF RSInv, FilesOK
  <2>4. ASSUME NEW v \in Oid, NEW b \in BOOLEAN,
               v \in {Null, Val(loose, packed, s.target), packed[s.target]}
        PROVE  Good(Deliver(s, v, b))
    <3>1. Deliver(s, v, b).op = s.op /\ PicksUp(s, Deliver(s, v, b), loose, packed)
      BY <1>1, <2>1, <2>2, <2>4, DeliverPicksUp
    <3> QED
      BY <3>1 DEF Good, Reading
  <2>5. CASE read_lstat(p)
    <3> DEFINE c == IF loose[s.target] = Null THEN "readpacked" ELSE "open"
               t == [s EXCEPT !.tries = @ + 1, !.pc = c]
    <3>1. Become(p, Deliver(s, Null, FALSE)) \/ Become(p, t)
      BY <2>5 DEF read_lstat
    <3>2. Same(t)
      BY <1>1 DEF Memory
    <3> HIDE DEF t
    <3>3. Good(t)
      BY <1>4, <3>2
    <3>4. Good(Deliver(s, Null, FALSE))
      BY <2>4, Constants
    <3> QED
      BY <1>2, <3>1, <3>3, <3>4
  <2>6. CASE read_open(p)
    <3>1. CASE loose[s.target] = Null
      BY <1>2, <1>7, <2>6, <3>1 DEF read_open
    <3>2. CASE loose[s.target] # Null
      <4>1. Val(loose, packed, s.target) = loose[s.target]
        BY <3>2 DEF Val
      <4>2. Good(Deliver(s, loose[s.target], FALSE))
        BY <2>3, <2>4, <4>1
      <4> QED
        BY <1>2, <2>6, <3>2, <4>2 DEF read_open
    <3> QED
      BY <3>1, <3>2
  <2>7. CASE packed_read_raw_ref(p)
    <3>1. Become(p, Deliver(s, packed[s.target], packed[s.target] # Null))
      BY <2>7 DEF packed_read_raw_ref
    <3>2. Good(Deliver(s, packed[s.target], packed[s.target] # Null))
      BY <2>3, <2>4
    <3> QED
      BY <1>2, <3>1, <3>2
  <2> QED
    BY <1>8, <2>5, <2>6, <2>7
<1>9. CASE \/ packed_refs_lock(p) \/ should_pack_refs(p) \/ write_with_updates(p)
           \/ files_transaction_finish(p)
  <2>1. PICK c : Become(p, [s EXCEPT !.pc = c]) \/ Become(p, Fail(s)) \/ Become(p, Idle)
    BY <1>9 DEF packed_refs_lock, should_pack_refs, write_with_updates,
                files_transaction_finish
  <2> QED
    BY <1>2, <1>5, <1>6, <1>7, <2>1
<1>10. CASE lock_raw_ref(p)
  <2> DEFINE t == [s EXCEPT !.pc = "stat", !.target = s.txn[s.pos].ref, !.tries = 0]
  <2>1. Become(p, t) \/ Become(p, Fail(s))
    BY <1>10 DEF lock_raw_ref
  <2>2. Same(t)
    BY <1>1 DEF Memory
  <2> HIDE DEF t
  <2> QED
    BY <1>2, <1>4, <1>6, <2>1, <2>2
<1>11. CASE loose_fill_ref_dir(p)
  <2>1. PICK r, c : Become(p, [s EXCEPT !.todo = @ \ {r}, !.target = r, !.tries = 0, !.pc = c])
    BY <1>11 DEF loose_fill_ref_dir
  <2> DEFINE t == [s EXCEPT !.todo = @ \ {r}, !.target = r, !.tries = 0, !.pc = c]
  <2>2. Same(t) /\ Become(p, t)
    BY <1>1, <2>1 DEF Memory
  <2> HIDE DEF t
  <2> QED
    BY <1>2, <1>4, <2>2
<1>12. CASE packed_ref_iterator_begin(p)
  <2>1. s.op = "iter"
    BY <1>12 DEF packed_ref_iterator_begin
  <2>2. PICK c : Become(p, [s EXCEPT !.pc = "return", !.cache = c])
    BY <1>12 DEF packed_ref_iterator_begin
  <2>3. [s EXCEPT !.pc = "return", !.cache = c].op = "iter"
    BY <1>1, <2>1 DEF Memory
  <2> QED
    BY <1>2, <2>1, <2>2, <2>3 DEF Good, PicksUp, Reading
<1>13. CASE ReadReturns(p)
  BY <1>2, <1>5, <1>13 DEF ReadReturns
<1>14. CASE deactivate_tempfile(p)
  <2> DEFINE t == [s EXCEPT !.linger = {}]
  <2>1. Become(p, t) /\ Same(t)
    BY <1>1, <1>14 DEF deactivate_tempfile, Memory
  <2> HIDE DEF t
  <2> QED
    BY <1>2, <1>4, <2>1
<1>15. CASE unlock_ref(p) \/ packed_transaction_cleanup(p)
  <2>1. proc' = proc
    BY <1>15 DEF unlock_ref, packed_transaction_cleanup
  <2> QED
    BY <1>4, <2>1
<1>16. CASE packed_refs_unlock(p) \/ files_transaction_cleanup(p)
  <2>1. \/ Become(p, Idle)
        \/ \E w : \E n \in NextPrune(w) : Become(p, n)
    BY <1>16 DEF packed_refs_unlock, files_transaction_cleanup
  <2>2. ASSUME NEW w, NEW n \in NextPrune(w) PROVE n.op \in {"none", "prune"}
    <3>1. CASE n = Idle
      BY <3>1 DEF Idle
    <3>2. CASE n # Idle
      <4>1. PICK x, d, c : n = [Idle EXCEPT !.op = "prune", !.pc = "lock", !.pos = 1,
                                            !.todo = d, !.cache = c, !.txn = x]
        BY <3>2 DEF NextPrune
      <4> QED
        BY <4>1 DEF Idle
    <3> QED
      BY <3>1, <3>2
  <2> QED
    BY <1>2, <1>4, <1>5, <2>1, <2>2
<1> QED
  BY <1>8, <1>9, <1>10, <1>11, <1>12, <1>13, <1>14, <1>15, <1>16 DEF Prepares

\* A step of p: it suffices to look at what p itself reads.
LEMMA OneReader ==
    ASSUME ReadersInv, Track, Sources, NEW p, \A q \in Proc \ {p} : proc'[q] = proc[q],
           p \in Proc /\ Reading(proc'[p]) => \A r \in Ref :
              /\ Follow(window'[p][r], loose', packed', doubt', r)
              /\ Finds(proc'[p], window'[p][r], Coming(proc', packed', r), r)
    PROVE  ReadersInv'
<1> SUFFICES ASSUME NEW q \in Proc, Reading(proc'[q]), NEW r \in Ref
             PROVE  /\ Follow(window'[q][r], loose', packed', doubt', r)
                    /\ Finds(proc'[q], window'[q][r], Coming(proc', packed', r), r)
  BY DEF ReadersInv, Follow, Finds, Coming, Missed, Val, Reading, Looks
<1>1. CASE q = p
  BY <1>1
<1>2. CASE q # p
  <2>1. proc'[q] = proc[q]
    BY <1>2
  <2> QED
    BY <2>1, ReaderWaits
<1> QED
  BY <1>1, <1>2

\* Reading, locking, staging and cleaning up.
LEMMA PreparesReads ==
    ASSUME DeepInv, ReadersInv, Track, NEW p \in Proc, Prepares(p)
    PROVE  ReadersInv'
<1>1. packed' = packed /\ \A q \in Proc \ {p} : proc'[q] = proc[q]
  BY PreparesLeaves DEF Leaves
<1>2. PicksUp(proc[p], proc'[p], loose, packed) /\ (Reading(proc'[p]) => Reading(proc[p]))
  BY PreparesPicksUp
<1>3. Sources
  BY <1>1, <1>2, NothingComes
<1>4. ASSUME Reading(proc'[p]), NEW r \in Ref
      PROVE  /\ Follow(window'[p][r], loose', packed', doubt', r)
             /\ Finds(proc'[p], window'[p][r], Coming(proc', packed', r), r)
  <2>1. Reading(proc[p])
    BY <1>2, <1>4
  <2>2. CASE \/ read_lstat(p) \/ read_open(p) \/ packed_read_raw_ref(p)
             \/ loose_fill_ref_dir(p) \/ packed_ref_iterator_begin(p)
    <3>1. Finds(proc'[p], window[p][r], Coming(proc, packed, r), r)
      BY <2>1, <2>2, LooksReads, FillReads
    <3> QED
      BY <1>1, <1>4, <2>1, <3>1, ReaderActs
  <2>3. CASE ReadReturns(p)
    <3>1. proc'[p].op = "none"
      BY <2>3 DEF ReadReturns, Become, DeepInv, RSInv, Idle
    <3> QED
      BY <1>4, <3>1 DEF Reading
  <2>4. CASE unlock_ref(p) \/ packed_transaction_cleanup(p)
    <3>1. proc' = proc
      BY <2>4 DEF unlock_ref, packed_transaction_cleanup
    <3> QED
      BY <1>3, <2>1, <3>1, ReaderWaits
  <2>5. CASE \/ lock_raw_ref(p) \/ packed_refs_lock(p) \/ should_pack_refs(p)
             \/ write_with_updates(p) \/ deactivate_tempfile(p) \/ files_transaction_finish(p)
             \/ packed_refs_unlock(p) \/ files_transaction_cleanup(p)
    <3>1. proc[p].pc \notin {"fill", "return"} \/ proc[p].op = "pack"
      BY <2>5 DEF lock_raw_ref, packed_refs_lock, should_pack_refs, write_with_updates,
                  deactivate_tempfile, files_transaction_finish, packed_refs_unlock,
                  files_transaction_cleanup, At
    <3>2. proc[p].pc \notin {"stat", "open", "readpacked", "idle"}
      BY <2>5 DEF lock_raw_ref, packed_refs_lock, should_pack_refs, write_with_updates,
                  deactivate_tempfile, files_transaction_finish, packed_refs_unlock,
                  files_transaction_cleanup, At
    <3>3. proc[p] \in Memory /\ Sound(proc[p])
      BY DEF DeepInv, RSInv
    <3>4. proc[p].op \in {"txn", "prune", "pack"}
      BY <3>1, <3>2, <3>3 DEF Sound, Memory, Changes
    <3> QED
      BY <2>1, <3>4 DEF Reading
  <2> QED
    BY <2>2, <2>3, <2>4, <2>5 DEF Prepares
<1> QED
  BY <1>1, <1>3, <1>4, OneReader

\* packed-refs is replaced: by what it had, by what a packing had read, or
\* without the lines that a transaction deletes.
LEMMA ReplaceReads ==
    ASSUME DeepInv, ReadersInv, Track, NEW p \in Proc, doubt' = doubt \ Settled(p),
           packed_transaction_finish(p)
    PROVE  ReadersInv'
<1>1. /\ \A q \in Proc \ {p} : proc'[q] = proc[q]
      /\ proc[p].op \in {"txn", "pack"}
  BY ReplaceIs
<1>2. /\ proc'[p].op = proc[p].op
      /\ \A r \in Ref : proc[p].op = "pack" => proc'[p].cache[r] = proc[p].cache[r]
      /\ \A r \in Ref : \/ packed'[r] \in {packed[r], Null}
                        \/ /\ proc[p].op = "pack" /\ proc[p].cache[r] # Null
                           /\ packed'[r] = proc[p].cache[r]
  <2>1. CASE proc[p].op = "pack"
    BY <2>1, PackReplaces
  <2>2. CASE proc[p].op = "txn"
    <3> DEFINE s == proc[p]
               D == Deletes(s) \ NeedsUnlink(s)
    <3>1. /\ DoneMore(s, proc'[p], D)
          /\ \A i \in Deletes(s) : /\ i \notin s.did /\ s.txn[i].ref \in Ref
                                   /\ reflock[s.txn[i].ref] = p
                                   /\ s.got[s.txn[i].ref] # Unread
                                   /\ packed'[s.txn[i].ref] = Null
          /\ \A r \in Ref : r \notin { s.txn[i].ref : i \in Deletes(s) } =>
                               packed'[r] = packed[r]
      BY <2>2, TxnReplaces
    <3>2. ASSUME NEW r \in Ref PROVE packed'[r] \in {packed[r], Null}
      <4>1. CASE r \in { s.txn[i].ref : i \in Deletes(s) }
        BY <3>1, <4>1
      <4>2. CASE r \notin { s.txn[i].ref : i \in Deletes(s) }
        BY <3>1, <4>2
      <4> QED
        BY <4>1, <4>2
    <3>3. proc'[p].op = proc[p].op
      BY <3>1 DEF DoneMore
    <3> QED
      BY <2>2, <3>2, <3>3
  <2> QED
    BY <1>1, <2>1, <2>2
<1>3. Sources
  <2> SUFFICES ASSUME NEW r \in Ref, NEW v \in Coming(proc', packed', r),
                      ~ (r \in Unpacked /\ v = Null)
               PROVE  v \in Coming(proc, packed, r)
    BY DEF Sources
  <2>1. CASE v = packed'[r]
    BY <1>2, <2>1 DEF Coming, Unpacked
  <2>2. ASSUME NEW q \in Proc, proc'[q].op = "pack", proc'[q].cache[r] # Null,
               v = proc'[q].cache[r]
        PROVE  v \in Coming(proc, packed, r)
    <3>1. proc[q].op = "pack" /\ proc[q].cache[r] = proc'[q].cache[r]
      BY <1>1, <1>2, <2>2
    <3> QED
      BY <2>2, <3>1 DEF Coming
  <2> QED
    BY <2>1, <2>2 DEF Coming
<1>4. ~ Reading(proc'[p])
  BY <1>1, <1>2 DEF Reading
<1> QED
  BY <1>1, <1>3, <1>4, OneReader

\* Every step of a careful store keeps what its readers rely on.
LEMMA NextReads ==
    ASSUME Careful, DeepInv, ReadersInv, [RSNext]_rsVars
    PROVE  ReadersInv'
<1>1. RSInv
  BY DEF DeepInv
<1>2. \A p \in Proc : \A t : Become(p, t) =>
         proc'[p] = t /\ \A q \in Proc \ {p} : proc'[q] = proc[q]
  BY <1>1 DEF Become, RSInv
<1>3. ASSUME NEW p \in Proc, Track, packed' = packed, \A q \in Proc \ {p} : proc'[q] = proc[q],
             proc'[p].op \in {"none", "txn", "prune"} \/ proc'[p].op = proc[p].op,
             proc'[p].op = "pack" => proc'[p].cache = proc[p].cache, ~ Reading(proc'[p])
      PROVE  ReadersInv'
  <2>1. PicksUp(proc[p], proc'[p], loose, packed)
    BY <1>3 DEF PicksUp
  <2> QED
    BY <1>3, <2>1, NothingComes, OneReader
<1>4. ASSUME NEW p \in Proc, Run(p) PROVE ReadersInv'
  <2>1. Step(p) /\ doubt' = doubt \ Settled(p) /\ Track
    BY <1>4 DEF Run
  <2>2. CASE Prepares(p)
    BY <2>1, <2>2, PreparesReads
  <2>3. CASE commit_ref(p)
    <3>1. /\ packed' = packed /\ proc[p].op = "txn" /\ proc'[p].op = proc[p].op
          /\ \A q \in Proc \ {p} : proc'[q] = proc[q]
      BY <2>1, <2>3, CommitIs DEF DoneMore
    <3> QED
      BY <1>3, <2>1, <3>1 DEF Reading
  <2>4. CASE unlink_loose(p)
    <3>1. /\ packed' = packed /\ proc[p].op \in {"txn", "prune"} /\ proc'[p].op = proc[p].op
          /\ \A q \in Proc \ {p} : proc'[q] = proc[q]
      BY <2>1, <2>4, UnlinkIs DEF DoneMore
    <3> QED
      BY <1>3, <2>1, <3>1 DEF Reading
  <2>5. CASE packed_transaction_finish(p)
    BY <2>1, <2>5, ReplaceReads
  <2> QED
    BY <2>1, <2>2, <2>3, <2>4, <2>5 DEF Step, Prepares
<1>5. ASSUME NEW p \in Proc, Start(p), Track PROVE ReadersInv'
  <2>1. packed' = packed /\ \E t : Become(p, t)
    BY <1>5 DEF Start, ref_transaction_commit, files_pack_refs, files_read_raw_ref,
                files_ref_iterator_begin, files
  <2>2. \A r \in Ref : proc'[p].cache[r] = Null
    <3>1. proc'[p].cache = Idle.cache
      <4> DEFINE Same(t) == t.cache = Idle.cache
      <4>1. CASE ref_transaction_commit(p)
        <5>1. PICK x : Become(p, [Idle EXCEPT !.op = "txn", !.pc = "lock", !.pos = 1, !.txn = x])
          BY <4>1 DEF ref_transaction_commit
        <5>2. Same([Idle EXCEPT !.op = "txn", !.pc = "lock", !.pos = 1, !.txn = x])
          BY DEF Idle
        <5> QED
          BY <1>2, <5>1, <5>2
      <4>2. CASE files_pack_refs(p)
        <5>1. PICK c : Become(p, [Idle EXCEPT !.op = "pack", !.todo = Ref, !.pc = c])
          BY <4>2 DEF files_pack_refs
        <5>2. Same([Idle EXCEPT !.op = "pack", !.todo = Ref, !.pc = c])
          BY DEF Idle
        <5> QED
          BY <1>2, <5>1, <5>2
      <4>3. CASE files_read_raw_ref(p)
        <5>1. PICK x : Become(p, [Idle EXCEPT !.op = "read", !.pc = "stat", !.target = x])
          BY <4>3 DEF files_read_raw_ref
        <5>2. Same([Idle EXCEPT !.op = "read", !.pc = "stat", !.target = x])
          BY DEF Idle
        <5> QED
          BY <1>2, <5>1, <5>2
      <4>4. CASE files_ref_iterator_begin(p)
        <5>1. Become(p, [Idle EXCEPT !.op = "iter", !.pc = "fill", !.todo = Ref])
          BY <4>4 DEF files_ref_iterator_begin
        <5>2. Same([Idle EXCEPT !.op = "iter", !.pc = "fill", !.todo = Ref])
          BY DEF Idle
        <5> QED
          BY <1>2, <5>1, <5>2
      <4> QED
        BY <1>5, <4>1, <4>2, <4>3, <4>4 DEF Start
    <3> QED
      BY <3>1 DEF Idle
  <2>3. Sources
    BY <1>2, <2>1, <2>2, NothingComes DEF PicksUp
  <2> QED
    BY <1>2, <1>5, <2>1, <2>3, StartReads, OneReader
<1>6. ASSUME NEW p \in Proc, Interrupted(p), Track PROVE ReadersInv'
  <2>1. packed' = packed
    BY <1>6 DEF Interrupted, Killed, remove_tempfiles_on_signal, CallFails, files
  <2>2. CASE CallFails(p)
    <3>1. Become(p, Fail(proc[p])) /\ Changes(proc[p])
      BY <1>1, <2>2 DEF CallFails, At, RSInv, Sound, Changes
    <3>2. Fail(proc[p]).op = proc[p].op
      BY <1>1, FailIs DEF SameWork, RSInv
    <3> QED
      BY <1>2, <1>3, <1>6, <2>1, <3>1, <3>2 DEF Changes, Reading
  <2>3. CASE Killed(p) \/ remove_tempfiles_on_signal(p)
    <3>1. Become(p, Idle) /\ Idle.op = "none"
      BY <2>3 DEF Killed, remove_tempfiles_on_signal, Idle
    <3> QED
      BY <1>2, <1>3, <1>6, <2>1, <3>1 DEF Reading
  <2> QED
    BY <1>6, <2>2, <2>3 DEF Interrupted
<1>7. CASE UserRemovesStale /\ Track
  <2>1. proc' = proc /\ packed' = packed
    BY <1>7 DEF UserRemovesStale
  <2>2. Sources
    BY <2>1 DEF Sources, Coming
  <2> QED
    BY <1>7, <2>1, <2>2, Constants, OneReader
<1>8. CASE UNCHANGED rsVars
  <2>1. proc' = proc /\ loose' = loose /\ packed' = packed /\ doubt' = doubt /\ window' = window
    BY <1>8 DEF rsVars, files
  <2>2. \A r : Coming(proc', packed', r) = Coming(proc, packed, r)
    BY <2>1 DEF Coming
  <2> SUFFICES ASSUME NEW q \in Proc, Reading(proc'[q]), NEW r \in Ref
               PROVE  /\ Follow(window'[q][r], loose', packed', doubt', r)
                      /\ Finds(proc'[q], window'[q][r], Coming(proc', packed', r), r)
    BY DEF ReadersInv, Follow, Finds, Coming, Missed, Val, Reading, Looks
  <2> QED
    BY <2>1, <2>2 DEF ReadersInv
<1> QED
  BY <1>4, <1>5, <1>6, <1>7, <1>8 DEF RSNext

\* A reader that takes no lock gets, of every reference it did not give up
\* on, a value that it had while the read was under way, whatever updates, deletions, packings and
\* prunings overlap with it (read_ref_internal(), files_ref_iterator_begin()).
THEOREM StoreReadsCurrent ==
    ASSUME Careful
    PROVE  RSSpec => []ReadsAreCurrent
<1>1. RSInit => ReadersInv
  <2> SUFFICES ASSUME RSInit PROVE \A p \in Proc : ~ Reading(proc[p])
    BY DEF ReadersInv
  <2>1. \A p \in Proc : proc[p] = Idle
    BY DEF RSInit
  <2>2. ~ Reading(Idle)
    BY DEF Reading, Idle
  <2> QED
    BY <2>1, <2>2
<1>2. DeepInv /\ ReadersInv /\ [RSNext]_rsVars => ReadersInv'
  BY NextReads
<1>3. ASSUME DeepInv, ReadersInv PROVE ReadsAreCurrent
  <2> SUFFICES ASSUME NEW p \in Proc, At(p, "return"),
                      NEW r \in IF proc[p].op = "read" THEN {proc[p].target} ELSE Ref,
                      ~ GaveUp(p, r)
               PROVE  proc[p].cache[r] \in window[p][r]
    BY DEF ReadsAreCurrent
  <2>1. proc[p].pc = "return" /\ proc[p].op \in {"read", "iter"} /\ r \in Ref
    BY <1>3 DEF At, DeepInv, RSInv, Sound
  <2>2. Finds(proc[p], window[p][r], Coming(proc, packed, r), r)
    BY <1>3, <2>1 DEF ReadersInv, Reading
  <2> QED
    BY <2>1, <2>2 DEF Finds, GaveUp
<1> QED
  BY <1>1, <1>2, <1>3, StoreDeepInvariant, PTL DEF RSSpec
=============================================================================
