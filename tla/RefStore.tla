------------------------------ MODULE RefStore ------------------------------
(***************************************************************************)
(* git's "files" reference store (refs/files-backend.c) on top of its      *)
(* packed store (refs/packed-backend.c) and its lock files (lockfile.c,    *)
(* tempfile.c), shared by several git processes.                           *)
(*                                                                         *)
(* A reference is a loose file, a line of the file packed-refs, or both;   *)
(* the loose file wins.  A transaction locks its references one by one     *)
(* (<ref>.lock, O_EXCL), reads each under its lock, checks the old value   *)
(* and writes the new one into the lock file; a deletion also locks        *)
(* packed-refs and stages packed-refs.new.  Finishing renames lock files   *)
(* onto the references, then packed-refs.new onto packed-refs, and only    *)
(* then unlinks loose files.  pack-refs copies loose values to packed-refs *)
(* and prunes the loose files with one transaction each.  Readers take no  *)
(* lock.  A process may be killed outright (its lock files stay), or by a  *)
(* signal whose handler removes them, or see a file operation fail.        *)
(*                                                                         *)
(* Every step is one system call on a shared file, with the computation    *)
(* in the process's own memory that follows it.                            *)
(***************************************************************************)
EXTENDS Integers, Sequences, FiniteSets

CONSTANTS Proc,          \* git processes
          Ref,           \* reference names
          InitLoose,     \* reference -> value of its loose file at the start
          InitPacked,    \* reference -> value in packed-refs at the start
          FirstOid,      \* first object name not in use at the start
          MaxOid,        \* bound: object names
          MaxOps,        \* bound: process -> operations it starts
          MaxFaults,     \* bound: kills, signals and failing calls
          Requests,      \* transactions callers ask for: sequences of what
                         \* to do with a reference and whether its old value
                         \* is to be checked
          AutoModes,     \* {FALSE}: plain pack-refs; {TRUE}: pack-refs --auto
          OidsRecur,     \* a reference may be set back to an earlier value
          SignalWindow   \* a signal may hit between rename() and the
                         \* removal of the lock from the process's list (the
                         \* like window after the unlink() of delete_tempfile()
                         \* is left out)

Null == 0                \* the null object name: no such reference
Oid  == 0 .. MaxOid
Any  == -1               \* update without REF_HAVE_OLD
Keep == -1               \* update without REF_HAVE_NEW
Free  == "free"          \* the lock file does not exist
Stale == "stale"         \* the lock file was left by a killed process
Unread == [val |-> Any, packed |-> FALSE]   \* not yet read and checked

ASSUME RefStoreAssumption ==
    /\ InitLoose \in [Ref -> Oid] /\ InitPacked \in [Ref -> Oid]
    /\ {FirstOid, MaxOid, MaxFaults} \subseteq Nat
    /\ \A r \in Ref : InitLoose[r] < FirstOid /\ InitPacked[r] < FirstOid
    /\ MaxOps \in [Proc -> Nat]
    /\ \A q \in Requests :
        /\ q \in Seq([ref : Ref, ask : {"set", "delete", "verify"}, check : BOOLEAN])
        /\ q # <<>> /\ \A i, j \in DOMAIN q : q[i].ref = q[j].ref => i = j
    /\ AutoModes \subseteq BOOLEAN
    /\ {OidsRecur, SignalWindow} \subseteq BOOLEAN
    /\ Proc \cap {Free, Stale} = {}

VARIABLES
    loose,     \* reference -> content of its file (Null: no file)
    packed,    \* reference -> its line in packed-refs (Null: no line)
    reflock,   \* reference -> who created <ref>.lock
    packlock,  \* who created packed-refs.lock
    staging,   \* packed-refs.new: who created it, and its content
    proc,      \* process -> its memory
    ops, faults, fresh,   \* what the bounds bound; next unused object name
    window,    \* history: process -> the values each reference has had
               \* since its current read began, Null from the moment it is
               \* taken out of packed-refs, anything while it is in doubt
    doubt      \* history: references whose deletion was interrupted between
               \* the removal of the packed line and that of the loose file

files  == <<loose, packed, reflock, packlock, staging>>
bounds == <<ops, faults, fresh>>
rsVars == <<files, proc, bounds, window, doubt>>

NoStaging == [by |-> Free, refs |-> [r \in Ref |-> Null]]

\* A git process between two operations: nothing in memory survives.  cache
\* holds what was read, broken the entries REF_ISBROKEN, and gaveup (history)
\* the references whose read ran out of tries.
Idle == [pc |-> "idle", op |-> "none", txn |-> <<>>, pos |-> 0, target |-> "",
         got |-> [r \in Ref |-> Unread], tries |-> 0, todo |-> {},
         cache |-> [r \in Ref |-> Null], broken |-> {}, gaveup |-> {},
         failed |-> FALSE, did |-> {}, linger |-> {}]

\* The value of a reference: what the store means by its files.
Value(r) == IF loose[r] # Null THEN loose[r] ELSE packed[r]

RSInit ==
    /\ loose = InitLoose
    /\ packed = InitPacked
    /\ reflock = [r \in Ref |-> Free]
    /\ packlock = Free
    /\ staging = NoStaging
    /\ proc = [p \in Proc |-> Idle]
    /\ ops = [p \in Proc |-> 0] /\ faults = 0 /\ fresh = FirstOid
    /\ doubt = {}
    /\ window = [p \in Proc |-> [r \in Ref |-> {}]]

At(p, pc) == proc[p].pc = pc
Become(p, s) == proc' = [proc EXCEPT ![p] = s]

(***************************************************************************)
(* Starting an operation                                                   *)
(***************************************************************************)

Starts(p) ==
    /\ At(p, "idle") /\ ops[p] < MaxOps[p]
    /\ ops' = [ops EXCEPT ![p] = @ + 1]

\* Object names a caller may write now.
NewOids == IF OidsRecur THEN 1 .. MaxOid
           ELSE IF fresh \in Oid THEN {fresh} ELSE {}

\* The caller checks against the value it has read before.
Transaction(q, v) ==
    [i \in DOMAIN q |->
        [ref |-> q[i].ref,
         new |-> CASE q[i].ask = "set" -> v
                   [] q[i].ask = "delete" -> Null
                   [] q[i].ask = "verify" -> Keep,
         old |-> IF q[i].check THEN Value(q[i].ref) ELSE Any]]

ref_transaction_commit(p) ==
    /\ Starts(p)
    /\ \E v \in NewOids, q \in Requests :
        /\ Become(p, [Idle EXCEPT !.op = "txn", !.pc = "lock", !.pos = 1,
                                  !.txn = Transaction(q, v)])
        /\ fresh' = IF v = fresh /\ \E i \in DOMAIN q : q[i].ask = "set"
                    THEN fresh + 1 ELSE fresh
    /\ UNCHANGED <<files, faults>>

\* --auto walks the loose references, and so fills the cache, before
\* packed-refs is locked.
files_pack_refs(p) ==
    /\ Starts(p)
    /\ \E auto \in AutoModes :
        Become(p, [Idle EXCEPT !.op = "pack", !.todo = Ref,
                               !.pc = IF auto THEN "fill" ELSE "packlock"])
    /\ UNCHANGED <<files, faults, fresh>>

files_read_raw_ref(p) ==
    /\ Starts(p)
    /\ \E r \in Ref :
        Become(p, [Idle EXCEPT !.op = "read", !.pc = "stat", !.target = r])
    /\ UNCHANGED <<files, faults, fresh>>

files_ref_iterator_begin(p) ==
    /\ Starts(p)
    /\ Become(p, [Idle EXCEPT !.op = "iter", !.pc = "fill", !.todo = Ref])
    /\ UNCHANGED <<files, faults, fresh>>

(***************************************************************************)
(* Reading one reference without any lock of its own: lstat() the file,    *)
(* fall back on packed-refs when there is none, open it when there is one, *)
(* and look again when it vanished in between.  The same function reads    *)
(* under a transaction's lock, and for the cache of loose references.      *)
(***************************************************************************)

Fail(s) == [s EXCEPT !.pc = "cleanup", !.failed = TRUE]

Deletes(s) == { i \in DOMAIN s.txn : s.txn[i].new = Null }

\* Every reference is locked: a deletion (not a pruning) goes on to lock
\* packed-refs, everything else is ready to be finished.
NextUpdate(s) ==
    CASE s.pos < Len(s.txn) -> [s EXCEPT !.pos = @ + 1, !.pc = "lock"]
      [] s.pos = Len(s.txn) /\ s.op = "txn" /\ Deletes(s) # {} ->
            [s EXCEPT !.pc = "packlock"]
      [] OTHER -> [s EXCEPT !.pc = "finish"]

\* check_old_oid(): the value read under the lock against the one expected.
lock_ref_for_update(s, v, isPacked) ==
    IF s.txn[s.pos].old \notin {Any, v}
    THEN Fail(s)
    ELSE NextUpdate([s EXCEPT !.got[s.txn[s.pos].ref] =
                                  [val |-> v, packed |-> isPacked]])

\* A read that ends at lstat() has given up.
GivenUp(s) == IF s.pc = "stat" THEN {s.target} ELSE {}

\* What the caller of the read does with the value.  Filling the cache adds
\* an entry for every file readdir() has found: a broken one when by now it
\* is neither loose nor packed, or when the read gave up.
Deliver(s, v, isPacked) ==
    CASE s.op \in {"txn", "prune"} -> lock_ref_for_update(s, v, isPacked)
      [] s.op \in {"pack", "iter"} ->
            [s EXCEPT !.pc = "fill", !.cache[s.target] = v,
                      !.broken = @ \cup (IF v = Null THEN {s.target} ELSE {}),
                      !.gaveup = @ \cup GivenUp(s)]
      [] s.op = "read" ->
            [s EXCEPT !.pc = "return", !.cache[s.target] = v,
                      !.gaveup = @ \cup GivenUp(s)]

ReadTries == 3   \* remaining_retries

\* [mutant] the count of the tries is one too low
GiveUpEarly(p) ==
    LET s == proc[p] IN
    /\ At(p, "stat")
    /\ Become(p, IF s.tries = ReadTries - 1 THEN Deliver(s, Null, FALSE)
                 ELSE [s EXCEPT !.tries = @ + 1,
                                !.pc = IF loose[s.target] = Null
                                       THEN "readpacked" ELSE "open"])
    /\ UNCHANGED <<files, bounds>>

read_lstat(p) ==
    LET s == proc[p] IN
    /\ At(p, "stat")
    /\ Become(p, IF s.tries = ReadTries THEN Deliver(s, Null, FALSE)
                 ELSE [s EXCEPT !.tries = @ + 1,
                                !.pc = IF loose[s.target] = Null
                                       THEN "readpacked" ELSE "open"])
    /\ UNCHANGED <<files, bounds>>

\* [mutant] a file that vanished after lstat() is reported as missing
OpenOnce(p) ==
    /\ At(p, "open")
    /\ Become(p, Deliver(proc[p], loose[proc[p].target], FALSE))
    /\ UNCHANGED <<files, bounds>>

read_open(p) ==
    LET s == proc[p] IN
    /\ At(p, "open")
    /\ IF loose[s.target] = Null
       THEN Become(p, [s EXCEPT !.pc = "stat"])
       ELSE Become(p, Deliver(s, loose[s.target], FALSE))
    /\ UNCHANGED <<files, bounds>>

packed_read_raw_ref(p) ==
    LET s == proc[p] IN
    /\ At(p, "readpacked")
    /\ Become(p, Deliver(s, packed[s.target], packed[s.target] # Null))
    /\ UNCHANGED <<files, bounds>>

(***************************************************************************)
(* The cache of loose references: readdir() finds a file, which is then    *)
(* read as above.                                                          *)
(***************************************************************************)

loose_fill_ref_dir(p) ==
    /\ At(p, "fill")
    /\ \E r \in proc[p].todo :
        Become(p, [proc[p] EXCEPT
                     !.todo = @ \ {r}, !.target = r, !.tries = 0,
                     !.pc = IF loose[r] = Null THEN "fill" ELSE "stat"])
    /\ UNCHANGED <<files, bounds>>

\* Iterating: only when all loose references are in the cache is the
\* packed-refs file consulted, for those that have no entry there.  A broken
\* entry hides the packed line, and is then left out.
packed_ref_iterator_begin(p) ==
    /\ At(p, "fill") /\ proc[p].op = "iter" /\ proc[p].todo = {}
    /\ Become(p, [proc[p] EXCEPT
                     !.pc = "return",
                     !.cache = [r \in Ref |->
                         IF @[r] # Null \/ r \in proc[p].broken THEN @[r]
                         ELSE packed[r]]])
    /\ UNCHANGED <<files, bounds>>

ReadReturns(p) ==
    /\ At(p, "return")
    /\ Become(p, Idle)
    /\ UNCHANGED <<files, bounds>>

(***************************************************************************)
(* Preparing a transaction                                                 *)
(***************************************************************************)

\* [mutant] waits for the lock file for ever
LockWaits(p) ==
    LET s == proc[p]
        r == s.txn[s.pos].ref
    IN
    /\ At(p, "lock") /\ reflock[r] = Free
    /\ reflock' = [reflock EXCEPT ![r] = p]
    /\ Become(p, [s EXCEPT !.pc = "stat", !.target = r, !.tries = 0])
    /\ UNCHANGED <<loose, packed, packlock, staging, bounds>>

\* The lock file is created, or it exists and, after some retries, the
\* time-out has passed.
lock_raw_ref(p) ==
    LET s == proc[p]
        r == s.txn[s.pos].ref
    IN
    /\ At(p, "lock")
    /\ \/ /\ reflock[r] = Free
          /\ reflock' = [reflock EXCEPT ![r] = p]
          /\ Become(p, [s EXCEPT !.pc = "stat", !.target = r, !.tries = 0])
       \/ /\ reflock[r] # Free
          /\ Become(p, Fail(s))
          /\ UNCHANGED reflock
    /\ UNCHANGED <<loose, packed, packlock, staging, bounds>>

\* A transaction whose references are in packed-refs stages a new file; one
\* whose references are not skips that, but keeps packed-refs locked.
is_packed_transaction_needed(s) ==
    \E i \in Deletes(s) : packed[s.txn[i].ref] # Null

packed_refs_lock(p) ==
    LET s == proc[p] IN
    /\ At(p, "packlock")
    /\ \/ /\ packlock = Free
          /\ packlock' = p
          /\ Become(p, [s EXCEPT !.pc =
                 CASE s.op = "pack" /\ s.todo # {} -> "fill"
                   [] s.op = "pack" /\ s.todo = {} -> "stage"
                   [] s.op = "txn" /\ is_packed_transaction_needed(s) -> "stage"
                   [] OTHER -> "finish"])
       \/ /\ packlock # Free
          /\ Become(p, IF s.op = "pack" THEN Idle ELSE Fail(s))
          /\ UNCHANGED packlock
    /\ UNCHANGED <<loose, packed, reflock, staging, bounds>>

\* pack-refs has its cache: with --auto it may find packing not worthwhile,
\* and it still has to lock packed-refs.
should_pack_refs(p) ==
    LET s == proc[p] IN
    /\ At(p, "fill") /\ s.op = "pack" /\ s.todo = {}
    /\ \E next \in IF packlock = p THEN { [s EXCEPT !.pc = "stage"] }
                   ELSE { [s EXCEPT !.pc = "packlock"], Idle } :
        Become(p, next)
    /\ UNCHANGED <<files, bounds>>

\* The current content of packed-refs with the updates merged into it.
NewPacked(s) ==
    [r \in Ref |->
        IF s.op = "pack"
        THEN IF s.cache[r] # Null THEN s.cache[r] ELSE packed[r]
        ELSE IF \E i \in Deletes(s) : s.txn[i].ref = r THEN Null ELSE packed[r]]

\* packed-refs.new is created with O_EXCL as well; pack-refs dies when it
\* cannot be, and the exit handler removes packed-refs.lock.
write_with_updates(p) ==
    LET s == proc[p] IN
    /\ At(p, "stage")
    /\ \/ /\ staging.by = Free
          /\ staging' = [by |-> p, refs |-> NewPacked(s)]
          /\ Become(p, [s EXCEPT !.pc =
                            IF s.op = "pack" THEN "packcommit" ELSE "finish"])
          /\ UNCHANGED packlock
       \/ /\ staging.by # Free
          /\ IF s.op = "pack"
             THEN Become(p, Idle) /\ packlock' = Free
             ELSE Become(p, Fail(s)) /\ UNCHANGED packlock
          /\ UNCHANGED staging
    /\ UNCHANGED <<loose, packed, reflock, bounds>>
(***************************************************************************)
(* Finishing a transaction: updates first, so that live commits remain     *)
(* referenced, then packed-refs, then the loose files of deleted           *)
(* references.                                                             *)
(***************************************************************************)

\* REF_NEEDS_COMMIT: the reference does not have the new value already.
NeedsCommit(s) ==
    { i \in DOMAIN s.txn \ s.did :
        /\ s.txn[i].new \notin {Null, Keep}
        /\ s.txn[i].new # s.got[s.txn[i].ref].val }

\* Deleted references whose loose file is still to be unlinked; a reference
\* that was read from packed-refs has none.
NeedsUnlink(s) == { i \in Deletes(s) \ s.did : ~ s.got[s.txn[i].ref].packed }

First(S) == CHOOSE i \in S : \A j \in S : i <= j

\* rename(<ref>.lock, <ref>) is the commit and the unlock in one; the lock
\* stays on the process's own list of files to remove for a moment longer.
commit_ref(p) ==
    LET s == proc[p] IN
    /\ At(p, "finish") /\ s.linger = {} /\ NeedsCommit(s) # {}
    /\ LET i == First(NeedsCommit(s))
           u == s.txn[i]
       IN /\ loose' = [loose EXCEPT ![u.ref] = u.new]
          /\ reflock' = [reflock EXCEPT ![u.ref] = Free]
          /\ Become(p, [s EXCEPT !.did = @ \cup {i}, !.linger = {u.ref}])
    /\ UNCHANGED <<packed, packlock, staging, bounds>>

deactivate_tempfile(p) ==
    /\ At(p, "finish") /\ proc[p].linger # {}
    /\ Become(p, [proc[p] EXCEPT !.linger = {}])
    /\ UNCHANGED <<files, bounds>>

Committed(s) == s.linger = {} /\ NeedsCommit(s) = {}

\* [mutant] packed-refs is replaced before the updates are in place
PackedFirst(p) ==
    LET s == proc[p] IN
    /\ At(p, "finish") \/ At(p, "packcommit")
    /\ staging.by = p
    /\ packed' = staging.refs
    /\ staging' = NoStaging
    /\ Become(p, IF s.op = "pack" THEN [s EXCEPT !.pc = "packunlock"]
                 ELSE [s EXCEPT !.did = @ \cup (Deletes(s) \ NeedsUnlink(s))])
    /\ UNCHANGED <<loose, reflock, packlock, bounds>>

\* rename(packed-refs.new, packed-refs), packed-refs.lock still held.
packed_transaction_finish(p) ==
    LET s == proc[p] IN
    /\ \/ At(p, "finish") /\ Committed(s)
       \/ At(p, "packcommit")
    /\ staging.by = p
    /\ packed' = staging.refs
    /\ staging' = NoStaging
    /\ Become(p, IF s.op = "pack" THEN [s EXCEPT !.pc = "packunlock"]
                 ELSE [s EXCEPT !.did = @ \cup (Deletes(s) \ NeedsUnlink(s))])
    /\ UNCHANGED <<loose, reflock, packlock, bounds>>

\* [mutant] the loose file goes before the packed line does
UnlinkFirst(p) ==
    LET s == proc[p] IN
    /\ At(p, "finish") /\ Committed(s) /\ NeedsUnlink(s) # {}
    /\ LET i == First(NeedsUnlink(s))
       IN /\ loose' = [loose EXCEPT ![s.txn[i].ref] = Null]
          /\ Become(p, [s EXCEPT !.did = @ \cup {i}])
    /\ UNCHANGED <<packed, reflock, packlock, staging, bounds>>

unlink_loose(p) ==
    LET s == proc[p] IN
    /\ At(p, "finish") /\ Committed(s) /\ staging.by # p
    /\ NeedsUnlink(s) # {}
    /\ LET i == First(NeedsUnlink(s))
       IN /\ loose' = [loose EXCEPT ![s.txn[i].ref] = Null]
          /\ Become(p, [s EXCEPT !.did = @ \cup {i}])
    /\ UNCHANGED <<packed, reflock, packlock, staging, bounds>>

files_transaction_finish(p) ==
    LET s == proc[p] IN
    /\ At(p, "finish") /\ Committed(s) /\ staging.by # p
    /\ NeedsUnlink(s) = {}
    /\ Become(p, [s EXCEPT !.pc = "cleanup"])
    /\ UNCHANGED <<files, bounds>>

(***************************************************************************)
(* Cleaning up: the locks that are left, in the order of the updates, then *)
(* packed-refs.new, then packed-refs.lock.                                 *)
(***************************************************************************)

HeldLocks(p) ==
    { i \in DOMAIN proc[p].txn : reflock[proc[p].txn[i].ref] = p }

unlock_ref(p) ==
    /\ At(p, "cleanup") /\ HeldLocks(p) # {}
    /\ reflock' = [reflock EXCEPT ![proc[p].txn[First(HeldLocks(p))].ref] = Free]
    /\ UNCHANGED <<loose, packed, packlock, staging, proc, bounds>>

packed_transaction_cleanup(p) ==
    /\ At(p, "cleanup") /\ HeldLocks(p) = {} /\ staging.by = p
    /\ staging' = NoStaging
    /\ UNCHANGED <<loose, packed, reflock, packlock, proc, bounds>>

\* pack-refs goes on to prune what it has packed, one transaction each.
NextPrune(s) ==
    IF s.todo = {} THEN {Idle}
    ELSE { [Idle EXCEPT !.op = "prune", !.pc = "lock", !.pos = 1,
                        !.todo = s.todo \ {r}, !.cache = s.cache,
                        !.txn = << [ref |-> r, new |-> Null,
                                    old |-> s.cache[r]] >>]
           : r \in s.todo }

\* [mutant] unlocks packed-refs while its packed-refs.new is still there
UnlockEarly(p) ==
    LET s == proc[p] IN
    /\ packlock = p
    /\ \/ /\ At(p, "packunlock")
          /\ \E n \in NextPrune([s EXCEPT !.todo = { r \in Ref : s.cache[r] # Null }]) :
                 Become(p, n)
       \/ At(p, "cleanup") /\ HeldLocks(p) = {} /\ UNCHANGED proc
    /\ packlock' = Free
    /\ UNCHANGED <<loose, packed, reflock, staging, bounds>>

packed_refs_unlock(p) ==
    LET s == proc[p] IN
    /\ packlock = p
    /\ \/ /\ At(p, "packunlock")
          /\ \E n \in NextPrune([s EXCEPT !.todo = { r \in Ref : s.cache[r] # Null }]) :
                 Become(p, n)
       \/ /\ At(p, "cleanup") /\ HeldLocks(p) = {} /\ staging.by # p
          /\ Become(p, Idle)
    /\ packlock' = Free
    /\ UNCHANGED <<loose, packed, reflock, staging, bounds>>

\* [mutant] the lock on packed-refs is forgotten
CleanupRefsOnly(p) ==
    /\ At(p, "cleanup") /\ HeldLocks(p) = {} /\ staging.by # p
    /\ \E n \in IF proc[p].op = "prune" THEN NextPrune(proc[p]) ELSE {Idle} :
          Become(p, n)
    /\ UNCHANGED <<files, bounds>>

files_transaction_cleanup(p) ==
    /\ At(p, "cleanup") /\ HeldLocks(p) = {}
    /\ staging.by # p /\ packlock # p
    /\ \E n \in IF proc[p].op = "prune" THEN NextPrune(proc[p]) ELSE {Idle} :
          Become(p, n)
    /\ UNCHANGED <<files, bounds>>

(***************************************************************************)
(* Faults.  Readers create no file and leave nothing behind.               *)
(***************************************************************************)

Fault == faults < MaxFaults /\ faults' = faults + 1 /\ UNCHANGED <<ops, fresh>>

\* Killed outright, or the power fails: what it created stays behind.
Killed(p) ==
    /\ proc[p].op \in {"txn", "prune", "pack"}
    /\ Fault
    /\ reflock' = [r \in Ref |-> IF reflock[r] = p THEN Stale ELSE reflock[r]]
    /\ packlock' = IF packlock = p THEN Stale ELSE packlock
    /\ staging' = IF staging.by = p THEN [NoStaging EXCEPT !.by = Stale]
                  ELSE staging
    /\ Become(p, Idle)
    /\ UNCHANGED <<loose, packed>>

\* remove_tempfiles(): the signal (or exit) handler unlinks every path on
\* the process's list, whoever has created the file that is there now.
remove_tempfiles_on_signal(p) ==
    /\ proc[p].op \in {"txn", "prune", "pack"}
    /\ SignalWindow \/ proc[p].linger = {}
    /\ Fault
    /\ reflock' = [r \in Ref |-> IF reflock[r] = p \/ r \in proc[p].linger
                                 THEN Free ELSE reflock[r]]
    /\ packlock' = IF packlock = p THEN Free ELSE packlock
    /\ staging' = IF staging.by = p THEN NoStaging ELSE staging
    /\ Become(p, Idle)
    /\ UNCHANGED <<loose, packed>>

\* A write, rename or unlink of a transaction fails.
CallFails(p) ==
    /\ \/ At(p, "stage") /\ proc[p].op = "txn"
       \/ /\ At(p, "finish") /\ proc[p].linger = {}
          /\ \/ NeedsCommit(proc[p]) \cup NeedsUnlink(proc[p]) # {}
             \/ staging.by = p
    /\ Fault
    /\ Become(p, Fail(proc[p]))
    /\ UNCHANGED files

\* "remove the file manually to continue."
UserRemovesStale ==
    /\ \/ /\ \E r \in Ref : /\ reflock[r] = Stale
                            /\ reflock' = [reflock EXCEPT ![r] = Free]
          /\ UNCHANGED <<packlock, staging>>
       \/ /\ packlock = Stale /\ packlock' = Free
          /\ UNCHANGED <<reflock, staging>>
       \/ /\ staging.by = Stale /\ staging' = NoStaging
          /\ UNCHANGED <<reflock, packlock>>
    /\ UNCHANGED <<loose, packed, proc, bounds>>

-----------------------------------------------------------------------------

Start(p) ==
    \/ ref_transaction_commit(p) \/ files_pack_refs(p)
    \/ files_read_raw_ref(p) \/ files_ref_iterator_begin(p)

Step(p) ==
    \/ read_lstat(p) \/ read_open(p) \/ packed_read_raw_ref(p)
    \/ loose_fill_ref_dir(p) \/ packed_ref_iterator_begin(p) \/ ReadReturns(p)
    \/ lock_raw_ref(p) \/ packed_refs_lock(p)
    \/ should_pack_refs(p) \/ write_with_updates(p)
    \/ commit_ref(p) \/ deactivate_tempfile(p)
    \/ packed_transaction_finish(p) \/ unlink_loose(p)
    \/ files_transaction_finish(p)
    \/ unlock_ref(p) \/ packed_transaction_cleanup(p)
    \/ packed_refs_unlock(p) \/ files_transaction_cleanup(p)

Interrupted(p) ==
    Killed(p) \/ remove_tempfiles_on_signal(p) \/ CallFails(p)

\* The history of what each reader could have read.
Reading(s) == s.op \in {"read", "iter"}

Unpacked == { r \in Ref : packed[r] # Null /\ packed'[r] = Null }

Track ==
    window' =  [p \in Proc |-> [r \in Ref |->
                 IF ~ Reading(proc'[p]) THEN {}
                 ELSE window[p][r] \cup {Value(r)'}
                      \cup (IF r \in Unpacked THEN {Null} ELSE {})
                      \cup (IF r \in doubt' THEN Oid ELSE {})]]

\* What a process leaves half deleted when it stops in the middle.
HalfDeleted(p) ==
    LET s == proc[p] IN
    { s.txn[i].ref :
        i \in { j \in NeedsUnlink(s) : /\ s.op = "txn" /\ At(p, "finish")
                                       /\ staging.by # p
                                       /\ packed[s.txn[j].ref] = Null
                                       /\ loose[s.txn[j].ref] # Null } }

\* What a step of p has just changed for good.
Settled(p) ==
    { proc[p].txn[i].ref : i \in IF proc[p].op = "txn"
                                 THEN proc'[p].did \ proc[p].did ELSE {} }

Run(p) == Step(p) /\ doubt' = doubt \ Settled(p) /\ Track

RSNext ==
    \/ UserRemovesStale /\ UNCHANGED doubt /\ Track
    \/ \E p \in Proc :
        \/ Start(p) /\ UNCHANGED doubt /\ Track
        \/ Run(p)
        \/ Interrupted(p) /\ doubt' = doubt \cup HalfDeleted(p) /\ Track

\* The operating system runs every process; what it does next does not
\* depend on others for ever, since waiting for a lock ends with a time-out.
RSFairness == \A p \in Proc : WF_rsVars(Run(p))

RSSpec == RSInit /\ [][RSNext]_rsVars /\ RSFairness

-----------------------------------------------------------------------------
(***************************************************************************)
(* Properties                                                              *)
(***************************************************************************)

\* Types; in particular a lock file has one creator, and packed-refs.new is
\* only ever created by the holder of packed-refs.lock.
RSTypeOK ==
    /\ loose \in [Ref -> Oid] /\ packed \in [Ref -> Oid]
    /\ reflock \in [Ref -> Proc \cup {Free, Stale}]
    /\ packlock \in Proc \cup {Free, Stale}
    /\ staging.by \in Proc => packlock = staging.by
    /\ \A p \in Proc :
        /\ proc[p].op \in {"none", "txn", "prune", "pack", "read", "iter"}
        /\ proc[p].cache \in [Ref -> Oid] /\ proc[p].gaveup \subseteq Ref
        /\ proc[p].tries \in 0 .. ReadTries
        /\ proc[p].did \subseteq DOMAIN proc[p].txn

\* The file was there for each lstat() and gone for each open(): the reader
\* gives up and reports that there is no such reference, or leaves it out.
GaveUp(p, r) == r \in proc[p].gaveup

\* read_ref_internal(), files_ref_iterator_begin(): a reader that takes no
\* lock gets, for every reference, a value the reference had at some moment
\* of the read, while others update, delete, pack and prune it; a reference
\* may be missing from the moment its deletion rewrites packed-refs, its
\* loose file being unlinked only afterwards; one whose deletion was
\* interrupted there may read as whatever a packing under way restores.
ReadsAreCurrent ==
    \A p \in Proc : At(p, "return") =>
        \A r \in IF proc[p].op = "read" THEN {proc[p].target} ELSE Ref :
            GaveUp(p, r) \/ proc[p].cache[r] \in window[p][r]

\* read_ref_internal(), "We'll keep a count of the retries, though, just to
\* avoid any confusing situation sending us into an infinite loop": a reader
\* that reports as missing a reference that was there all the time has seen
\* it packed, pruned and written again so often that it has had as many
\* values as the read has tries (when no value is written twice).
GivesUpLate ==
    \A p \in Proc, r \in Ref :
        At(p, "return") /\ GaveUp(p, r) /\ Null \notin window[p][r]
            => Cardinality(window[p][r]) >= ReadTries

\* files_transaction_cleanup(), remove_tempfiles(): whatever way an operation
\* ends - success, a failed check, a time-out, a failing call, a signal -
\* no lock file and no packed-refs.new of the process stays behind.
NothingLeftBehind ==
    \A p \in Proc : At(p, "idle") =>
        /\ \A r \in Ref : reflock[r] # p
        /\ packlock # p /\ staging.by # p

\* files_transaction_finish(), "Perform updates first so live commits remain
\* referenced": at no moment, a crash's included, has a transaction deleted
\* a reference while one of its updates is not in place yet.
UpdatesBeforeDeletes ==
    \A p \in Proc :
        proc[p].did \cap Deletes(proc[p]) # {} => NeedsCommit(proc[p]) = {}

\* The changes process p may still apply, as RefMap sees them: a reference
\* it has locked, read and checked, and not yet changed.
ClaimsOf(p) ==
    LET s == proc[p] IN
    { [ref |-> u.ref, seen |-> s.got[u.ref].val, new |-> u.new] :
        u \in { s.txn[i] : i \in { j \in DOMAIN s.txn \ s.did :
                   /\ s.op = "txn" /\ s.txn[j].new # Keep
                   /\ reflock[s.txn[j].ref] = p
                   /\ s.got[s.txn[j].ref] # Unread } } }

Map == INSTANCE RefMap WITH value <- [r \in Ref |-> Value(r)],
                            claim <- [p \in Proc |-> ClaimsOf(p)]

\* The files store implements RefMap: no update is lost, no deleted or
\* overwritten value comes back, and packing, pruning, crashing and cleaning
\* up change no reference - but for a reference whose deletion was
\* interrupted half way, which a pruning or a packing may remove or restore.
ImplementsRefMap == Map!MapSpec

\* lock_file_timeout(): once callers stop asking, every operation ends, two
\* transactions that lock the same references in opposite orders and stale
\* lock files included.
OperationsEnd == <>[](\A p \in Proc : At(p, "idle"))
=============================================================================
