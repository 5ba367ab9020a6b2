------------------------------- MODULE RefMap -------------------------------
(***************************************************************************)
(* What a git reference store promises to the processes that share it,     *)
(* whatever files it keeps: every reference has one value; a process that  *)
(* wants to change references first claims them, one claim on a reference  *)
(* at a time; a value changes only when a claim on it is applied, from the *)
(* very value the claimant saw to the value it asked for.  Packing,        *)
(* pruning, reading, failing and dying change no value.  The one exception *)
(* is a reference whose deletion was interrupted half way: until somebody  *)
(* changes it, it may be there or not.                                     *)
(***************************************************************************)
CONSTANTS Proc,   \* the processes
          Ref,    \* the references
          Oid     \* object names, the null name (no reference) among them

VARIABLES value,  \* reference -> the object it names
          claim,  \* process -> the changes it may still apply
          doubt   \* references whose deletion was interrupted

mapVars == <<value, claim, doubt>>

Claimed == { c.ref : c \in UNION { claim[p] : p \in Proc } }

MapInit == /\ value \in [Ref -> Oid]
           /\ claim = [p \in Proc |-> {}]
           /\ doubt = {}

\* p locks r, reads it, and finds that it may replace what it has read by v.
Claim(p, r, v) ==
    /\ r \notin Claimed
    /\ claim' = [claim EXCEPT ![p] = @ \cup {[ref |-> r, seen |-> value[r], new |-> v]}]
    /\ UNCHANGED <<value, doubt>>

\* No reference changes but those in S, and those in doubt.
OnlyChange(S) ==
    /\ value' \in [Ref -> Oid]
    /\ \A r \in Ref \ (S \cup doubt) : value'[r] = value[r]

\* p applies some of its claims: each still finds the value it saw.
Apply(p, S) ==
    /\ \A c \in S : value[c.ref] = c.seen \/ c.ref \in doubt
    /\ \A c \in S : value'[c.ref] = c.new
    /\ OnlyChange({ c.ref : c \in S })
    /\ claim' = [claim EXCEPT ![p] = @ \ S]
    /\ doubt' \subseteq doubt

\* p gives claims up: the transaction failed, was killed, or is over.  It
\* may leave references it was deleting in doubt.
Release(p, S) ==
    /\ claim' = [claim EXCEPT ![p] = @ \ S]
    /\ doubt \subseteq doubt'
    /\ doubt' \subseteq doubt \cup { c.ref : c \in claim[p] }
    /\ UNCHANGED value

\* A reference in doubt comes or goes, or is no longer in doubt.
Waver ==
    /\ OnlyChange({})
    /\ doubt' \subseteq doubt
    /\ UNCHANGED claim

MapNext ==
    \/ Waver
    \/ \E p \in Proc :
        \/ \E r \in Ref, v \in Oid : Claim(p, r, v)
        \/ \E S \in SUBSET claim[p] : Apply(p, S) \/ Release(p, S)

MapSpec == MapInit /\ [][MapNext]_mapVars
=============================================================================
