----------------------------- MODULE MCRefStore -----------------------------
(***************************************************************************)
(* Two references: "b" has a loose value over an older packed one, "a" is  *)
(* only packed.  The requests: delete a; move b to a; and, locking in the  *)
(* opposite order, set a while verifying b.                                *)
(***************************************************************************)
EXTENDS RefStore

MCProc == {"p1", "p2"}
MCOps == [p \in MCProc |-> IF p = "p1" THEN 1 ELSE 2]
MCRef == {"a", "b"}
MCLoose == [r \in MCRef |-> IF r = "b" THEN 2 ELSE 0]
MCPacked == [r \in MCRef |-> 1]

Ask(r, what, checked) == [ref |-> r, ask |-> what, check |-> checked]

MCRequests ==
    { << Ask("a", "delete", TRUE) >>,
      << Ask("b", "delete", FALSE), Ask("a", "set", FALSE) >>,
      << Ask("a", "set", TRUE), Ask("b", "verify", TRUE) >> }

\* One reference, loose and not packed, and one reader, while somebody else
\* packs, writes and deletes it often enough for the reader to run out of
\* tries with the reference there all the time.
OneRef == {"a"}
OneLoose == [r \in OneRef |-> 1]
NonePacked == [r \in OneRef |-> 0]
ReaderOps == [p \in MCProc |-> IF p = "p1" THEN 1 ELSE 5]
BareRequests == { << Ask("a", "set", FALSE) >>, << Ask("a", "delete", FALSE) >> }
=============================================================================
