----------------------------- MODULE DurableLog -----------------------------
(***************************************************************************)
(* What the write-ahead log promises its caller: a base image and the      *)
(* records appended after it, both on stable storage.  Records are only    *)
(* ever added at the end, and only a checkpoint removes them, replacing    *)
(* base and records together.  A crash changes nothing.                    *)
(***************************************************************************)
EXTENDS Sequences

CONSTANTS Payload, None

VARIABLES base, recs

vars == <<base, recs>>

Init == base = None /\ recs = << >>

Add(p) == recs' = Append(recs, p) /\ UNCHANGED base

Compact(s) == base' = s /\ recs' = << >>

Next == \E p \in Payload : Add(p) \/ Compact(p)

Spec == Init /\ [][Next]_vars
=============================================================================
