--------------------------- MODULE VersionedPages ---------------------------
(***************************************************************************)
(* What a wiki with optimistic concurrency promises the people who share   *)
(* it: every write of a page replaces the version its author had in front  *)
(* of them and no other, and a removed page never comes back under its     *)
(* identifier.                                                             *)
(***************************************************************************)
EXTENDS Naturals

CONSTANTS
  PageIds,
  First       \* version of each page at the start, 0 where there is none

VARIABLES
  latest,     \* latest version of each page, 0 where there is none
  basis,      \* the version the author of the latest one had in front of them
  retired     \* identifiers of removed pages

vars == <<latest, basis, retired>>

Init ==
  /\ latest = First
  /\ basis = [p \in PageIds |-> IF First[p] = 0 THEN 0 ELSE First[p] - 1]
  /\ retired = {}

Write(p) ==
  /\ latest[p] > 0
  /\ latest' = [latest EXCEPT ![p] = @ + 1]
  /\ basis' = [basis EXCEPT ![p] = latest[p]]
  /\ UNCHANGED retired

Add(p) ==
  /\ latest[p] = 0
  /\ p \notin retired
  /\ latest' = [latest EXCEPT ![p] = 1]
  /\ basis' = [basis EXCEPT ![p] = 0]
  /\ UNCHANGED retired

Remove(p) ==
  /\ latest[p] > 0
  /\ latest' = [latest EXCEPT ![p] = 0]
  /\ basis' = [basis EXCEPT ![p] = 0]
  /\ retired' = retired \cup {p}

Next == \E p \in PageIds : Write(p) \/ Add(p) \/ Remove(p)

Spec == Init /\ [][Next]_vars
=============================================================================
