----------------------------- MODULE PublishLog -----------------------------
(***************************************************************************)
(* What publishing promises about tags, when the publications of a plan do *)
(* not overlap: tags are opened one after the other under growing names,   *)
(* and a row becomes current only by receiving the newest tag, on top of   *)
(* the tags it had.  PlanPublish implements it statement by statement,     *)
(* however often a publication stops halfway.                              *)
(***************************************************************************)
EXTENDS Integers

CONSTANT Row

VARIABLES
  names,   \* the names of the tags of the plan
  tagged,  \* the tags of every row
  live     \* the rows readers see as current

vars == <<names, tagged, live>>

Name == Nat \X Nat

NameBefore(m, n) == m[1] < n[1] \/ (m[1] = n[1] /\ m[2] < n[2])

Init ==
  /\ names = {}
  /\ tagged = [x \in Row |-> {}]
  /\ live = {}

Open(n) ==
  /\ n \in Name
  /\ \A m \in names : NameBefore(m, n)
  /\ names' = names \cup {n}
  /\ UNCHANGED <<tagged, live>>

Newest(n) == n \in names /\ \A m \in names \ {n} : NameBefore(m, n)

Mark(n, rows) ==
  /\ Newest(n)
  /\ tagged' = [x \in Row |-> IF x \in rows THEN tagged[x] \cup {n}
                                            ELSE tagged[x]]
  /\ live' = live \cup rows
  /\ UNCHANGED names

Retire(rows) ==
  /\ live' = live \ rows
  /\ UNCHANGED <<names, tagged>>

Next ==
  \/ \E n \in names' \ names : Open(n)
  \/ \E n \in names, rows \in SUBSET Row : Mark(n, rows)
  \/ \E rows \in SUBSET live : Retire(rows)

Spec == Init /\ [][Next]_vars
=============================================================================
