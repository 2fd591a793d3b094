----------------------------- MODULE PageReader ------------------------------
(***************************************************************************)
(* What completing a page promises, without a snapshot of the database:    *)
(* the answer says of every flow version what the rows that stayed say,    *)
(* and nothing the rows that were there at some moment do not say.         *)
(***************************************************************************)
EXTENDS PageTables

VARIABLES
  db,       \* the rows in the database
  always,   \* those that were there ever since the request began
  ever,     \* those that were there at some moment since
  page,     \* the flow versions on the page
  status,   \* "pending", "answered" or "failed"
  items     \* what the page says of each flow version

vars == <<db, always, ever, page, status, items>>

Empty == [k \in Field |-> {}]

Init ==
  /\ db \in SUBSET Row
  /\ always = db
  /\ ever = db
  /\ page \in SUBSET FlowVersion
  /\ status = "pending"
  /\ items = [fv \in page |-> Empty]

Write ==
  /\ db' \in SUBSET Row
  /\ always' = always \cap db'
  /\ ever' = ever \cup db'
  /\ UNCHANGED <<page, status, items>>

\* Of a flow with two versions on the page less is promised.
Sole(fv) == \A other \in page : other[1] = fv[1] => other = fv

Reply ==
  /\ status = "pending"
  /\ status' = "answered"
  /\ items' \in [page -> Item]
  /\ \A fv \in page : /\ Within(Deserved(always, fv), items'[fv])
                      /\ Sole(fv) => Within(items'[fv], Deserved(ever, fv))
  /\ UNCHANGED <<db, always, ever, page>>

Fail ==
  /\ status = "pending"
  /\ status' = "failed"
  /\ UNCHANGED <<db, always, ever, page, items>>

Next == Write \/ Reply \/ Fail

Spec == Init /\ [][Next]_vars
=============================================================================
