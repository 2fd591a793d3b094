-------------------------- MODULE MCFlowEnrichment ---------------------------
(***************************************************************************)
(* Two versions of flow 1, and flow 2 as its parked parent with two        *)
(* versions of which the first is active.                                  *)
(***************************************************************************)
EXTENDS FlowEnrichment, TLC

CONSTANTS
  a1, a2,                  \* the rows of the parent in force
  x1, x2,                  \* external references of the versions of flow 1
  d1, d2,                  \* report details of the versions of flow 1
  og1, og2, ol, oy, op1, op2, op3, os, ot,  \* flow objects
  r1, r2, rp, rq,             \* categories of versions
  rd1, rd2, rd3,           \* categories of report details
  link, parked, paid, email,
  org1, org2, loc, year, plan1, plan2, v1, v2, w1

f11 == <<1, 1>>
f12 == <<1, 2>>
f21 == <<2, 1>>
f22 == <<2, 2>>
MCFlowVersion == {f11, f12, f21, f22}

MCOwner ==
  a1 :> f21 @@ a2 :> f22 @@ x1 :> f11 @@ x2 :> f12 @@ d1 :> f11 @@ d2 :> f12
  @@ og1 :> f11 @@ og2 :> f12 @@ ol :> f11 @@ oy :> f11
  @@ op1 :> f11 @@ op2 :> f11 @@ op3 :> f12 @@ os :> f21 @@ ot :> f21
MCDirection ==
  og1 :> "source" @@ og2 :> "destination" @@ ol :> "destination"
  @@ oy :> "source" @@ op1 :> "source" @@ op2 :> "destination"
  @@ op3 :> "source" @@ os :> "source" @@ ot :> "source"
MCObjectOf ==
  og1 :> org1 @@ og2 :> org2 @@ ol :> loc @@ oy :> year @@ op1 :> plan1
  @@ op2 :> plan1 @@ op3 :> plan2 @@ os :> org1 @@ ot :> org2
MCRefersTo ==
  r1 :> f11 @@ r2 :> f12 @@ rp :> f21 @@ rq :> f21 @@ rd1 :> d1 @@ rd2 :> d1 @@ rd3 :> d2
MCCategoryOf ==
  r1 :> paid @@ r2 :> parked @@ rp :> parked @@ rq :> paid
  @@ rd1 :> email @@ rd2 :> paid @@ rd3 :> email
MCParentOf == link :> 2
MCChildOf == link :> 1
MCPlanOf == v1 :> plan1 @@ v2 :> plan1 @@ w1 :> plan2

\* The page queries: rows of every table.
Linked1 == {x1, og1, ol, oy, r1, paid, org1, loc, year}
\* A plan of a flow in both directions and one of its other version.
Planned == {op1, op2, op3, plan1, plan2, v1, w1}
Reported == {d1, d2, rd1, rd2, rd3, email, paid}
ParkedParent == {link, a1, rp, parked, os, org1}

Edited(present, versions, n, changing) ==
  [db |-> present, page |-> versions, edits |-> n, writable |-> changing]

MCRequests ==
  {Edited(Linked1 \cup {x2, og2, r2, parked, org2}, {f11, f12}, 1, Row),
   Edited(Linked1 \cup {link}, {f11, f21}, 1, Row),
   Edited(Planned, {f11}, 1, Row),
   Edited(Planned \cup {v2}, {f11, f12}, 1, Row),
   Edited({op1, plan1, v1}, {f11}, 3, {op1, op2, plan1, v1, v2}),
   Edited(Reported, {f11}, 1, Row),
   Edited({d1, d2, rd1, email, paid}, {f11, f12}, 2, {rd1, rd2, email, paid}),
   Edited(ParkedParent \cup {ot, org2}, {f11, f12}, 1, Row),
   Edited(ParkedParent \cup {d1, rd1, email}, {f11, f21}, 1, Row),
   Edited((ParkedParent \ {rp}) \cup {rq, paid}, {f11}, 2, {rp, os, ot}),
   Edited(ParkedParent \ {a1}, {f12}, 3, {a1, a2, os, org1, parked}),
   Edited({}, {}, 0, {})}
=============================================================================
