--------------------------- MODULE MCPlanPublish ----------------------------
(***************************************************************************)
(* Small plans for TLC.  Version rows are numbers, in the order of their   *)
(* creation; 1 and 2 are versions of the plan.                             *)
(***************************************************************************)
EXTENDS PlanPublish, TLC

CONSTANTS location, year, attachment, cost, entity, m1, m2, p1, p2

MCTableOf ==
  [b \in BaseRow |->
     CASE b = location -> "planLocation"
       [] b = year -> "planYear"
       [] b \in {attachment, cost} -> "attachment"
       [] b = entity -> "planEntity"
       [] OTHER -> "measurement"]
MCAttachmentOf == [m \in Measurement |-> attachment]
MCPeriodOf == [m \in Measurement |-> IF m = m1 THEN p1 ELSE p2]
MCPeriodNumber == [p \in Period |-> IF p = p1 THEN NoNumber ELSE 1]
MCBaseOf ==
  [v \in VersionRow |-> CASE v \in {1, 2} -> Plan
                          [] v \in {3, 4, 5} -> attachment
                          [] OTHER -> m1]

Publish(major, measurements, ps) ==
  [major |-> major, publishMeasurements |-> measurements, periods |-> ps]

\* Retries: a second request after one that may stop at any await, for the
\* same or another reporting period, with a new attachment version created at
\* any time.
RetryBase == {location, attachment, m1, m2}
RetryVersion == {1, 3, 4, 6}
RetryInitial == {location, attachment, m1, m2, 1, 3, 6}
RetryInputs == {Publish(TRUE, TRUE, {p1}), Publish(FALSE, TRUE, {p2})}

\* Edits: one request while the editors add a plan version and a third
\* attachment version and delete rows.
EditBase == {location, attachment, m1}
EditVersion == {1, 2, 3, 4, 5, 6}
EditInitial == {location, attachment, m1, 1, 3, 4, 6}
EditDeletable == {location, attachment}
EditInputs == {Publish(TRUE, TRUE, {p1}), Publish(FALSE, FALSE, {})}

\* Two publications of an attachment that overlap, whose old versions take
\* several chunks and whose newest is created at any time, and one publication
\* that runs alone at any time.
OverlapBase == {attachment}
OverlapVersion == {1, 3, 4, 5}
OverlapInitial == {attachment, 1, 3, 4}
OverlapInputs == {Publish(TRUE, FALSE, {})}
OverlappingAreAlike == Permutations(Request \ Lone)

\* A plan that is set up from nothing while it is published: rows of every
\* kind, the first reporting period and the first plan version may be missing.
FreshBase == {location, year, attachment, cost, entity, m1}
FreshVersion == {1}
FreshInputs == {Publish(TRUE, TRUE, {p1})}
=============================================================================
