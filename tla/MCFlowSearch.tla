---------------------------- MODULE MCFlowSearch ----------------------------
(***************************************************************************)
(* Small flow tables for TLC: two flows, the first with two versions.      *)
(* Categories 1 and 2 are flow statuses, 3 is a flow type; 1 and 3 have    *)
(* "Pending" in their names.                                               *)
(***************************************************************************)
EXTENDS FlowSearch

F == {<<1, 1>>, <<1, 2>>, <<2, 1>>}

MCCategoryGroup == <<"flowStatus", "flowStatus", "flowType">>
MCCategoryName == <<"Pending", "Paid", "Parked Pending">>
MCShortcutMatches == [Pending |-> {1, 3}, Paid |-> {2}, Parked |-> {3}, Pledge |-> {}]

Org(i) == [type |-> "organization", direction |-> "source", id |-> i]
Loc(i) == [type |-> "location", direction |-> "destination", id |-> i]

NoNested == [k \in NestedKey |-> {}]

\* The newest version of a flow is the active one.
Active(rows) == {e \in rows : \A f \in rows : f[1] = e[1] => f[2] <= e[2]}

Make(rows, deleted, cats, objects, links, nested) ==
  [rows |-> rows, deleted |-> deleted, active |-> Active(rows), cats |-> cats,
   objects |-> objects, links |-> links, externals |-> nested["systemID"],
   nested |-> nested]

Ask ==
  [flow |-> None, status |-> None, category |-> None, nested |-> None,
   object |-> None, flags |-> <<>>, children |-> FALSE, sort |-> None,
   batches |-> FALSE]
ById(c) == [id |-> c, group |-> None, name |-> None]
ByName(g, n) == [id |-> None, group |-> g, name |-> n]
OnlyActive == [ids |-> None, active |-> TRUE]

\* Categories and conditions on flow rows.
CategoryTables ==
  {Make(F, deleted, cats, {}, {}, NoNested) :
     deleted \in {{}, {<<2, 1>>}}, cats \in SUBSET (F \X {1, 2, 3})}
CategoryArguments ==
  {[Ask EXCEPT !.category = <<ById(1)>>],
   [Ask EXCEPT !.category = <<ById(1), ById(2)>>, !.flow = OnlyActive],
   [Ask EXCEPT !.category = <<ByName("flowStatus", "Paid")>>, !.status = "new"],
   [Ask EXCEPT !.flags = [Pending |-> TRUE]],
   [Ask EXCEPT !.flags = [Pending |-> TRUE, Parked |-> FALSE, Pledge |-> TRUE],
               !.flow = [ids |-> {1}, active |-> None]],
   [Ask EXCEPT !.flags = [Paid |-> FALSE], !.category = <<ById(3)>>,
               !.status = "updated"],
   [Ask EXCEPT !.category = <<>>, !.flow = OnlyActive],
   [Ask EXCEPT !.flow = OnlyActive]}

\* Flow objects, parked parents and the order by an entity.
ObjectTables ==
  {Make(F, {}, {}, objects, links, NoNested) :
     objects \in SUBSET (F \X {Org(1), Org(2), Loc(1)}), links \in {{}, {<<1, 2>>}}}
ObjectArguments ==
  {[Ask EXCEPT !.object = <<Org(1)>>, !.children = TRUE],
   [Ask EXCEPT !.object = <<Org(2), Loc(1), Org(1)>>],
   [Ask EXCEPT !.object = <<Loc(1), Org(1)>>, !.children = TRUE],
   [Ask EXCEPT !.object = <<Loc(1)>>, !.sort = <<"organization", "source">>],
   [Ask EXCEPT !.object = <<>>, !.sort = <<"organization", "source">>],
   [Ask EXCEPT !.sort = "unknown"]}

\* Nested filters and the order by an external reference; one legacy id belongs
\* to one flow, and the external references are all of one system.
NestedTables ==
  {Make(F, {}, {<<e, 1>> : e \in refs_}, {}, {},
        [reporterRefCode |-> a, sourceSystemID |-> b, systemID |-> c, legacyID |-> d]) :
     refs_ \in {F, {<<1, 1>>}}, a \in SUBSET F, b \in {{}, {<<1, 1>>, <<2, 1>>}},
     c \in SUBSET F, d \in {{}, {<<1, 1>>}}}
NestedArguments ==
  {[Ask EXCEPT !.nested = <<"reporterRefCode", "systemID">>],
   [Ask EXCEPT !.nested = <<"sourceSystemID", "legacyID">>, !.category = <<ById(1)>>],
   [Ask EXCEPT !.nested = <<"reporterRefCode", "sourceSystemID", "systemID">>,
               !.flow = OnlyActive],
   [Ask EXCEPT !.nested = <<"reporterRefCode">>, !.sort = "externalReference"],
   [Ask EXCEPT !.nested = <<>>]}

\* searchFlowsBatches: object filters with and without a usage year.
Year(d, i) == [type |-> "usageYear", direction |-> d, id |-> i]
YearTables ==
  {Make(F, {}, {}, {<<<<1, 2>>, Org(1)>>, <<<<2, 1>>, Org(1)>>} \cup objects,
        {<<1, 2>>}, NoNested) :
     objects \in SUBSET ({<<1, 2>>, <<2, 1>>} \X
                         {Year("source", 1), Year("source", 2), Year("destination", 2)})}
YearArguments ==
  {[Ask EXCEPT !.batches = TRUE, !.object = <<Org(1)>>, !.children = TRUE],
   [Ask EXCEPT !.batches = TRUE, !.object = <<Year("source", 2), Org(1)>>,
               !.children = TRUE],
   [Ask EXCEPT !.batches = TRUE, !.object = <<>>],
   [Ask EXCEPT !.batches = TRUE, !.flow = OnlyActive]}

\* Tables that change while the branches run: a flow that is edited, one that
\* is deleted, categories that come and go.
EditTables ==
  {Make({<<1, 1>>, <<2, 1>>}, {}, {<<<<1, 1>>, 1>>} \cup cats,
        {<<<<1, 1>>, Org(1)>>, <<<<2, 1>>, Org(1)>>, <<<<2, 1>>, Loc(1)>>},
        {<<2, 1>>}, NoNested) : cats \in {{}, {<<<<2, 1>>, 1>>}}}
EditArguments ==
  {[Ask EXCEPT !.category = <<ById(1)>>, !.object = <<Org(1)>>, !.flow = OnlyActive],
   [Ask EXCEPT !.flags = [Pending |-> TRUE, Paid |-> FALSE], !.status = "new",
               !.sort = <<"organization", "source">>],
   [Ask EXCEPT !.object = <<Org(1), Loc(1)>>, !.flow = OnlyActive, !.children = TRUE],
   [Ask EXCEPT !.status = "updated"]}

\* Every kind of filter, each over the tables it reads, and every branch over
\* a few tables that change.
SearchRequests ==
  (CategoryTables \X CategoryArguments \X {0})
    \cup (ObjectTables \X ObjectArguments \X {0})
    \cup (NestedTables \X NestedArguments \X {0})
    \cup (YearTables \X YearArguments \X {0})
    \cup (EditTables \X EditArguments \X {2})

\* Three filters of which two have no flow in common.
ThreeFilterTables ==
  {Make(F, {}, {<<e, 1>> : e \in a}, {<<e, Org(1)>> : e \in b}, {}, NoNested) :
     a \in SUBSET F, b \in SUBSET F}
ThreeFilterRequests ==
  ThreeFilterTables \X
    {[Ask EXCEPT !.category = <<ById(1)>>, !.object = <<Org(1)>>,
                 !.flow = [ids |-> {2}, active |-> None]]} \X {0}

\* A shortcut that is switched off, alone.
ShortcutOffRequests ==
  CategoryTables \X {[Ask EXCEPT !.flags = [Pending |-> FALSE]]} \X {0}

\* Names of two groups of categories.
TwoNameRequests ==
  CategoryTables \X
    {[Ask EXCEPT !.category = <<ByName("flowStatus", "Paid"), ByName("flowType", "Parked Pending")>>]}
    \X {0}
=============================================================================
