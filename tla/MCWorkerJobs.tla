----------------------------- MODULE MCWorkerJobs -----------------------------
(***************************************************************************)
(* Import 1 has a good row and one without a code, so that it cannot       *)
(* succeed; every other import has one good row.  The two kinds share      *)
(* nothing but the process, so the run looks at one kind at a time: it     *)
(* does not go on from a state with jobs of both.  With exports there is   *)
(* at most one fault.                                                      *)
(***************************************************************************)
EXTENDS VendorImports

MCLower == [Vendor |-> "vendor", Code |-> "code", Name |-> "name", Active |-> "active",
            No |-> "no", A |-> "a", B |-> "b"]
MCUpper == [a |-> "A", b |-> "B"]

MCHeader == <<<<"name">>, <<Blank, "Vendor", Blank, Blank, "Code">>, <<"Active">>>>
MCSourceFile ==
  [j \in ImportJobs |->
     IF j = 1 THEN [type |-> "csv", content |->
                      Written(<<MCHeader, <<<<"b", Comma>>, <<"a">>, <<>>>>,
                                <<<<"b">>, <<Blank>>, <<"No">>>>>>)]
     ELSE [type |-> "xlsx", content |-> <<MCHeader, <<<<"a">>, <<"b">>, <<"No">>>>>>]]
MCFileOf == [j \in ImportJobs |-> IF j = 1 THEN <<<<"A">>, NoCode>> ELSE <<<<"B">>>>]
MCCodes == {<<"A">>, <<"B">>}

\* Two columns with any cells of two pieces, and three columns with plain ones.
MCCells == BoundedSeq({"a", Comma, Quote, Blank}, 2)
MCPlain == {<<>>, <<"a">>, <<"No">>}
MCWords == {"a", Comma, Quote, Blank, "name", "Vendor", "Code", "code", "Active", "No"}
MCTables ==
  {<<<<<<"code">>, <<"name">>>>, <<c, d>>>> : c, d \in MCCells}
  \cup {<<MCHeader, <<c, d, <<>>>>, <<e, f, g>>>> : c, d, e, f, g \in MCPlain}

OneKind ==
  \/ faults <= 1 /\ \A j \in ImportJobs : status[j] = "NONE"
  \/ \A j \in ExportJobs : status[j] = "NONE"
=============================================================================
