-------------------------- MODULE MCScheduledJobs --------------------------
(* The jobs of the ingest scheduler in one run: "focus" is the price jobs,  *)
(* with their leases, or one source with a history.  The other part rests.  *)
(* The price jobs run in two bounds: "prices" has MaxJobs jobs and no fault, *)
(* "outages" has FewJobs jobs and MaxFaults faults.                         *)
EXTENDS MCPriceFeed, Ingest

VARIABLE focus

FewJobs == 2
PriceFocus == {"prices", "outages"}

ListA == [u \in {"u", "v"} |-> "a"]
ListB == [u \in {"u"} |-> "b"]
MCLists == {ListA, ListB}
MCUnits == [s \in SourceNames |-> CASE s = "funding" -> <<"btc">>
                                    [] s = "bars"    -> <<"sol">>
                                    [] s = "tariffs" -> <<"eu", "cn">>
                                    [] OTHER         -> <<>>]

JobsInit ==
    /\ focus \in SourceNames \cup PriceFocus
    /\ Init /\ IngestInit
    /\ focus # "ofac" => published = <<ListA>>

JobsNext ==
    /\ UNCHANGED focus
    /\ \/ /\ focus \in PriceFocus /\ Next /\ UNCHANGED ingestVars
          /\ IF focus = "prices" THEN faults' = 0 ELSE jobs' <= FewJobs
       \/ focus \notin PriceFocus /\ IngestNext({focus}) /\ UNCHANGED vars
=============================================================================
