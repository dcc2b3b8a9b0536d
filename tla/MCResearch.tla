----------------------------- MODULE MCResearch -----------------------------
(* Constants of the TLC run of Research.                                   *)
EXTENDS Research

CONSTANTS p1, p2, S1, S2, K1, K2

MCVersions == 1..2

MCWords == {"Review", "blocker", "R1", K1, K2}

MCSpaceOf == (p1 :> S1) @@ (p2 :> S2)

MCTitle == (p1 :> {"Review", "R1"}) @@ (p2 :> {"R1"})

\* A heading that occurs twice, one that is no target, a key that comes and goes.
MCText ==
  (p1 :> << <<[heading |-> "Status", words |-> {"blocker"}], [heading |-> "Status", words |-> {K1}]>>,
            <<[heading |-> "Status", words |-> {K2}], [heading |-> "Notes", words |-> {"R1"}]>> >>)
    @@
  (p2 :> << <<[heading |-> "Notes", words |-> {K2, "blocker"}]>>,
            <<[heading |-> "Notes", words |-> {K2, "blocker"}]>> >>)

\* The keys of the sections; but one is made up where there is no target section.
MCRead ==
  [p \in {p1, p2} |-> [words \in SUBSET MCWords |->
     IF words = {} THEN {K1} ELSE words \cap {K1, K2}]]

\* A version and a keyword; no version.
MCIntents ==
  {[general |-> FALSE, refs |-> <<[short |-> "R1", abbrev |-> "R1"]>>, keywords |-> <<"R1">>]}

Cloud(p) == [form |-> "cloud", page |-> p]
Display(p) == [form |-> "display", page |-> p]

\* A page named twice and an unknown URL, with hits in the default space; a refresh,
\* with as many pinned pages as the limit allows.
MCRequests ==
  {[spaces |-> {}, urls |-> <<Display(p1), Cloud(p2), Cloud(p2)>>, limit |-> 2, force |-> FALSE],
   [spaces |-> {}, urls |-> <<Cloud(p1)>>, limit |-> 1, force |-> TRUE]}

MCJiraKeys == <<K1, K2>>
=============================================================================
