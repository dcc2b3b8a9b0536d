----------------------------- MODULE MCSections -----------------------------
(* Constants of the TLC run of Sections.                                   *)
EXTENDS Sections, TLC

CONSTANTS k1, k2, k3, b1, b2

MCStatuses == {"blocked", "done"}

\* Blocked since day 0; blocked tomorrow, by its author's clock; never moved.
MCLog0 ==
  [k \in Keys |-> CASE k = k1 -> <<[to |-> "blocked", day |-> 0]>>
                    [] k = k2 -> <<[to |-> "done", day |-> NoDay], [to |-> "blocked", day |-> 1]>>
                    [] OTHER  -> <<>>]

Unedited(facts) == [n \in Edits |-> facts]

\* On day 0 only k1 is due within seven days, and it outranks k2; on day 1 both are, and it
\* does if its days were counted then.  Once it is edited it has no due date, and k2
\* outranks it unless it was blocked for a day.
MCFacts ==
  [k \in Keys |->
     CASE k = k1 -> [n \in Edits |-> [priority |-> "High", links |-> 6, flagged |-> FALSE,
                                      due |-> IF n = 0 THEN 7 ELSE NoDay]]
       [] k = k2 -> Unedited([priority |-> "High", links |-> 5, flagged |-> FALSE, due |-> 8])
       [] OTHER  -> Unedited([priority |-> "Critical", links |-> 0, flagged |-> FALSE, due |-> 15])]

Mentioned(n) == [k \in Keys |-> IF k = k1 THEN n ELSE 0]

\* One call has two issues, each in two topics or twice in one, and loses a third to the
\* cap; the other refreshes an issue that both have, or asks for one that Jira does not know.
MCRequests ==
  (b1 :> {[topics |-> << <<k2, k1, k2>>, <<k3>> >>, force |-> FALSE, refs |-> Mentioned(1)]})
    @@
  (b2 :> {[topics |-> << <<k1>>, <<>> >>, force |-> TRUE, refs |-> Mentioned(0)],
          [topics |-> << <<k3>> >>, force |-> FALSE, refs |-> Mentioned(0)]})

\* Nothing is forced, and each call finds other pages for k1.
MCRepeated ==
  [b \in {b1, b2} |->
     {[topics |-> << <<k1>> >>, force |-> FALSE, refs |-> Mentioned(IF b = b1 THEN 1 ELSE 2)]}]
=============================================================================
