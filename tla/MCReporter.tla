----------------------------- MODULE MCReporter -----------------------------
(***************************************************************************)
(* The reporter's components for TLC, and beside them, as one more part,   *)
(* the IRP messages.                                                       *)
(***************************************************************************)
EXTENDS Reporter, IrpMessage

CONSTANTS ip1, ip2, ip3   \* addresses

MCLists == {<<ip1>>, <<ip1, ip2>>, <<ip1, ip2, ip3>>, <<ip1, ip1>>}

\* Three loops, two of which fit into the capacity of 19 traps together.
MCConfigs == {[traps |-> 2, sims |-> 1, delay |-> 2],
              [traps |-> 2, sims |-> 2, delay |-> 4],
              [traps |-> 4, sims |-> 1, delay |-> 10]}

\* Formats of the shapes the bundled ones have: a loop of a div-mod composite and a
\* template; a struct of one template, whose templates have long names and are a
\* clone each; a condition, an array and a counted loop; clones and a report-id.
MCAttacks == <<TemplateOf("report-id"),
               While("attacks", <<DivMod("protection-direction", 3,
                                         Data("protection", "uint-8"),
                                         Data("direction", "uint-8")),
                                  Named("bandwidth", "pair")>>)>>
MCTotals  == <<Data("first", "uint-16"), Struct("ipv4", <<TemplateOf("all-data")>>)>>
MCSamples == <<Cond("has-detail", <<TemplateOf("pair")>>),
               Array("ports", "uint-16", 2),
               For("samples", <<Data("sample", "uint-16")>>)>>
MCRates   == <<Clone("protocols", <<TemplateOf("pair")>>),
               TemplateOf("report-id"),
               Clone("units", <<Data("rate", "uint-8")>>)>>

MCFormats == {MCAttacks, MCTotals, MCSamples, MCRates}

MCTemplates ==
  ("report-id" :> <<Struct("id", <<Data("time", "uint-16"), Data("cnt", "uint-8")>>)>>) @@
  ("pair" :> <<Data("total", "uint-16"), Data("dropped", "uint-8")>>) @@
  ("all-data" :> <<TemplateOf("protocols-inbound-rates"), TemplateOf("units-outbound-rates")>>) @@
  ("protocols-inbound-rates" :> <<Clone("protocols", <<Data("in-rate", "uint-8")>>)>>) @@
  ("units-outbound-rates" :>
     <<Struct("rates", <<Clone("units", <<Data("out-rate", "uint-8")>>)>>)>>)

MCEnumerations == ("protocols" :> <<"tcp", "udp">>) @@ ("units" :> <<"kbps", "pps">>)

MessageStill == MessageInit /\ format = MCTotals

MCInit ==
  \/ ReporterInit /\ MessageStill
  \/ /\ part = "message"
     /\ StreamStill /\ BatchStill /\ ReplyStill /\ RouteInit /\ PollStill /\ TestInit
     /\ MessageInit

PartMoves == ReporterNext /\ UNCHANGED messageVars
MessageMoves == part = "message" /\ MessageNext /\ UNCHANGED reporterVars

MCNext == PartMoves \/ MessageMoves

MCSpec == MCInit /\ [][MCNext]_<<reporterVars, messageVars>> /\ StreamFairness
=============================================================================
