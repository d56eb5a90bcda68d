---------------------------- MODULE MCIntegTestRun ----------------------------
(* Two components: one whose tests ask for a topology, with two test       *)
(* configurations, and one with or without a test script; or a Dashboards  *)
(* component.                                                              *)
EXTENDS IntegTestRun

One  == [s \in Service |-> 1]
Each == [s \in Service |-> s]

Dashboards == [managed |-> TRUE, cluster |-> One, group |-> One]
Topology(g) == [managed |-> FALSE, cluster |-> Each, group |-> g]
MCLayouts ==
  {Dashboards} \cup {Topology(g) : g \in {f \in [Service -> Service] : Consecutive(f)}}

TestSuite(c, l, script, configs) ==
  [component |-> c, layout |-> l, script |-> script, configs |-> configs]

Both == <<"with-security", "without-security">>

MCPlans ==
  {<<TestSuite("core", l, TRUE, Both), TestSuite("plugin", l, script, <<"with-security">>)>> :
     l \in MCLayouts, script \in BOOLEAN}

=============================================================================
