---------------------------- MODULE MCTestCluster ----------------------------
(* Configurations of four services.                                        *)
EXTENDS TestCluster

One == [s \in Service |-> 1]
Each == [s \in Service |-> s]

(* OpenSearch Dashboards, with N - 1 dependencies: one cluster.            *)
Dashboards == [managed |-> TRUE, cluster |-> One, group |-> One]

(* Topologies: any way to group consecutive data nodes.                    *)
Topologies ==
  {[managed |-> FALSE, cluster |-> Each, group |-> g] :
     g \in {f \in [Service -> Service] : Consecutive(f)}}

AnyLayout == {Dashboards} \cup Topologies
DashboardsOnly == {Dashboards}

=============================================================================
