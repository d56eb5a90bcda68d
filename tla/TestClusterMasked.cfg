\* The Dashboards cluster: OpenSearch Dashboards and OpenSearch.
CONSTANTS
  N = 2
  Layouts <- DashboardsOnly
SPECIFICATION Spec
PROPERTIES
  CreationFailureReachesTheCaller
CHECK_DEADLOCK FALSE
