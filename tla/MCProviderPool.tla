---- MODULE MCProviderPool ----
\* Two subscriptions of different providers and one review role.  Evidence ranges over what
\* the classifier tells apart.
EXTENDS ProviderPool
All == {"implementation", "review", "correctness-reviewer", "security-reviewer"}
Subscription(name) == [economic |-> "SUBSCRIPTION", provider |-> name, roles |-> All]
TwoSubscriptions == [r \in Resources |->
  Subscription(IF r = 1 THEN "anthropic" ELSE "openai")]
OneRole == <<"correctness-reviewer">>
Hard == {"none", "QUOTA_EXHAUSTED"}
AllEvidence ==
  [stalled : {FALSE}, launch : {"launched"}, trust : BOOLEAN,
   ownDeadline : BOOLEAN, exit127 : {FALSE}, denied : {FALSE}, envelope : Hard, stopLine : Hard,
   stopInStdout : BOOLEAN, saysNotFound : {FALSE}, text : {"none"},
   timedOut : {FALSE}]
====
