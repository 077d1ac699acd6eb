----------------------------- MODULE MCPipeline -----------------------------
(* An instance of Pipeline for TLC.                                         *)
EXTENDS Pipeline

Says(v, a) == [value |-> v, action |-> a]
Limit(k, g, v) == [kind |-> k, limit |-> 1, given |-> g, value |-> v]
Able(a, s, bs) == [action |-> a, schema |-> s, constraints |-> bs]
Asks(rules, capabilities) ==
    [action |-> "book", rules |-> rules, capabilities |-> capabilities]

Fine == Able("book", "met", <<Limit("max", "number", 1), Limit("min", "number", 1),
                              Limit("max", "no", 0), Limit("other", "text", 0)>>)
Quiet == <<Says("true", "allow"), Says("false", "reject")>>

\* Each way through the two stages, with values below, at and above a limit.
MCContexts ==
    {Asks(rules, <<Fine>>) :
       rules \in {<< >>, Quiet, <<Says("false", "reject"), Says("true", "reject")>>,
                  <<Says("error", "allow")>>}}
    \cup
    {Asks(Quiet, capabilities) :
       capabilities \in
         {<< >>, <<Able("call", "none", << >>)>>, <<Able("call", "violated", << >>), Fine>>,
          <<Able("book", "violated", << >>), Fine>>, <<Able("book", "broken", << >>)>>,
          <<Fine, Able("book", "none", <<Limit("max", "number", 2)>>)>>,
          <<Able("book", "none", <<Limit("max", "number", 2), Limit("min", "text", 0)>>)>>,
          <<Able("book", "none", <<Limit("min", "text", 0), Limit("max", "number", 2)>>)>>,
          <<Able("book", "none", <<Limit("max", "number", 0), Limit("min", "number", 0)>>)>>}}
=============================================================================
