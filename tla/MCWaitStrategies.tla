-------------------------- MODULE MCWaitStrategies --------------------------
(* Every strategy alone, and lists in which one strategy uses up the time  *)
(* of the next; with and without a deadline and timeouts; and lists inside *)
(* lists.                                                                  *)
EXTENDS WalkTree

One(kind, timeout, options) ==
  [kind |-> kind, timeout |-> timeout, options |-> options, deadline |-> Forever, list |-> <<>>]
Bare(kind) == One(kind, Forever, {})
All(deadline, timeout, list) ==
  [kind |-> "all", timeout |-> timeout, options |-> {}, deadline |-> deadline, list |-> list]

MCPlans ==
  {All(Forever, Forever, <<Bare(kind)>>) : kind \in Kinds}
    \cup {All(Forever, Forever, <<One(kind, 2, {})>>) : kind \in Kinds \ {"nil"}}
    \cup {All(Forever, Forever, <<One("port", 2, options)>>) :
            options \in SUBSET {"noExternal", "noInternal", "noShell"}}
    \cup {All(Forever, Forever, <<One(kind, 2, {"anyPort"})>>) : kind \in {"service", "port"}}
    \cup {All(Forever, Forever, <<One("exec", 2, {"retry"})>>), All(2, Forever, <<>>),
          All(Forever, Forever, <<One("log", 2, {"submatch"})>>),
          All(3, Forever, <<Bare("log"), Bare("nil"), Bare("service")>>),
          All(3, Forever, <<Bare("exec"), Bare("exit")>>),
          All(Forever, 2, <<Bare("nop"), Bare("health")>>),
          All(Forever, 5, <<Bare("log"), Bare("exit")>>),
          All(3, 2, <<Bare("port"), Bare("file")>>)}
    \cup {All(Forever, 2, <<One("tls", timeout, options)>>) :
            timeout \in {3, Forever}, options \in SUBSET {"roots", "cert"}}
    \cup {All(3, Forever, <<All(5, Forever, <<Bare("health")>>), Bare("exit")>>),
          All(Forever, 3, <<All(Forever, Forever, <<Bare("exit"), Bare("log")>>), Bare("exit")>>),
          All(Forever, 4, <<All(2, 5, <<All(3, Forever, <<Bare("exit")>>)>>)>>),
          All(5, Forever, <<Bare("health"), All(Forever, Forever, <<>>)>>),
          All(2, Forever, <<Bare("nil"), All(Forever, 1, <<Bare("exit"), Bare("health")>>),
                            Bare("exit")>>)}

\* The plans, and what is in them down to the third level.
Holding(strategies) == strategies \cup UNION {ToSet(s.list) : s \in strategies}
MCStrategies == Holding(Holding(Holding(MCPlans)))

=============================================================================
