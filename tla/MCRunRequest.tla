---------------------------- MODULE MCRunRequest ----------------------------
(* Every option, every pair of options about the same thing, and longer     *)
(* sequences.                                                               *)
EXTENDS RunRequest

Exec(cmd) == [cmd |-> cmd, user |-> ""]
Simple(opt, arg) == [opt |-> opt, arg |-> arg]
Net(aliases, n) == [opt |-> "WithNetworkName", net |-> n, arg |-> aliases]
Durable(execs) == [opt |-> "WithDurableStartupCommand", ns |-> Default, arg |-> execs]
FromDir(ns, execs) == [opt |-> "WithDurableStartupCommandsFromDir", ns |-> ns, arg |-> execs]
WaitOpt(opt, deadline, list) == [opt |-> opt, deadline |-> deadline, arg |-> list]
Endpoints0 == [drop |-> {}, null |-> {}, set |-> Empty]
Spec0(port, host) == [port |-> port, host |-> host]
Host(mode, bindings, binds) == [mode |-> mode, bindings |-> bindings, binds |-> binds]
Bind(parts, target) == [parts |-> parts, target |-> target]

MCNameOrder == <<"aaa", "bbb", "default", "zzz">>

MCOptions ==
  [image |-> Simple("WithImage", "img"), noname |-> Simple("WithName", ""), named |-> Simple("WithName", "c"),
   nostart |-> Simple("WithNoStart", ""),
   cmd |-> Simple("WithCmd", <<"sh">>), args |-> Simple("WithCmdArgs", <<"-c">>),
   entry |-> Simple("WithEntrypoint", <<"e">>), entryargs |-> Simple("WithEntrypointArgs", <<"f">>),
   env |-> Simple("WithEnv", "K" :> "1"), labels |-> Simple("WithLabels", "L" :> "1"),
   config |-> Simple("WithConfigModifier", [cmd |-> <<"other">>, env |-> "K" :> "2"]),
   addconfig |-> Simple("WithAdditionalConfigModifier", [cmd |-> <<>>, env |-> "K" :> "3"]),
   host |-> Simple("WithHostConfigModifier",
              Host("", "80" :> <<"8080", "">> @@ "90" :> <<"9090">>, <<Bind(2, "/data")>>)),
   addhost |-> Simple("WithAdditionalHostConfigModifier", Host("", Empty, <<Bind(2, "/data")>>)),
   badbind |-> Simple("WithHostConfigModifier", Host("", Empty, <<Bind(1, "/x")>>)),
   shared |-> Simple("WithHostConfigModifier", Host("container", "80" :> <<"1">>, <<>>)),
   app |-> Net(<<"web">>, "app"), app2 |-> Net(<<"api">>, "app"), db |-> Net(<<>>, "db"),
   brnet |-> Net(<<"x">>, "bridge"), bridge |-> [opt |-> "WithBridgeNetwork"],
   newnet |-> Simple("WithNewNetwork", <<"new">>),
   endpoints |-> Simple("WithEndpointSettingsModifier", [Endpoints0 EXCEPT !.set = "db" :> <<"mine">>]),
   addend |-> Simple("WithAdditionalEndpointSettingsModifier", [Endpoints0 EXCEPT !.drop = {"app"}]),
   addnil |-> Simple("WithAdditionalEndpointSettingsModifier", [Endpoints0 EXCEPT !.null = {"app"}]),
   addset |-> Simple("WithAdditionalEndpointSettingsModifier", [Endpoints0 EXCEPT !.set = "app" :> <<"other">>]),
   start |-> Simple("WithStartupCommand", <<"s1", "s2">>), ready |-> Simple("WithAfterReadyCommand", <<"a1">>),
   dispatch |-> Simple("WithStartupCommand", <<"run.sh">>),
   hooks |-> Simple("WithLifecycleHooks", <<[phase |-> "PostStarts", cmds |-> <<"h">>]>>),
   addhooks |-> Simple("WithAdditionalLifecycleHooks", <<[phase |-> "PostReadies", cmds |-> <<"h2">>]>>),
   wait |-> WaitOpt("WithWaitStrategy", 6, <<"log", "port">>),
   addwait |-> WaitOpt("WithAdditionalWaitStrategy", 3, <<"http">>),
   ports |-> Simple("WithExposedPorts", <<Spec0("80", "")>>),
   fixed |-> Simple("WithExposedPorts", <<Spec0("80", "88"), Spec0("53", "")>>),
   badport |-> Simple("WithExposedPorts", <<Spec0("bad", "")>>),
   checks |-> Simple("WithValidateFuncs", <<"fails">>), nocheck |-> Simple("WithValidateFuncs", <<>>),
   nilcheck |-> Simple("WithValidateFuncs", <<"nil">>),
   reader |-> Simple("WithFiles", <<File(Place("app"), "shared", "data"), File(Place("conf"), "host", "text")>>),
   dir |-> Simple("WithFiles", <<File(Place("etc"), "dir", "base"), File(Place("other"), "host", "more")>>),
   onto |-> Simple("WithFiles", <<File(Place("base"), "host", "late")>>),
   nofile |-> Simple("WithFiles", <<File(Place("none"), "nowhere", "")>>),
   durable |-> Durable(<<Exec("d1"), Exec("d2")>>), durable3 |-> Durable(<<Exec("d3"), Exec("d4"), Exec("d5")>>),
   durableuid |-> Durable(<<Exec("d6"), [cmd |-> "d7", user |-> "1000"]>>),
   zzz |-> FromDir("zzz", <<Exec("z1")>>), zzz2 |-> FromDir("zzz", <<Exec("z2"), Exec("z3")>>),
   aaa |-> FromDir("aaa", <<Exec("a")>>), bbb |-> FromDir("bbb", <<Exec("b")>>),
   reserved |-> FromDir(Default, <<Exec("r")>>)]

RunSymmetry == Permutations(Runs)

\* The options that work on the same part of the definition.
Groups ==
  {{"app", "app2", "db", "bridge", "newnet", "endpoints", "addend", "addnil", "addset"},
   {"cmd", "args", "config", "addconfig"}, {"reader", "dir", "onto", "durable", "durable3", "zzz", "zzz2", "aaa"},
   {"ports", "fixed", "host", "addhost", "shared"}, {"start", "hooks", "addhooks", "wait", "addwait"}}

Pairs == {<<"image", a, "dispatch">> : a \in DOMAIN MCOptions}
           \cup {<<"image", p[1], p[2], "dispatch">> : p \in UNION {g \X g : g \in Groups}}

Modifiers == {"endpoints", "addend", "addnil", "addset"}

MCPlans ==
  Pairs \cup {<<"image", "app", "bridge", m[1], m[2], m[3]>> : m \in Modifiers \X Modifiers \X Modifiers} \cup
  {<<>>, <<"nocheck", "dispatch">>,
   <<"image", "zzz", "dispatch", "durable", "aaa", "zzz2", "bbb">>,
   <<"image", "durable", "durable3", "dispatch">>,
   <<"image", "aaa", "durable", "reader", "zzz2", "durable", "aaa", "dispatch", "ready">>,
   <<"image", "app", "db", "endpoints", "addset", "addend", "addnil", "newnet">>,
   <<"image", "db", "app", "bridge", "newnet", "newnet", "named", "start">>,
   <<"image", "db", "app", "endpoints", "addend">>,
   <<"image", "app", "addset", "addend", "db", "start", "wait", "addwait", "addhooks">>,
   <<"image", "app", "endpoints", "addend", "addset", "db">>,
   <<"image", "wait", "addwait", "wait", "addwait", "addwait", "cmd", "args", "cmd", "args", "start", "ready">>,
   <<"image", "start", "hooks", "addhooks", "dispatch", "addwait", "addwait", "config">>,
   <<"image", "ports", "fixed", "host", "addhost">>, <<"image", "fixed", "ports", "host">>,
   <<"image", "fixed", "host", "nostart">>, <<"image", "ports", "shared">>}

=============================================================================
