------------------------------- MODULE MCServing ------------------------------
(* A project with two worktrees: its own, and one the daemon knows by its      *)
(* containers.                                                                 *)
EXTENDS Serving

dev == [project |-> "shop", workspace |-> "dev"]
feat == [project |-> "shop", workspace |-> "feat"]

web == [scope |-> feat, names |-> <<"web">>, port |-> FALSE, default |-> TRUE, tcp |-> {3000}]
api == [scope |-> dev, names |-> <<"api">>, port |-> TRUE, default |-> FALSE, tcp |-> {80, 5432}]

MCServices == <<web, api>>
MCNetworks == << {<<"a", "b">>}, {<<"a">>} >>

Full == [domain |-> <<"test">>, pattern |-> <<"service", "workspace", "project">>]
Other == [domain |-> <<"dev", "test">>, pattern |-> <<"workspace">>]
MCConfigs == [s \in Scopes |-> IF s = dev THEN {Full, Other} ELSE {Full}]
MCFirst == [s \in Scopes |-> Full]

MCStatus == [ip \in Ip |-> IF ip = "a" THEN "up" ELSE "refusing"]
MCAsked == {WorkspaceHost(Full, feat)}
=============================================================================
