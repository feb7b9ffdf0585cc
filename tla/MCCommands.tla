----------------------------- MODULE MCCommands -----------------------------
(* Two worktrees of a project with a service each, one of which is created     *)
(* anew under its name; ids and names share prefixes.                          *)
EXTENDS Commands

Container(id, name, service, workspace) ==
  [id |-> id, name |-> name, service |-> service, project |-> <<"shop">>,
   workspace |-> workspace]

db   == Container(<<"4", "1">>, <<"d", "b">>, <<"db">>, <<"dev">>)
new  == Container(<<"4", "2">>, <<"d", "b">>, <<"db">>, <<"dev">>)
api  == Container(<<"5", "1">>, <<"d", "b", "x">>, <<"api">>, <<"dev">>)

MCContainers == <<db, new, api>>
MCPresent == {db.id, api.id}

Invocation(op, kind, of, mode) == [op |-> op, kind |-> kind, of |-> of, mode |-> mode]

Dev == <<<<"shop">>, <<"dev">>>>
AsHelped == {
  Invocation("stop", "all", <<>>, "exact"),
  Invocation("kill", "all", <<>>, "exact"),
  Invocation("kill", "container", <<"d", "b">>, "exact"),
  Invocation("stop", "bare", <<"4">>, "exact"),
  Invocation("rm", "workspace", Dev \o <<<<"db">>>>, "exact"),
  Invocation("rm -f", "workspace", {Dev \o <<<<"api">>>>}, "regex"),
  Invocation("rm -f", "bare", <<"d", "b">>, "prefix")}

(* The form of rm that takes names for prefixes. *)
RemoveByName == {Invocation("rm -f", "container", <<"d", "b">>, "exact")}

MCInvocations == AsHelped \cup RemoveByName

=============================================================================
