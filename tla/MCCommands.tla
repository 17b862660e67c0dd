----------------------------- MODULE MCCommands -----------------------------
(* Commands on one to three instances, remote hosts and launchers.         *)
EXTENDS Commands

SameName(a) == "Name"
SharedAccount(m) == IF m \in {"h", "H"} THEN "remote:h" ELSE "parallels:v"

(* Which commands meet: instances that race for a port, an instance that   *)
(* is stopped while it is started, two users of one control tunnel, hosts, *)
(* launchers of two apps with one name, launchers and instances.           *)
Overlapping ==
    { {<<"run", "default">>, <<"stop", "default">>},
      {<<"prepare", "a">>, <<"prepare", "b">>},
      {<<"prepare", "a">>, <<"stop", "a">>},
      {<<"launch", "default">>, <<"launchid", "a">>},
      {<<"status", "a">>, <<"stop", "default">>, <<"prepare", "a">>},
      {<<"view", "default">>, <<"app", "default">>, <<"stop-vm", "v">>},
      {<<"bench", "default">>, <<"uninstall", "default">>, <<"install", "default">>},
      {<<"installtls", "default">>, <<"bench", "default">>},
      {<<"launcher", "a">>, <<"bundle", "a">>},
      {<<"add", "h">>, <<"add-password", "h">>, <<"start-vm", "h">>, <<"set", "h">>},
      {<<"password", "h">>, <<"no-password", "h">>, <<"add", "h">>, <<"delete", "h">>},
      {<<"apps", "default">>, <<"ui", "default">>},
      {<<"launcher", "a">>, <<"launcher", "b">>, <<"removelauncher", "a">>},
      {<<"library", "default">>, <<"refresh", "default">>, <<"icons", "default">>, <<"removeapps", "default">>} }

(* One command after the other, each of which may fail or be killed:       *)
(* installations and bootstraps in any order; two remote hosts with one    *)
(* account; a machine of Parallels.                                        *)
Interrupted ==
    { {<<"installtls", "default">>, <<"bootstrap", "default">>, <<"bootstrap", "a">>},
      {<<"installtls", "default">>, <<"installtls", "a">>, <<"bootstrap", "default">>},
      {<<"installtls", "default">>, <<"bootstrap", "default">>, <<"install", "default">>},
      {<<"add", "h">>, <<"add-password", "h">>, <<"add-password", "H">>, <<"remove", "h">>,
       <<"password", "H">>, <<"no-password", "h">>},
      {<<"password", "v">>, <<"no-password", "v">>, <<"set", "v">>, <<"unset", "v">>,
       <<"delete", "v">>, <<"start-vm", "v">>} }

With(cs, alone) == {<<c[1], c[2], alone>> : c \in cs}
MCMixes == {With(cs, FALSE) : cs \in Overlapping} \cup {With(cs, TRUE) : cs \in Interrupted}

(* The same, with one bootstrap more for two that are interrupted.         *)
Longer ==
    {With(cs, TRUE) : cs \in Interrupted \cup
        { {<<"installtls", "default">>, <<"installtls", "a">>, <<"bootstrap", "default">>, <<"bootstrap", "a">>} }}
=============================================================================
