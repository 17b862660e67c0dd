------------------------------- MODULE Hosts -------------------------------
(***************************************************************************)
(* The machines the CLI knows and their passwords: vbox-cli's remote.rs,   *)
(* machines/ and keychain.rs, and what ssh.rs makes of them.  Remote hosts *)
(* are kept in remote-hosts.json, what the user sets for a Parallels       *)
(* machine in machines.json, passwords in the macOS keychain; the files    *)
(* only say whether there is a password.  The account of a remote host is  *)
(* its name in small letters, with every run of other characters an        *)
(* underscore: hosts may share one, and each has the password that was     *)
(* stored last.                                                            *)
(***************************************************************************)
EXTENDS Stack

CONSTANTS
    Remotes, Vms,         \* names of remote hosts, machines of Parallels
    keychain_account(_)   \* a machine's account: remote:<sanitize_id> or parallels:<uuid>

ASSUME HostsAssumption ==
    /\ Remotes \cap Vms = {}
    /\ \A v \in Vms : \A m \in (Remotes \cup Vms) \ {v} : keychain_account(m) # keychain_account(v)

Machines == Remotes \cup Vms

VARIABLES
    keychain,  \* machines whose account has the password that was stored for them
    vm         \* prlctl's machines: "running", "stopped" or "gone"

hostVars == <<keychain, vm>>

(* What the two files hold for a machine: "absent", "plain" or "password". *)
NoHosts == [m \in Remotes |-> "absent"]
NoOverrides == [m \in Machines |-> "absent"]
NoStore(f) == IF f = "remotes" THEN NoHosts ELSE NoOverrides

M(t) == loc[t].inst
StoreOf(m) == IF m \in Remotes THEN "remotes" ELSE "machines"
same == <<loc, others, stackVars>>

-----------------------------------------------------------------------------
(* Reading.                                                                *)

(* records: what prlctl lists, with its overrides, and the remote hosts.   *)
Known == {m \in Vms : vm[m] # "gone"} \cup {m \in Remotes : file["remotes"][m] # "absent"}
has_password(m) == file[StoreOf(m)][m] = "password"

find_one(t) ==
    /\ At(t, "find")
    /\ IF M(t) \in Known THEN Go(t) ELSE Bail(t)
    /\ UNCHANGED <<same, mem, file, tmp, hostVars>>

(* SshCreds: with has_password, ssh asks the askpass helper and no key is  *)
(* tried; askpass prints what the keychain has, if anything, and the login *)
(* works if that is the machine's own password.                            *)
get_password(m) == m \in keychain
find_by_ssh_target(m) == m \in Known
from_context(m) == IF find_by_ssh_target(m) /\ has_password(m) THEN "password" ELSE "keys"
run_askpass(m)  == get_password(m)
LoginWorks(m)   == from_context(m) = "password" => run_askpass(m)

-----------------------------------------------------------------------------
(* The keychain.                                                           *)

OfAccount(m) == {n \in Machines : keychain_account(n) = keychain_account(m)}
Stored(m)  == (keychain \ OfAccount(m)) \cup {m}
Cleared(m) == keychain \ OfAccount(m)

\* set_password: `security` may have stored what it fails to report.
set_password(t) ==
    /\ At(t, "keychain.set")
    /\ \/ Go(t) /\ keychain' = Stored(M(t))
       \/ Bail(t) /\ keychain' \in {keychain, Stored(M(t))}
    /\ UNCHANGED <<same, mem, file, tmp, vm>>

\* delete_password: whatever `security` answers; it may have deleted nothing.
delete_password(t) ==
    /\ At(t, "keychain.delete") /\ Go(t) /\ keychain' \in {keychain, Cleared(M(t))}
    /\ UNCHANGED <<same, mem, file, tmp, vm>>

\* The end of remove_name: only for a host that was there with a password.
Forget(t) ==
    /\ At(t, "forget") /\ Go(t)
    /\ keychain' \in {keychain} \cup {Cleared(m) : m \in {n \in {M(t)} : mem[t][n] = "password"}}
    /\ UNCHANGED <<same, mem, file, tmp, vm>>

-----------------------------------------------------------------------------
(* remote-hosts.json and machines.json.                                    *)

LoadHosts(t) ==
    /\ At(t, "load") /\ Run(t) /\ Load(t, StoreOf(M(t)))
    /\ UNCHANGED <<same, file, tmp, hostVars>>

\* set and unset write to machines.json for a remote host as well.
LoadOverrides(t) ==
    /\ At(t, "load-overrides") /\ Run(t) /\ Load(t, "machines")
    /\ UNCHANGED <<same, file, tmp, hostVars>>

\* The change to the copy, by the step that makes it.
Changed(entry, step) ==
    CASE step = "put-plain" -> "plain"
      [] step = "put-password" -> "password"
      [] step = "drop" -> "absent"
      [] step = "mark" -> "password"
      [] step = "unmark" -> "plain"
      [] step = "set-key" -> IF entry = "absent" THEN "plain" ELSE entry
      [] step = "unset-key" -> entry

Edits == {"put-plain", "put-password", "drop", "mark", "unmark", "set-key", "unset-key"}
OfOverrides == {"set-key", "unset-key"}

\* set_has_password fails for a host that is not in the file any more.
Edit(t, step) ==
    LET f == IF step \in OfOverrides THEN "machines" ELSE StoreOf(M(t))
        lost == step \in {"mark", "unmark"} /\ f = "remotes" /\ mem[t][M(t)] = "absent"
    IN /\ At(t, step)
       /\ \/ lost /\ Bail(t) /\ UNCHANGED tmp
          \/ ~lost /\ Write(t, f, [mem[t] EXCEPT ![M(t)] = Changed(@, step)], NoStore(f))
       /\ UNCHANGED <<same, mem, file, hostVars>>

save(t) ==
    /\ At(t, "save") /\ Rename(t, StoreOf(M(t)))
    /\ UNCHANGED <<same, mem, hostVars>>

save_overrides(t) ==
    /\ At(t, "save-overrides") /\ Rename(t, "machines")
    /\ UNCHANGED <<same, mem, hostVars>>

-----------------------------------------------------------------------------
(* Parallels.                                                              *)

\* prlctl start and stop; not for a remote host.
control_cmd(t) ==
    /\ \E s \in {"start-vm", "stop-vm"} : At(t, s)
    /\ \/ M(t) \in Remotes /\ Bail(t) /\ UNCHANGED vm
       \/ M(t) \in Vms /\ Bail(t) /\ UNCHANGED vm
       \/ /\ M(t) \in Vms /\ vm[M(t)] # "gone" /\ Go(t)
          /\ vm' = [vm EXCEPT ![M(t)] = IF At(t, "start-vm") THEN "running" ELSE "stopped"]
    /\ UNCHANGED <<same, mem, file, tmp, keychain>>

\* delete_cmd: a machine that runs is kept; prlctl may refuse.
delete_vm(t) ==
    /\ At(t, "delete-vm")
    /\ \/ vm[M(t)] # "running" /\ Go(t) /\ vm' = [vm EXCEPT ![M(t)] = "gone"]
       \/ Bail(t) /\ UNCHANGED vm
    /\ UNCHANGED <<same, mem, file, tmp, keychain>>

-----------------------------------------------------------------------------
(* The commands.                                                           *)

store(edit) == <<"load", edit, "save">>
overrides(edit) == <<"load-overrides", edit, "save-overrides">>

add_cmd == <<"keychain.delete">> \o store("put-plain")
\* Mutant: the host is saved before its password.
add_with_password_late == store("put-password") \o <<"keychain.set">>
add_with_password == <<"keychain.set">> \o store("put-password")
remove_name == store("drop") \o <<"forget">>
set == <<"find", "keychain.set">> \o store("mark")
clear == <<"find", "keychain.delete">> \o store("unmark")
set_cmd == <<"find">> \o overrides("set-key")
unset_cmd == <<"find">> \o overrides("unset-key")
delete_cmd(m) == <<"find">> \o IF m \in Remotes THEN remove_name
                               ELSE <<"delete-vm">> \o store("drop")

HostCommands == {"add", "add-password", "remove", "password", "no-password",
                 "set", "unset", "delete", "start-vm", "stop-vm", "info"}
HostSteps(c, m) ==
    CASE c = "add" -> add_cmd
      [] c = "add-password" -> add_with_password
      [] c = "remove" -> remove_name
      [] c = "password" -> set
      [] c = "no-password" -> clear
      [] c = "set" -> set_cmd
      [] c = "unset" -> unset_cmd
      [] c = "delete" -> delete_cmd(m)
      [] c \in {"start-vm", "stop-vm"} -> <<"find", c>>
      [] c = "info" -> <<"find">>

HostStep(t) ==
    \/ find_one(t) \/ set_password(t) \/ delete_password(t) \/ Forget(t)
    \/ LoadHosts(t) \/ LoadOverrides(t)
    \/ \E step \in Edits : Edit(t, step)
    \/ save(t) \/ save_overrides(t)
    \/ control_cmd(t) \/ delete_vm(t)

HostInit == keychain = {} /\ vm = [v \in Vms |-> "stopped"]
=============================================================================
