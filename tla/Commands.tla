------------------------------ MODULE Commands ------------------------------
(***************************************************************************)
(* The vbox commands together: Cli, Stack, Hosts and Library.  Commands    *)
(* are begun at any time, also while others run, and are killed at any     *)
(* step; viewers are closed and tunnels lose their connection.             *)
(***************************************************************************)
EXTENDS Library

\* Bound: sets of <<command, argument, alone>>, one of which is run.  A command
\* that is alone is begun when no other is running.
CONSTANT Mixes

\* The argument of a command on a machine is a machine, that of another an
\* instance or an app, which is the name of an instance, too.
ASSUME MixesAssumption ==
    \A m \in Mixes : \A c \in m :
        c[3] \in BOOLEAN /\ c[2] \in IF c[1] \in HostCommands THEN Machines ELSE Insts

VARIABLE mix    \* the commands still to be begun
vars == <<cliVars, stackVars, hostVars, libraryVars, mix>>

CommandsInit ==
    /\ mix \in Mixes
    /\ Init([ports |-> NoPorts, remotes |-> NoHosts, machines |-> NoOverrides])
    /\ ControlInit(\E c \in mix : c[1] = "installtls") /\ StackInit /\ HostInit /\ LibraryInit

(* A launcher takes its instance and its base port from its bundle.        *)
Dispatch(p, c) ==
    \/ /\ c[1] \in DOMAIN StackCommands /\ c[1] # "bundle"
       /\ Begin(p, c[2], Base, StackCommands[c[1]])
    \/ /\ c[1] = "bundle" /\ c[2] \in Apps /\ bundle_launch_args(NameOf(c[2]))
       /\ LET b == bundle[NameOf(c[2])] IN Begin(p, b.inst, b.port, run_launch)
    \/ /\ c[1] = "bundle" /\ ~bundle_launch_args(NameOf(c[2]))
       /\ Begin(p, c[2], Base, run_launch)
    \/ /\ c[1] \in DOMAIN LibraryCommands
       /\ Begin(p, c[2], Base, LibraryCommands[c[1]])
    \/ /\ c[1] \in HostCommands
       /\ Begin(p, c[2], Base, HostSteps(c[1], c[2]))

BeginCommand(p) ==
    /\ \E c \in mix : (c[3] => Quiet) /\ Dispatch(p, c) /\ mix' = mix \ {c}
    /\ UNCHANGED <<stackVars, hostVars, libraryVars>>

Step(t) ==
    \/ Exit(t) /\ UNCHANGED <<stackVars, hostVars, libraryVars, mix>>
    \/ StackStep(t) /\ UNCHANGED <<hostVars, libraryVars, mix>>
    \/ HostStep(t) /\ UNCHANGED <<libraryVars, mix>>
    \/ LibraryStep(t) /\ UNCHANGED mix

Surroundings ==
    \/ \E p \in Procs : KillCommand(p) /\ UNCHANGED <<hostVars, libraryVars, mix>>
    \/ \E p \in Live : CloseViewer(p) /\ UNCHANGED <<hostVars, libraryVars, mix>>
    \/ \E p \in Live : TunnelDies(p) /\ UNCHANGED <<hostVars, libraryVars, mix>>
    \/ DaemonRestarts /\ UNCHANGED <<ownVars, hostVars, libraryVars, mix>>
    \/ Upgrade /\ UNCHANGED mix

Next ==
    \/ \E p \in Procs : BeginCommand(p)
    \/ \E t \in Threads : Step(t)
    \/ Surroundings

(* Some process that can take its next step takes it.  Calls to controld,  *)
(* pings and the waits for sockets and processes have time limits in the   *)
(* code.  The ssh and scp children have none there: that each of them ends *)
(* is an assumption on ssh.  As each command has finitely many steps, none *)
(* is passed over for ever.                                                *)
Spec == CommandsInit /\ [][Next]_vars
FairSpec == Spec /\ WF_vars(\E t \in Threads : Step(t))

-----------------------------------------------------------------------------
Waiting(t) == At(t, "waitviewer") /\ Alive(loc[t].pid)

(* A ping that lets a command go on was answered by the server of the      *)
(* command's own instance, whatever the races for instance-ports.tsv have  *)
(* given to whom; another instance's answers only where the own server had *)
(* been started and was ended by a later command.                          *)
ReachesOwnServer ==
    [][\A t \in Threads : At(t, "ping") /\ todo'[t] = Tail(todo[t]) =>
          \/ Answers(loc[t].port) \subseteq {I(t)}
          \/ <<I(t), loc[t].port>> \in ended]_vars

(* Every command that was begun ends, or waits for a viewer that is open:  *)
(* no command hangs on a tunnel, a server or a socket that does not come,  *)
(* provided that ssh and scp end.                                          *)
CommandsFinish == <>[](\A t \in Threads : Idle(t) \/ Waiting(t))

(* A daemon that runs with TLS accepts the host's calls between commands   *)
(* that did not overlap, whatever has failed or was killed in between and  *)
(* however often the daemon has restarted: bootstrapping again keeps the   *)
(* CA, and a half-written server certificate or copy is never loaded.  The *)
(* one exception is a bootstrap interrupted between client.pem and         *)
(* client.key.pem, which locks the host out.                               *)
TlsAgrees ==
    /\ Quiet /\ "overlap" \notin history /\ daemon.mode = "tls"
    /\ Match(tls.client, tls.clientkey)
    => handle_session("Status")

(* What any number of interrupted bootstraps and copies have left is       *)
(* mended by the next one: when tls-bootstrap has written its last file, a *)
(* daemon with TLS accepts the host's calls, and controld-install with TLS *)
(* leaves such a daemon.                                                   *)
BootstrapMends ==
    [][\A t \in Threads :
          /\ "overlap" \notin history'
          /\ \/ /\ At(t, "clientkey") /\ tls' # tls /\ tls'.clientkey = Key(loc[t].pair)
                /\ daemon.mode = "tls"
             \/ At(t, "install-tls") /\ todo'[t] = Tail(todo[t])
          => handle_session("Status")']_vars

(* When `stop` has run, commands having run one at a time, no process of   *)
(* the instance that a pid file named is left.                             *)
StopIsClean ==
    [][\A t \in Threads : ~mixed' /\ todo[t] = <<"kill.control", "exit">> /\ todo'[t] # todo[t] =>
          \A p \in Live : procs[p].inst = I(t) /\ procs'[p].alive => p \in leaked]_vars

(* The step that changes the keychain for an account, other than to store  *)
(* m's own password.                                                       *)
TakesPassword(t, m) ==
    /\ keychain_account(M(t)) = keychain_account(m)
    /\ \/ At(t, "keychain.delete") \/ At(t, "forget")
       \/ At(t, "keychain.set") /\ M(t) # m
Saves(t) == At(t, "save") /\ tmp[StoreOf(M(t))] # <<>> /\ tmp'[StoreOf(M(t))] = <<>>

(* The password is in the keychain before a store says so.  Of commands    *)
(* that do not overlap, only one that takes the password of m's account    *)
(* away or replaces it with another host's can break the login to m; no    *)
(* save does, nor a command killed or failing at any step.  And a command  *)
(* that comes to save m leaves a login that works, whatever earlier ones   *)
(* left behind.                                                            *)
LoginsMend ==
    [][\A m \in Machines : "overlap" \notin history' /\ ~LoginWorks(m)' =>
          \/ ~LoginWorks(m) /\ ~\E t \in Threads : M(t) = m /\ Saves(t)
          \/ \E t \in Threads : TakesPassword(t, m)]_vars

(* Between such commands, vbox.app was compiled from the source the CLI    *)
(* wrote last, unless a compilation failed.                                *)
LibraryCurrent == Quiet /\ ~mixed /\ ~broken => bin \in {0, src} /\ (bin = 0 => src = 0)
=============================================================================
