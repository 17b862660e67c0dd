------------------------------- MODULE Stack -------------------------------
(***************************************************************************)
(* The commands that bring an instance up and take it down: vbox-cli's     *)
(* runtime.rs and, for the launchers, the client's launch.rs.  An instance *)
(* needs the tunnel to vbox-controld, a server that controld starts on the *)
(* instance's port, a tunnel to that port, a viewer that makes the Wayland *)
(* socket, and the app.  Tunnels and viewers are background processes that *)
(* later commands find through pid files; ports are handed out through     *)
(* instance-ports.tsv.                                                     *)
(***************************************************************************)
EXTENDS Control

CONSTANTS
    Base, Ctl,  \* ctx.port and VBOX_CONTROL_PORT
    Span        \* ports there are to hand out

ASSUME StackAssumption == Base \in Nat \ {0} /\ Ctl \in Nat \ {0} /\ Span \in Nat

VARIABLES
    procs,    \* background processes by pid: an ssh or vbox-client, never reused
    pidfile,  \* the pid files of the instances' run directories
    server,   \* controld's instances: the port of the running server
    apps,     \* instances with an app
    leaked,   \* processes that no pid file names any more
    ended     \* <<instance, port>> of the servers that ran and were ended

ownVars == <<procs, pidfile, server, apps, leaked, ended>>
stackVars == <<ownVars, controlVars>>

\* The kinds with a pid file, and the steps that write and kill it.
PidSteps == [viewer |-> "pid.viewer", tunnel |-> "pid.tunnel", control |-> "pid.control"]
KillSteps == [viewer |-> "kill.viewer", tunnel |-> "kill.tunnel", control |-> "kill.control"]
Kinds == {"viewer", "tunnel", "control"}
Alive(p) == p # 0 /\ procs[p].alive
Live == {p \in DOMAIN procs : procs[p].alive}

-----------------------------------------------------------------------------
(* The local ports and the guest.                                          *)

(* ssh -N -L binds the port if it is free and stays alive if it is not.    *)
Listening(port) == \E p \in Live : procs[p].bound /\ procs[p].port = port

(* Who answers on a port: the tunnels end at the same port of the guest.   *)
Answers(port) == {i \in Insts : Listening(port) /\ server[i] = port}

(* vbox-client ctl ...: one call to controld through the control tunnel.   *)
call(method) == Listening(Ctl) /\ handle_session(method)

(* The server makes the Wayland socket when a viewer asks for it.          *)
SocketUp(i) ==
    \E p \in Live : /\ procs[p].kind \in {"viewer", "bundle"} /\ procs[p].inst = i
                    /\ Answers(procs[p].port) # {}

-----------------------------------------------------------------------------
(* instance-ports.tsv.                                                     *)

reserved_ports(base) == {base, Ctl}
FirstPort(base) == base + 2
LastPort(base)  == FirstPort(base) + Span - 1

FreePorts(base, entries) ==
    {q \in FirstPort(base) .. LastPort(base) :
        q \notin reserved_ports(base) /\ \A i \in Insts : entries[i] # q}
Lowest(S) == CHOOSE q \in S : \A r \in S : q <= r

NoPorts == [i \in Insts |-> 0]
read_instance_ports(t) == Load(t, "ports")

(* instance_port: the port of the instance if it has one.  The file may    *)
(* not be readable.                                                        *)
ReadPorts(t) ==
    /\ At(t, "ports")
    /\ LET had == file["ports"][I(t)]
           free == FreePorts(loc[t].port, file["ports"])
       IN \/ I(t) = Default /\ Skip(t, 3) /\ UNCHANGED loc
          \/ I(t) # Default /\ had # 0 /\ Skip(t, 3) /\ loc' = [loc EXCEPT ![t].port = had]
          \/ /\ I(t) # Default /\ had = 0 /\ free # {}
             /\ Go(t) /\ loc' = [loc EXCEPT ![t].port = Lowest(free)]
          \/ I(t) # Default /\ Bail(t) /\ UNCHANGED loc
    /\ read_instance_ports(t)
    /\ UNCHANGED <<file, tmp, others, stackVars>>

WritePorts(t) ==
    /\ At(t, "ports.write")
    /\ Write(t, "ports", [mem[t] EXCEPT ![I(t)] = loc[t].port], NoPorts)
    /\ UNCHANGED <<loc, mem, file, others, stackVars>>

RenamePorts(t) ==
    /\ At(t, "ports.rename") /\ Rename(t, "ports")
    /\ UNCHANGED <<loc, mem, others, stackVars>>

instance_context == <<"ports", "ports.write", "ports.rename">>

-----------------------------------------------------------------------------
(* Background processes.                                                   *)

\* Mutant: the pid file is removed and the process is left alone.
kill_pid_file_only(i, kind, ps) == ps

\* kill_pid_file: `kill`, then the file goes.
kill_pid_file(i, kind, ps) ==
    IF pidfile[<<i, kind>>] = 0 THEN ps ELSE [ps EXCEPT ![pidfile[<<i, kind>>]].alive = FALSE]

Spawn(t, kind, port, ps) ==
    /\ procs' = Append(ps, [kind |-> kind, inst |-> I(t), port |-> port, alive |-> TRUE,
                            bound |-> kind \in {"tunnel", "control"} /\ ~Listening(port)])
    /\ loc' = [loc EXCEPT ![t].pid = Len(ps) + 1]

(* The pid is written after the process has started; what was there is     *)
(* overwritten, whether or not its process still runs.                     *)
WritePid(t, kind) ==
    /\ At(t, PidSteps[kind]) /\ Go(t)
    /\ leaked' = leaked \cup ({pidfile[<<I(t), kind>>]} \cap Live)
    /\ pidfile' = [pidfile EXCEPT ![<<I(t), kind>>] = loc[t].pid]
    /\ UNCHANGED <<loc, mem, file, tmp, others, procs, server, apps, controlVars, ended>>

start_control_tunnel(t) ==
    /\ At(t, "control")
    /\ IF Listening(Ctl)
       THEN Skip(t, 2) /\ UNCHANGED <<procs, pidfile, loc>>
       ELSE /\ Go(t) /\ Spawn(t, "control", Ctl, kill_pid_file(I(t), "control", procs))
            /\ pidfile' = [pidfile EXCEPT ![<<I(t), "control">>] = 0]
    /\ UNCHANGED <<mem, file, tmp, others, server, apps, controlVars, leaked, ended>>

start_tunnel(t) ==
    /\ At(t, "tunnel") /\ Go(t) /\ Spawn(t, "tunnel", loc[t].port, procs)
    /\ UNCHANGED <<mem, file, tmp, others, pidfile, server, apps, controlVars, leaked, ended>>

start_viewer_bg(t) ==
    /\ At(t, "viewer") /\ Go(t) /\ Spawn(t, "viewer", loc[t].port, procs)
    /\ UNCHANGED <<mem, file, tmp, others, pidfile, server, apps, controlVars, leaked, ended>>

KillPid(t, kind) ==
    /\ At(t, KillSteps[kind]) /\ Go(t)
    /\ procs' = kill_pid_file(I(t), kind, procs)
    /\ pidfile' = [pidfile EXCEPT ![<<I(t), kind>>] = 0]
    /\ UNCHANGED <<loc, mem, file, tmp, others, server, apps, controlVars, leaked, ended>>

(* status: only the tunnel it has started itself is killed again.          *)
KillOwnTunnel(t) ==
    /\ At(t, "kill.own") /\ Go(t)
    /\ LET mine == loc[t].pid # 0
       IN /\ procs' = IF mine THEN kill_pid_file(I(t), "control", procs) ELSE procs
          /\ pidfile' = IF mine THEN [pidfile EXCEPT ![<<I(t), "control">>] = 0] ELSE pidfile
    /\ UNCHANGED <<loc, mem, file, tmp, others, server, apps, controlVars, leaked, ended>>

(* wait_viewer reads the pid once, then polls it for as long as it takes.  *)
ReadViewer(t) ==
    /\ At(t, "readviewer") /\ Go(t)
    /\ loc' = [loc EXCEPT ![t].pid = pidfile[<<I(t), "viewer">>]]
    /\ UNCHANGED <<mem, file, tmp, others, stackVars>>

wait_viewer(t) ==
    /\ At(t, "waitviewer") /\ ~Alive(loc[t].pid) /\ Go(t)
    /\ UNCHANGED <<loc, mem, file, tmp, others, stackVars>>

-----------------------------------------------------------------------------
(* Calls to controld.  A call may be carried out and its answer lost.      *)

Call(t, method, ok, effect) ==
    \/ ~(call(method) /\ ok) /\ Bail(t) /\ UNCHANGED <<server, apps, ended>>
    \/ call(method) /\ ok /\ Run(t) /\ effect

(* The instance's server is ended, if it has one.                          *)
EndServer(i) == ended' = ended \cup {<<j, server[j]>> : j \in {k \in {i} : server[k] # 0}}

\* Mutant: a refused start-instance does not end the command.
StartServerAnyway(t) ==
    /\ At(t, "start")
    /\ \/ ~call("StartInstance") /\ Go(t) /\ UNCHANGED <<server, apps>>
       \/ /\ call("StartInstance") /\ Go(t)
          /\ server' = IF \A i \in Insts \ {I(t)} : server[i] # loc[t].port
                       THEN [server EXCEPT ![I(t)] = loc[t].port] ELSE server
          /\ UNCHANGED apps
    /\ UNCHANGED <<loc, mem, file, tmp, others, procs, pidfile, controlVars, leaked, ended>>

\* start_server: controld refuses a port that another instance has and
\* otherwise ends the instance's server and apps and starts a server, which
\* may fail.
start_server(t) ==
    /\ At(t, "start")
    /\ Call(t, "StartInstance", \A i \in Insts \ {I(t)} : server[i] # loc[t].port,
            /\ server' \in {[server EXCEPT ![I(t)] = loc[t].port], [server EXCEPT ![I(t)] = 0]}
            /\ (server'[I(t)] = 0 => Bail(t))
            /\ EndServer(I(t)) /\ apps' = apps \ {I(t)})
    /\ UNCHANGED <<loc, mem, file, tmp, others, procs, pidfile, controlVars, leaked>>

\* Mutant: wait_ping tries for ever.
wait_ping_forever(t) ==
    /\ At(t, "ping") /\ Answers(loc[t].port) # {} /\ Go(t)
    /\ UNCHANGED <<loc, mem, file, tmp, others, stackVars>>

\* wait_ping: forty tries, then the command fails.
wait_ping(t) ==
    /\ At(t, "ping")
    /\ IF Answers(loc[t].port) # {} THEN Go(t) ELSE Bail(t)
    /\ UNCHANGED <<loc, mem, file, tmp, others, stackVars>>

\* bench-data-plane and stability-test count the answers and go on.
ping(t) ==
    /\ At(t, "count") /\ Go(t)
    /\ UNCHANGED <<loc, mem, file, tmp, others, stackVars>>

\* wait_socket: up to five seconds, at the other end.
wait_socket(t) ==
    /\ At(t, "socket")
    /\ Call(t, "WaitSocket", SocketUp(I(t)), UNCHANGED <<server, apps, ended>>)
    /\ UNCHANGED <<loc, mem, file, tmp, others, procs, pidfile, controlVars, leaked>>

\* launch_app: controld wants the socket there; an app that ends within
\* --wait-ready-ms is an error, and only an instance it has gets the app.
launch_app(t) ==
    /\ At(t, "launch")
    /\ \/ Call(t, "LaunchApp", SocketUp(I(t)), /\ apps' = apps \cup {i \in {I(t)} : server[i] # 0}
                                  /\ UNCHANGED <<server, ended>>)
       \/ call("LaunchApp") /\ Bail(t) /\ UNCHANGED <<server, apps, ended>>
    /\ UNCHANGED <<loc, mem, file, tmp, others, procs, pidfile, controlVars, leaked>>

\* stop's call of stop-instance, whose result is dropped.
StopInstance(t) ==
    /\ At(t, "stop") /\ Go(t)
    /\ \/ call("StopInstance") /\ EndServer(I(t)) /\ server' = [server EXCEPT ![I(t)] = 0] /\ apps' = apps \ {I(t)}
       \/ ~call("StopInstance") /\ UNCHANGED <<server, apps, ended>>
    /\ UNCHANGED <<loc, mem, file, tmp, others, procs, pidfile, controlVars, leaked>>

\* ctl status; its result is what the command returns.
CtlStatus(t) ==
    /\ At(t, "ctl-status") /\ Go(t)
    /\ UNCHANGED <<loc, mem, file, tmp, others, stackVars>>

(* cargo and tar if --build is given, which change nothing modelled here,  *)
(* and VBOX_KEEP, which ends a command before its stop.                    *)
Tool(t) ==
    /\ \E s \in {"build", "keep"} : At(t, s)
    /\ Run(t)
    /\ UNCHANGED <<loc, mem, file, tmp, others, stackVars>>

-----------------------------------------------------------------------------
(* A launcher: prepare-app, then app-id beside the viewer, then stop.      *)

OpenView(t) ==
    /\ At(t, "view") /\ Go(t) /\ Spawn(t, "bundle", loc[t].port, procs)
    /\ UNCHANGED <<mem, file, tmp, others, pidfile, server, apps, controlVars, leaked, ended>>

\* The app is looked up in the library first: see Library.
app_id == <<"cache", "row", "socket", "launch">>

SpawnAppId(t) ==
    /\ At(t, "app-id")
    /\ todo' = [todo EXCEPT ![t] = Tail(@), ![Side(t)] = app_id \o <<"exit">>]
    /\ loc' = [loc EXCEPT ![Side(t)] = loc[t]]
    /\ UNCHANGED <<mem, file, tmp, others, stackVars>>

-----------------------------------------------------------------------------
(* The commands.                                                           *)

start_stack == <<"build", "control", "pid.control", "start", "tunnel", "pid.tunnel", "ping">>
viewer == <<"viewer", "pid.viewer", "socket">>
waiting == <<"readviewer", "waitviewer">>
stop == <<"kill.viewer", "kill.tunnel", "control", "pid.control", "stop", "kill.control">>

run_app == start_stack \o viewer \o <<"launch">> \o waiting \o <<"keep">> \o stop
view == start_stack \o viewer \o waiting \o <<"keep">> \o stop
launch == start_stack \o viewer \o <<"launch">>
launch_id == <<"cache", "row">> \o launch
prepare_app == <<"cache", "row">> \o instance_context \o start_stack
bench_data_plane == start_stack \o <<"count">>
status == <<"control", "pid.control", "ctl-status", "kill.own">>
run_launch == prepare_app \o <<"app-id", "view", "waitviewer">> \o stop

StackCommands ==
    [run |-> run_app, view |-> view, launch |-> launch, prepare |-> prepare_app,
     launchid |-> launch_id, app |-> <<"socket", "launch">>, bench |-> bench_data_plane,
     stop |-> stop, status |-> status, bundle |-> run_launch,
     install |-> install_plain, installtls |-> install_with_tls, bootstrap |-> bootstrap,
     uninstall |-> <<"uninstall">>]

StackStep(t) ==
    \/ ReadPorts(t) \/ WritePorts(t) \/ RenamePorts(t)
    \/ start_control_tunnel(t) \/ start_tunnel(t) \/ start_viewer_bg(t)
    \/ \E kind \in Kinds : WritePid(t, kind)
    \/ \E kind \in Kinds : KillPid(t, kind)
    \/ KillOwnTunnel(t) \/ ReadViewer(t) \/ wait_viewer(t)
    \/ start_server(t) \/ wait_ping(t) \/ ping(t) \/ wait_socket(t) \/ launch_app(t)
    \/ ControlStep(t) /\ UNCHANGED ownVars
    \/ StopInstance(t) \/ CtlStatus(t) \/ Tool(t) \/ OpenView(t) \/ SpawnAppId(t)

(* The user closes a viewer; a tunnel loses its connection.                *)
CloseViewer(p) ==
    /\ Alive(p) /\ procs[p].kind \in {"viewer", "bundle"}
    /\ procs' = [procs EXCEPT ![p].alive = FALSE]
    /\ UNCHANGED <<cliVars, pidfile, server, apps, controlVars, leaked, ended>>

TunnelDies(p) ==
    /\ Alive(p) /\ procs[p].kind \in {"tunnel", "control"} /\ faults < MaxFaults
    /\ procs' = [procs EXCEPT ![p].alive = FALSE] /\ faults' = faults + 1
    /\ UNCHANGED <<todo, loc, mem, file, tmp, history, pidfile, server, apps, controlVars, leaked, ended>>

(* A command is killed.  A process whose pid it had still to write stays   *)
(* unnamed; the viewer of a launcher is the process itself.                *)
KillCommand(p) ==
    LET t == Main(p)
        pid == loc[t].pid
    IN /\ Kill(p)
       /\ leaked' = leaked \cup {q \in {pid} : \E kind \in Kinds : At(t, PidSteps[kind])}
       /\ procs' = IF At(t, "waitviewer") /\ Alive(pid) /\ procs[pid].kind = "bundle"
                   THEN [procs EXCEPT ![pid].alive = FALSE] ELSE procs
       /\ UNCHANGED <<pidfile, server, apps, controlVars, ended>>

StackInit ==
    /\ procs = <<>> /\ leaked = {} /\ ended = {} /\ apps = {}
    /\ pidfile = [x \in Insts \X Kinds |-> 0]
    /\ server = [i \in Insts |-> 0]
=============================================================================
