------------------------------ MODULE Controld ------------------------------
(***************************************************************************)
(* vbox-controld: the daemon that owns the vbox-server instances of one    *)
(* guest user (crates/controld/src/state.rs, snapshot.rs, utils.rs).       *)
(*                                                                         *)
(* One session thread per control connection runs RPCs against the shared  *)
(* instance map.  The map is guarded by a mutex that start_instance keeps  *)
(* through its slow part (terminate the old server, spawn, 150 ms check)   *)
(* and that every other operation holds only for one atomic step.  Every   *)
(* operation that changes the map then calls flush(), which copies the map *)
(* under the mutex and writes state.bin WITHOUT it: open-truncate          *)
(* state.bin.tmp, write, rename.  The daemon can die between any two       *)
(* steps; its children survive it (setsid) and the next daemon reconciles  *)
(* state.bin with the process table.                                       *)
(*                                                                         *)
(* Abstractions.  app_pids is a set, not a vector: only membership is ever *)
(* used.  SIGTERM is not a separate step: a process may exit at any time,  *)
(* and between the SIGTERM and the SIGKILL of terminate() other threads    *)
(* and exits interleave.  Requests that fail before touching any state     *)
(* (empty argv, missing Wayland socket) and the read-only RPCs             *)
(* (PrepareDataPlane, WaitSocket) are stuttering steps here.  Log files,   *)
(* D-Bus assets, environment and certificates are left out.                *)
(***************************************************************************)
EXTENDS Naturals, FiniteSets

CONSTANTS
    Instance,   \* instance names a client may use
    Port,       \* TCP ports a client may ask for
    Pid,        \* process ids of the guest; an id is reused once it is free
    Session,    \* control-session threads
    Main,       \* the daemon's main thread, which flushes once at startup
    None,       \* "no entry", "no process", "mutex free"
    MaxReq,     \* bound: requests over the whole run
    MaxCrash,   \* bound: daemon deaths over the whole run
    DiskFaults, \* TRUE: a write of the temporary file may fail
    PidReuse    \* TRUE: unrelated processes appear and take free pids

Thread == Session \cup {Main}

\* struct Instance: `child` stands for server_child.is_some().
InstanceRec == [port: Port, server_pid: Pid, child: BOOLEAN, app_pids: SUBSET Pid]

\* struct InstanceSnapshot: what flush() writes of an entry.
InstanceSnapshot == [port: Port, server_pid: Pid, app_pids: SUBSET Pid]

ASSUME ConstantsAssumption ==
    /\ None \notin InstanceRec \cup InstanceSnapshot \cup Pid \cup Thread
    /\ Main \notin Session
    /\ MaxReq \in Nat /\ MaxCrash \in Nat
    /\ DiskFaults \in BOOLEAN /\ PidReuse \in BOOLEAN

VARIABLES
    daemon,     \* "down", "starting" (startup flush running) or "up"
    instances,  \* DaemonState.instances: [Instance -> InstanceRec or None]
    lock,       \* the thread that holds the instances mutex across steps
    pc,         \* where each thread is in the RPC it runs
    req,        \* the instance and port of the RPC a thread runs
    victim,     \* the removed entry that terminate() is working on
    child,      \* the process a start or launch has spawned, not yet recorded
    snap,       \* the map copy that a flush is writing
    fd,         \* the file the open descriptor of a flush refers to now
    proc,       \* the guest's process table
    tmp, disk,  \* state.bin.tmp and state.bin
    lost,       \* servers that ran, unrecorded in state.bin, when a daemon died
    reqs, crashes

vars == <<daemon, instances, lock, pc, req, victim, child, snap, fd, proc,
          tmp, disk, lost, reqs, crashes>>

Snapshot  == [Instance -> InstanceSnapshot \cup {None}]
NoEntries == [i \in Instance |-> None]

File     == [state: {"missing", "empty", "full"}, snap: Snapshot]
NoFile   == [state |-> "missing", snap |-> NoEntries]
CutFile  == [state |-> "empty",   snap |-> NoEntries]
Full(s)  == [state |-> "full",    snap |-> s]

Process == [st: {"free", "run", "zombie"},
            kind: {"none", "server", "app", "foreign"},
            mine: BOOLEAN]
NoProc  == [st |-> "free", kind |-> "none", mine |-> FALSE]

Request   == [inst: Instance \cup {None}, port: Port \cup {None}]
NoRequest == [inst |-> None, port |-> None]

Locked  == {"s_kill", "s_spawn", "s_check"}
Flushing == {"f_snap", "f_open", "f_write", "f_rename"}
Labels  == {"idle", "p_kill", "l_check", "l_attach"} \cup Locked \cup Flushing

TypeOK ==
    /\ daemon \in {"down", "starting", "up"}
    /\ instances \in [Instance -> InstanceRec \cup {None}]
    /\ lock \in Thread \cup {None}
    /\ pc \in [Thread -> Labels]
    /\ req \in [Thread -> Request]
    /\ victim \in [Thread -> InstanceRec \cup {None}]
    /\ child \in [Thread -> Pid \cup {None}]
    /\ snap \in [Thread -> Snapshot]
    /\ fd \in [Thread -> {"closed", "tmp", "disk", "gone"}]
    /\ proc \in [Pid -> Process]
    /\ tmp \in File /\ disk \in File
    /\ lost \in SUBSET Pid
    /\ reqs \in Nat /\ crashes \in Nat

-----------------------------------------------------------------------------
(* The process table.                                                      *)

\* kill(pid, 0) succeeds for a zombie too.
pid_alive(p) == proc[p].st # "free"

\* A process that ends stays a zombie while the daemon is its parent;
\* otherwise init reaps it at once.
Ended(r) == IF r.mine THEN [r EXCEPT !.st = "zombie"] ELSE NoProc

\* Child::try_wait / Child::wait on each of P: a zombie is reaped.
Waited(P) ==
    [p \in Pid |-> IF p \in P /\ proc[p].st = "zombie" THEN NoProc ELSE proc[p]]

\* Command::spawn of a process that is a child of this daemon.
Spawned(p, kind) == [proc EXCEPT ![p] = [st |-> "run", kind |-> kind, mine |-> TRUE]]

FreePid == {p \in Pid : proc[p].st = "free"}

-----------------------------------------------------------------------------
(* Helpers over the instance map.                                          *)

\* reap_dead_instances: try_wait with a handle, kill -0 without one.
ServerGone(r) == IF r.child THEN proc[r.server_pid].st # "run"
                            ELSE ~pid_alive(r.server_pid)
Dead == {i \in Instance : instances[i] # None /\ ServerGone(instances[i])}
\* Mutant: the dead entries with a Child handle are waited for and kept.
ReapedKeepsOwned ==
    [i \in Instance |-> IF i \in Dead /\ ~instances[i].child THEN None ELSE instances[i]]

Reaped == [i \in Instance |-> IF i \in Dead THEN None ELSE instances[i]]
ReapedProc == Waited({instances[i].server_pid : i \in {j \in Dead : instances[j].child}})

\* retain_live_app_pids over every entry.
LiveApps(m) ==
    [i \in Instance |->
        IF m[i] = None THEN None
        ELSE [m[i] EXCEPT !.app_pids = {p \in m[i].app_pids : pid_alive(p)}]]

\* port_conflict_owner.
ConflictOwners(m, i, p) == {j \in Instance \ {i} : m[j] # None /\ m[j].port = p}

\* pids_to_terminate.
Pids(r) == r.app_pids \cup {r.server_pid}

\* The part of flush() that builds the Snapshot.
SnapshotOf(m) ==
    [i \in Instance |->
        IF m[i] = None THEN None
        ELSE [port |-> m[i].port, server_pid |-> m[i].server_pid,
              app_pids |-> m[i].app_pids]]

\* decide_reconcile and the Instance that reconcile_on_startup inserts.
Recover(e) ==
    IF e = None \/ ~pid_alive(e.server_pid) THEN None
    ELSE [port |-> e.port, server_pid |-> e.server_pid, child |-> FALSE,
          app_pids |-> {p \in e.app_pids : pid_alive(p)}]

-----------------------------------------------------------------------------
(* The session threads.                                                    *)

Goto(t, l) == pc' = [pc EXCEPT ![t] = l]

files == <<snap, fd, tmp, disk>>

Accepts(s) == daemon = "up" /\ pc[s] = "idle" /\ reqs < MaxReq

\* start_instance, refused: another live instance has the port.
StartConflict(s, i, p) ==
    /\ Accepts(s) /\ lock = None
    /\ ConflictOwners(Reaped, i, p) # {}
    /\ instances' = Reaped
    /\ proc' = ReapedProc
    /\ Goto(s, IF Dead # {} THEN "f_snap" ELSE "idle")
    /\ reqs' = reqs + 1
    /\ UNCHANGED <<daemon, lock, req, victim, child, files, lost, crashes>>

\* Mutant: the mutex is dropped before the old server is terminated.
StartInstanceUnlocked(s, i, p) ==
    /\ Accepts(s) /\ lock = None
    /\ ConflictOwners(Reaped, i, p) = {}
    /\ instances' = [Reaped EXCEPT ![i] = None]
    /\ proc' = ReapedProc
    /\ req' = [req EXCEPT ![s] = [inst |-> i, port |-> p]]
    /\ victim' = [victim EXCEPT ![s] = Reaped[i]]
    /\ Goto(s, IF Reaped[i] = None THEN "s_spawn" ELSE "s_kill")
    /\ reqs' = reqs + 1
    /\ UNCHANGED <<daemon, lock, child, files, lost, crashes>>

\* Mutant: the old entry is overwritten without terminate(existing).
StartInstanceNoKill(s, i, p) ==
    /\ Accepts(s) /\ lock = None
    /\ ConflictOwners(Reaped, i, p) = {}
    /\ instances' = [Reaped EXCEPT ![i] = None]
    /\ proc' = ReapedProc
    /\ lock' = s
    /\ req' = [req EXCEPT ![s] = [inst |-> i, port |-> p]]
    /\ Goto(s, "s_spawn")
    /\ reqs' = reqs + 1
    /\ UNCHANGED <<daemon, victim, child, files, lost, crashes>>

\* start_instance up to terminate(existing); the mutex guard stays alive.
StartInstance(s, i, p) ==
    /\ Accepts(s) /\ lock = None
    /\ ConflictOwners(Reaped, i, p) = {}
    /\ instances' = [Reaped EXCEPT ![i] = None]
    /\ proc' = ReapedProc
    /\ lock' = s
    /\ req' = [req EXCEPT ![s] = [inst |-> i, port |-> p]]
    /\ victim' = [victim EXCEPT ![s] = Reaped[i]]
    /\ Goto(s, IF Reaped[i] = None THEN "s_spawn" ELSE "s_kill")
    /\ reqs' = reqs + 1
    /\ UNCHANGED <<daemon, child, files, lost, crashes>>

\* terminate(): by its end every pid of the entry has been signalled, and
\* the server is waited for when the daemon holds its handle.
KillVictim(s) ==
    /\ pc[s] \in {"s_kill", "p_kill"}
    /\ LET r == victim[s]
           killed == [p \in Pid |-> IF p \in Pids(r) /\ pid_alive(p)
                                    THEN Ended(proc[p]) ELSE proc[p]]
           after == [p \in Pid |-> IF r.child /\ p = r.server_pid
                                   THEN NoProc ELSE killed[p]]
       IN /\ proc' = after
          /\ lost' = {p \in lost : after[p].st = "run"}
    /\ victim' = [victim EXCEPT ![s] = None]
    /\ Goto(s, IF pc[s] = "s_kill" THEN "s_spawn" ELSE "f_snap")
    /\ UNCHANGED <<daemon, instances, lock, req, child, files, reqs, crashes>>

\* The error returns of start_instance before or at spawn(): the mutex is
\* released and nothing is flushed.
SpawnFail(s) ==
    /\ pc[s] = "s_spawn"
    /\ lock' = None
    /\ req' = [req EXCEPT ![s] = NoRequest]
    /\ Goto(s, "idle")
    /\ UNCHANGED <<daemon, instances, victim, child, files, proc, lost, reqs, crashes>>

SpawnServer(s) ==
    /\ pc[s] = "s_spawn"
    /\ \E p \in FreePid :
          /\ proc' = Spawned(p, "server")
          /\ child' = [child EXCEPT ![s] = p]
    /\ Goto(s, "s_check")
    /\ UNCHANGED <<daemon, instances, lock, req, victim, files, lost, reqs, crashes>>

\* Mutant: flush() is called with the mutex guard still alive.
StartCheckLocked(s) ==
    /\ pc[s] = "s_check"
    /\ LET p == child[s]
           up == proc[p].st = "run"
       IN /\ proc' = Waited({p})
          /\ instances' =
                IF up THEN [instances EXCEPT ![req[s].inst] =
                              [port |-> req[s].port, server_pid |-> p,
                               child |-> TRUE, app_pids |-> {}]]
                      ELSE instances
          /\ Goto(s, IF up THEN "f_snap" ELSE "idle")
          /\ lock' = IF up THEN lock ELSE None
    /\ child' = [child EXCEPT ![s] = None]
    /\ req' = [req EXCEPT ![s] = NoRequest]
    /\ UNCHANGED <<daemon, victim, files, lost, reqs, crashes>>

\* After 150 ms: a server that already exited fails the request (try_wait
\* reaps it, nothing is flushed); a live one is recorded.
StartCheck(s) ==
    /\ pc[s] = "s_check"
    /\ LET p == child[s]
           up == proc[p].st = "run"
       IN /\ proc' = Waited({p})
          /\ instances' =
                IF up THEN [instances EXCEPT ![req[s].inst] =
                              [port |-> req[s].port, server_pid |-> p,
                               child |-> TRUE, app_pids |-> {}]]
                      ELSE instances
          /\ Goto(s, IF up THEN "f_snap" ELSE "idle")
    /\ lock' = None
    /\ child' = [child EXCEPT ![s] = None]
    /\ req' = [req EXCEPT ![s] = NoRequest]
    /\ UNCHANGED <<daemon, victim, files, lost, reqs, crashes>>

\* stop_instance of a known instance; terminate() runs without the mutex.
StopInstance(s, i) ==
    /\ Accepts(s) /\ lock = None
    /\ instances[i] # None
    /\ instances' = [instances EXCEPT ![i] = None]
    /\ victim' = [victim EXCEPT ![s] = instances[i]]
    /\ Goto(s, "p_kill")
    /\ reqs' = reqs + 1
    /\ UNCHANGED <<daemon, lock, req, child, files, proc, lost, crashes>>

\* launch_app up to spawn(): the instance map is not consulted.
LaunchApp(s, i) ==
    /\ Accepts(s)
    /\ \E p \in FreePid :
          /\ proc' = Spawned(p, "app")
          /\ child' = [child EXCEPT ![s] = p]
    /\ req' = [req EXCEPT ![s] = [inst |-> i, port |-> None]]
    /\ Goto(s, "l_check")
    /\ reqs' = reqs + 1
    /\ UNCHANGED <<daemon, instances, lock, victim, files, lost, crashes>>

\* The two wait phases: an app that exits in them is reaped and refused.
LaunchCheck(s) ==
    /\ pc[s] = "l_check"
    /\ LET up == proc[child[s]].st = "run"
       IN /\ Goto(s, IF up THEN "l_attach" ELSE "idle")
          /\ child' = IF up THEN child ELSE [child EXCEPT ![s] = None]
          /\ req' = IF up THEN req ELSE [req EXCEPT ![s] = NoRequest]
    /\ proc' = Waited({child[s]})
    /\ UNCHANGED <<daemon, instances, lock, victim, files, lost, reqs, crashes>>

\* Mutant: the app is recorded in memory only.
AttachNoFlush(s) ==
    /\ pc[s] = "l_attach" /\ lock = None
    /\ LET i == req[s].inst
       IN instances' = IF instances[i] = None THEN instances
                       ELSE [instances EXCEPT ![i].app_pids = @ \cup {child[s]}]
    /\ child' = [child EXCEPT ![s] = None]
    /\ req' = [req EXCEPT ![s] = NoRequest]
    /\ Goto(s, "idle")
    /\ UNCHANGED <<daemon, lock, victim, files, proc, lost, reqs, crashes>>

\* Mutant: the pid is recorded without looking whether the instance is there.
AttachUnchecked(s) ==
    /\ pc[s] = "l_attach" /\ lock = None
    /\ instances' = [instances EXCEPT ![req[s].inst] = [child |-> FALSE,
                                                        app_pids |-> {child[s]}]]
    /\ child' = [child EXCEPT ![s] = None]
    /\ req' = [req EXCEPT ![s] = NoRequest]
    /\ Goto(s, "f_snap")
    /\ UNCHANGED <<daemon, lock, victim, files, proc, lost, reqs, crashes>>

\* The pid is recorded if the instance is still (or again) there; the Child
\* handle is forgotten, so nobody ever waits for the app.
Attach(s) ==
    /\ pc[s] = "l_attach" /\ lock = None
    /\ LET i == req[s].inst
       IN instances' = IF instances[i] = None THEN instances
                       ELSE [instances EXCEPT ![i].app_pids = @ \cup {child[s]}]
    /\ child' = [child EXCEPT ![s] = None]
    /\ req' = [req EXCEPT ![s] = NoRequest]
    /\ Goto(s, "f_snap")
    /\ UNCHANGED <<daemon, lock, victim, files, proc, lost, reqs, crashes>>

\* summaries(), the Status RPC.
Status(s) ==
    /\ Accepts(s) /\ lock = None
    /\ proc' = ReapedProc
    /\ instances' = LiveApps(Reaped)
    /\ Goto(s, IF instances' # instances THEN "f_snap" ELSE "idle")
    /\ reqs' = reqs + 1
    /\ UNCHANGED <<daemon, lock, req, victim, child, files, lost, crashes>>

-----------------------------------------------------------------------------
(* flush().                                                                *)

\* The end of a flush; the startup flush ends DaemonState::new.
FlushDone(t) ==
    /\ Goto(t, "idle")
    /\ daemon' = IF t = Main THEN "up" ELSE daemon

FlushSnap(t) ==
    /\ pc[t] = "f_snap" /\ lock = None
    /\ snap' = [snap EXCEPT ![t] = SnapshotOf(instances)]
    /\ Goto(t, "f_open")
    /\ UNCHANGED <<daemon, instances, lock, req, victim, child, fd, proc, tmp, disk,
                   lost, reqs, crashes>>

\* Mutant: state.bin itself is opened and truncated.
FlushOpenInPlace(t) ==
    /\ pc[t] = "f_open"
    /\ disk' = CutFile
    /\ fd' = [fd EXCEPT ![t] = "disk"]
    /\ Goto(t, "f_write")
    /\ UNCHANGED <<daemon, instances, lock, req, victim, child, snap, proc, tmp,
                   lost, reqs, crashes>>

\* fs::write opens state.bin.tmp with O_CREAT|O_TRUNC ...
FlushOpen(t) ==
    /\ pc[t] = "f_open"
    /\ tmp' = CutFile
    /\ fd' = [fd EXCEPT ![t] = "tmp"]
    /\ Goto(t, "f_write")
    /\ UNCHANGED <<daemon, instances, lock, req, victim, child, snap, proc, disk,
                   lost, reqs, crashes>>

\* ... and writes through the descriptor, wherever its file has been renamed to.
FlushWrite(t) ==
    /\ pc[t] = "f_write"
    /\ tmp' = IF fd[t] = "tmp" THEN Full(snap[t]) ELSE tmp
    /\ disk' = IF fd[t] = "disk" THEN Full(snap[t]) ELSE disk
    /\ fd' = [fd EXCEPT ![t] = "closed"]
    /\ Goto(t, "f_rename")
    /\ UNCHANGED <<daemon, instances, lock, req, victim, child, snap, proc,
                   lost, reqs, crashes>>

\* fs::rename; without a state.bin.tmp it fails and callers ignore the error.
FlushRename(t) ==
    /\ pc[t] = "f_rename"
    /\ IF tmp.state = "missing"
       THEN UNCHANGED <<tmp, disk, fd>>
       ELSE /\ disk' = tmp
            /\ tmp' = NoFile
            /\ fd' = [u \in Thread |-> CASE fd[u] = "disk" -> "gone"
                                         [] fd[u] = "tmp"  -> "disk"
                                         [] OTHER          -> fd[u]]
    /\ snap' = [snap EXCEPT ![t] = NoEntries]
    /\ FlushDone(t)
    /\ UNCHANGED <<instances, lock, req, victim, child, proc, lost, reqs, crashes>>

\* fs::write fails (disk full, I/O error); the error is ignored.
FlushFail(t) ==
    /\ DiskFaults /\ pc[t] \in {"f_open", "f_write"}
    /\ fd' = [fd EXCEPT ![t] = "closed"]
    /\ snap' = [snap EXCEPT ![t] = NoEntries]
    /\ FlushDone(t)
    /\ UNCHANGED <<instances, lock, req, victim, child, proc, tmp, disk,
                   lost, reqs, crashes>>

-----------------------------------------------------------------------------
(* The daemon's death and restart, and the rest of the guest.              *)

Recorded == {disk.snap[i].server_pid : i \in {j \in Instance : disk.snap[j] # None}}

\* The daemon dies (crash, SIGTERM from systemd, upgrade).  Its children live
\* on under init, which reaps those that had ended.
Crash ==
    /\ daemon # "down" /\ crashes < MaxCrash
    /\ LET left == [p \in Pid |-> IF proc[p].st = "zombie" THEN NoProc
                                  ELSE [proc[p] EXCEPT !.mine = FALSE]]
       IN /\ proc' = left
          /\ lost' = {p \in Pid : /\ left[p].st = "run" /\ left[p].kind = "server"
                                  /\ p \notin Recorded}
    /\ daemon' = "down"
    /\ instances' = NoEntries
    /\ lock' = None
    /\ pc' = [t \in Thread |-> "idle"]
    /\ req' = [t \in Thread |-> NoRequest]
    /\ victim' = [t \in Thread |-> None]
    /\ child' = [t \in Thread |-> None]
    /\ snap' = [t \in Thread |-> NoEntries]
    /\ fd' = [t \in Thread |-> "closed"]
    /\ crashes' = crashes + 1
    /\ UNCHANGED <<tmp, disk, reqs>>

\* DaemonState::new: load_snapshot, and reconcile_on_startup up to its flush.
Restart ==
    /\ daemon = "down"
    /\ IF disk.state = "full"
       THEN /\ instances' = [i \in Instance |-> Recover(disk.snap[i])]
            /\ daemon' = "starting"
            /\ Goto(Main, "f_snap")
       ELSE /\ daemon' = "up"
            /\ UNCHANGED <<instances, pc>>
    /\ UNCHANGED <<lock, req, victim, child, files, proc, lost, reqs, crashes>>

\* A server, an app or any other process ends.
ProcExit(p) ==
    /\ proc[p].st = "run"
    /\ proc' = [proc EXCEPT ![p] = Ended(proc[p])]
    /\ lost' = lost \ {p}
    /\ UNCHANGED <<daemon, instances, lock, pc, req, victim, child, files, reqs, crashes>>

\* An unrelated process of the user gets a free pid.
ForeignSpawn(p) ==
    /\ PidReuse /\ p \in FreePid
    /\ proc' = [proc EXCEPT ![p] = [st |-> "run", kind |-> "foreign", mine |-> FALSE]]
    /\ UNCHANGED <<daemon, instances, lock, pc, req, victim, child, files, lost,
                   reqs, crashes>>

Init ==
    /\ daemon = "down"
    /\ instances = NoEntries
    /\ lock = None
    /\ pc = [t \in Thread |-> "idle"]
    /\ req = [t \in Thread |-> NoRequest]
    /\ victim = [t \in Thread |-> None]
    /\ child = [t \in Thread |-> None]
    /\ snap = [t \in Thread |-> NoEntries]
    /\ fd = [t \in Thread |-> "closed"]
    /\ proc = [p \in Pid |-> NoProc]
    /\ tmp = NoFile /\ disk = NoFile
    /\ lost = {}
    /\ reqs = 0 /\ crashes = 0

\* The steps of a request that is under way.
SessionStep(s) ==
    \/ KillVictim(s) \/ SpawnFail(s) \/ SpawnServer(s) \/ StartCheck(s)
    \/ LaunchCheck(s) \/ Attach(s)

FlushStep(t) ==
    \/ FlushSnap(t) \/ FlushOpen(t) \/ FlushWrite(t) \/ FlushRename(t) \/ FlushFail(t)

Arrival(s) ==
    \/ \E i \in Instance, p \in Port : StartConflict(s, i, p) \/ StartInstance(s, i, p)
    \/ \E i \in Instance : StopInstance(s, i) \/ LaunchApp(s, i)
    \/ Status(s)

Next ==
    \/ \E s \in Session : Arrival(s) \/ SessionStep(s)
    \/ \E t \in Thread : FlushStep(t)
    \/ Crash \/ Restart
    \/ \E p \in Pid : ProcExit(p) \/ ForeignSpawn(p)

Spec == Init /\ [][Next]_vars

\* Threads make progress while the daemon lives, and systemd restarts a
\* daemon that died (Restart=always).  Nothing is assumed about requests,
\* process exits or crashes.
Fairness ==
    /\ \A s \in Session : WF_vars(SessionStep(s))
    /\ \A t \in Thread : WF_vars(FlushStep(t))
    /\ WF_vars(Restart)

FairSpec == Spec /\ Fairness

-----------------------------------------------------------------------------
(* Properties.                                                             *)

DistinctPorts(m) ==
    \A i, j \in Instance :
        m[i] # None /\ m[j] # None /\ m[i].port = m[j].port => i = j

\* port_conflict_owner's purpose: no two recorded instances share a TCP port,
\* with starts racing each other, servers dying under the daemon, and after
\* every restart from a snapshot that may be stale.
PortsDistinct == DistinctPorts(instances)

\* The daemon never loses a running vbox-server by itself ("a systemd-managed
\* daemon restart would orphan every vbox-server"): a running server is
\* recorded in the map, is being started or terminated by some thread, waits
\* in state.bin for the next daemon, or was unrecorded there when a daemon
\* died.
NoOrphanServer ==
    \A p \in Pid :
        proc[p].st = "run" /\ proc[p].kind = "server" =>
            \/ \E i \in Instance : instances[i] # None /\ instances[i].server_pid = p
            \/ \E t \in Thread : child[t] = p
            \/ \E t \in Thread : victim[t] # None /\ victim[t].server_pid = p
            \/ daemon = "down" /\ p \in Recorded
            \/ p \in lost

\* An entry whose Child handle the daemon holds.
Pinned(r) ==
    /\ proc[r.server_pid].st # "free" /\ proc[r.server_pid].kind = "server"
    /\ proc[r.server_pid].mine
    /\ \A p \in r.app_pids : proc[p].st # "free" /\ proc[p].kind = "app" /\ proc[p].mine

\* terminate() signals by pid.  For an instance this daemon started, those
\* pids cannot have been reused by another process: the server is waited for
\* only when its entry goes, and the apps never are, so the kernel keeps their
\* pids however long the entry, or a terminate() under way, holds them.
OwnedPidsPinned ==
    /\ \A i \in Instance : instances[i] # None /\ instances[i].child => Pinned(instances[i])
    /\ \A t \in Thread : victim[t] # None /\ victim[t].child => Pinned(victim[t])

\* "an interrupted write doesn't leave a torn state.bin": the file a dead
\* daemon leaves behind is absent or a whole snapshot.
NoTornState == daemon = "down" => disk.state # "empty"

\* "every state-changing operation flushes a snapshot": between requests every
\* recorded instance is in state.bin exactly as it is in memory, so a restart
\* finds it.
TrackedIsDurable ==
    daemon = "up" /\ (\A t \in Thread : pc[t] = "idle") =>
        \A i \in Instance :
            instances[i] # None => SnapshotOf(instances)[i] = disk.snap[i]

\* "the single source of truth for what vbox-server processes are running
\* [...] with which guest apps attached": a running app that this daemon
\* launched is in some instance, or still being launched or terminated.
AppsTracked ==
    \A p \in Pid :
        proc[p].st = "run" /\ proc[p].kind = "app" /\ proc[p].mine =>
            \/ \E i \in Instance : instances[i] # None /\ p \in instances[i].app_pids
            \/ \E t \in Thread : child[t] = p
            \/ \E t \in Thread : victim[t] # None /\ p \in victim[t].app_pids

\* Every request ends, whatever the other threads do: no thread waits for the
\* instances mutex for ever, its own flush() after a start included.
RequestsFinish == \A t \in Thread : pc[t] # "idle" ~> pc[t] = "idle"

=============================================================================
