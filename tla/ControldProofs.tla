--------------------------- MODULE ControldProofs ---------------------------
(***************************************************************************)
(* The safety invariants of Controld, for every set of instances, ports,   *)
(* pids and sessions, any number of requests and crashes: its types, the   *)
(* ports, the pids of the processes it started, the running servers, and   *)
(* the state file as long as one session is served at a time.              *)
(*                                                                         *)
(* PortsDistinct is not inductive: a start inserts its entry three steps   *)
(* after it looked for a conflict, and a restart takes its entries from a  *)
(* file.  IndInv adds what keeps the check valid until the insertion (the  *)
(* thread between the two holds the mutex, and nobody else can insert) and *)
(* that every copy of the map a restart can load came from a good map.     *)
(* Each later part strengthens IndInv with what its own invariant needs.   *)
(***************************************************************************)
EXTENDS Controld, TLAPS

Map == [Instance -> InstanceRec \cup {None}]

\* The mutex is held across steps exactly by a thread inside start_instance.
LockHeld == \A t \in Thread : pc[t] \in Locked <=> lock = t

\* Threads exist only while the daemon does.
DownIsIdle == daemon = "down" => \A t \in Thread : pc[t] = "idle"

\* What a thread needs of its locals at each label.
LocalsSet ==
    \A t \in Thread :
        /\ pc[t] \in Locked => req[t].inst \in Instance /\ req[t].port \in Port
        /\ pc[t] \in {"s_check", "l_check", "l_attach"} => child[t] \in Pid
        /\ pc[t] \in {"l_check", "l_attach"} => req[t].inst \in Instance

\* The port a start checked is still free of other instances.
PortReserved ==
    \A t \in Thread : pc[t] \in Locked =>
        \A j \in Instance :
            j # req[t].inst /\ instances[j] # None => instances[j].port # req[t].port

\* Every copy of the map that a restart can come to load.
CopiesDistinct ==
    /\ \A t \in Thread : DistinctPorts(snap[t])
    /\ DistinctPorts(tmp.snap)
    /\ DistinctPorts(disk.snap)

IndInv ==
    /\ TypeOK
    /\ LockHeld
    /\ DownIsIdle
    /\ LocalsSet
    /\ PortReserved
    /\ PortsDistinct
    /\ CopiesDistinct

-----------------------------------------------------------------------------
(* The operators.                                                          *)

\* "None" is not a record of either kind, so building a record from an entry
\* keeps the two apart.
LEMMA NoneIsNoRecord ==
    /\ None \notin InstanceRec
    /\ None \notin InstanceSnapshot
    /\ None \notin Pid
    /\ None \notin Thread
  BY ConstantsAssumption

\* The process-table updates keep the type of the table.
LEMMA ProcessTypes ==
    ASSUME TypeOK
    PROVE  /\ \A p \in Pid : Ended(proc[p]) \in Process
           /\ NoProc \in Process
           /\ \A P : Waited(P) \in [Pid -> Process]
           /\ \A p \in Pid : Spawned(p, "server") \in [Pid -> Process]
           /\ \A p \in Pid : Spawned(p, "app") \in [Pid -> Process]
  <1>1. \A p \in Pid : proc[p] \in Process
    BY DEF TypeOK
  <1>2. NoProc \in Process
    BY DEF NoProc, Process
  <1>3. \A p \in Pid : Ended(proc[p]) \in Process
    BY <1>1, <1>2 DEF Ended, Process
  <1>4. \A P : Waited(P) \in [Pid -> Process]
    BY <1>1, <1>2 DEF Waited
  <1>5. \A p \in Pid : Spawned(p, "server") \in [Pid -> Process]
    BY DEF Spawned, TypeOK, Process
  <1>6. \A p \in Pid : Spawned(p, "app") \in [Pid -> Process]
    BY DEF Spawned, TypeOK, Process
  <1> QED
    BY <1>2, <1>3, <1>4, <1>5, <1>6

\* reap_dead_instances and retain_live_app_pids return maps whose entries keep
\* their port, and add none.
LEMMA ReapTypes ==
    ASSUME TypeOK
    PROVE  /\ Reaped \in Map
           /\ LiveApps(Reaped) \in Map
           /\ ReapedProc \in [Pid -> Process]
           /\ \A i \in Instance : Reaped[i] = None \/ Reaped[i] = instances[i]
           /\ \A i \in Instance :
                 LiveApps(Reaped)[i] # None =>
                    instances[i] # None /\ LiveApps(Reaped)[i].port = instances[i].port
  <1>1. /\ Reaped \in Map
        /\ \A i \in Instance : Reaped[i] = None \/ Reaped[i] = instances[i]
    BY DEF Reaped, Map, TypeOK
  <1>2. ReapedProc \in [Pid -> Process]
    BY ProcessTypes DEF ReapedProc
  <1>3. ASSUME NEW i \in Instance, Reaped[i] # None
        PROVE  /\ [Reaped[i] EXCEPT !.app_pids = {p \in Reaped[i].app_pids : pid_alive(p)}]
                    \in InstanceRec
               /\ [Reaped[i] EXCEPT !.app_pids = {p \in Reaped[i].app_pids : pid_alive(p)}].port
                    = Reaped[i].port
    <2>1. Reaped[i] \in InstanceRec
      BY <1>1, <1>3 DEF Map
    <2> QED
      BY <2>1 DEF InstanceRec
  <1>4. LiveApps(Reaped) \in Map
    BY <1>3 DEF LiveApps, Map
  <1>5. \A i \in Instance :
           LiveApps(Reaped)[i] # None =>
              instances[i] # None /\ LiveApps(Reaped)[i].port = instances[i].port
    BY <1>1, <1>3 DEF LiveApps
  <1> QED
    BY <1>1, <1>2, <1>4, <1>5

\* The snapshot of a map has the map's ports.
LEMMA SnapshotFacts ==
    ASSUME NEW m \in Map
    PROVE  /\ SnapshotOf(m) \in Snapshot
           /\ DistinctPorts(m) => DistinctPorts(SnapshotOf(m))
  <1>1. ASSUME NEW i \in Instance, m[i] # None
        PROVE  /\ SnapshotOf(m)[i] \in InstanceSnapshot
               /\ SnapshotOf(m)[i].port = m[i].port
    <2>1. m[i] \in InstanceRec
      BY <1>1 DEF Map
    <2> QED
      BY <1>1, <2>1 DEF SnapshotOf, InstanceRec, InstanceSnapshot
  <1>2. \A i \in Instance : m[i] = None => SnapshotOf(m)[i] = None
    BY DEF SnapshotOf
  <1>3. SnapshotOf(m) \in Snapshot
    <2>1. \A i \in Instance : SnapshotOf(m)[i] \in InstanceSnapshot \cup {None}
      BY <1>1, <1>2
    <2>2. SnapshotOf(m) = [i \in Instance |-> SnapshotOf(m)[i]]
      BY DEF SnapshotOf
    <2> QED
      BY <2>1, <2>2 DEF Snapshot
  <1>4. ASSUME DistinctPorts(m) PROVE DistinctPorts(SnapshotOf(m))
    BY <1>1, <1>2, <1>4 DEF DistinctPorts
  <1> QED
    BY <1>3, <1>4

\* Reconciliation keeps the port of what it recovers, and adds no entry.
LEMMA RecoverFacts ==
    ASSUME TypeOK, NEW s \in Snapshot
    PROVE  /\ [i \in Instance |-> Recover(s[i])] \in Map
           /\ DistinctPorts(s) => DistinctPorts([i \in Instance |-> Recover(s[i])])
  <1>1. ASSUME NEW i \in Instance, Recover(s[i]) # None
        PROVE  /\ s[i] # None
               /\ Recover(s[i]) \in InstanceRec
               /\ Recover(s[i]).port = s[i].port
    <2>1. s[i] # None
      BY <1>1 DEF Recover
    <2>2. s[i] \in InstanceSnapshot
      BY <2>1 DEF Snapshot
    <2> QED
      BY <1>1, <2>1, <2>2 DEF Recover, InstanceSnapshot, InstanceRec
  <1>2. [i \in Instance |-> Recover(s[i])] \in Map
    BY <1>1 DEF Map
  <1>3. ASSUME DistinctPorts(s)
        PROVE  DistinctPorts([i \in Instance |-> Recover(s[i])])
    BY <1>1, <1>3 DEF DistinctPorts
  <1> QED
    BY <1>2, <1>3

\* No entry at all: trivially distinct.
LEMMA EmptyFacts ==
    /\ NoEntries \in Map
    /\ NoEntries \in Snapshot
    /\ DistinctPorts(NoEntries)
    /\ NoFile \in File /\ DistinctPorts(NoFile.snap)
    /\ CutFile \in File /\ DistinctPorts(CutFile.snap)
    /\ NoRequest \in Request
  <1>1. /\ NoEntries \in Map /\ NoEntries \in Snapshot
        /\ DistinctPorts(NoEntries)
    BY DEF NoEntries, Map, Snapshot, DistinctPorts
  <1>2. NoFile \in File /\ CutFile \in File
    BY <1>1 DEF NoFile, CutFile, File
  <1>3. NoFile.snap = NoEntries /\ CutFile.snap = NoEntries
    BY DEF NoFile, CutFile
  <1>4. NoRequest \in Request
    BY DEF NoRequest, Request
  <1> QED
    BY <1>1, <1>2, <1>3, <1>4

-----------------------------------------------------------------------------
(* Type correctness.                                                       *)

\* Every step of the daemon, of the process table and of the file system keeps
\* the type of every variable, given that each thread's locals are set when a
\* label that reads them is reached.
LEMMA TypeStep ==
    ASSUME TypeOK, LocalsSet, Next
    PROVE  TypeOK'
  <1>1. ASSUME NEW s \in Session, NEW i \in Instance, NEW p \in Port, StartConflict(s, i, p)
        PROVE  TypeOK'
    BY <1>1, ReapTypes
       DEF StartConflict, TypeOK, Map, Thread, Accepts, Goto, files, Labels, Locked,
           Flushing
  <1>2. ASSUME NEW s \in Session, NEW i \in Instance, NEW p \in Port, StartInstance(s, i, p)
        PROVE  TypeOK'
    BY <1>2, ReapTypes
       DEF StartInstance, TypeOK, Map, Request, Thread, Accepts, Goto, files, Labels,
           Locked, Flushing
  <1>3. ASSUME NEW s \in Session, NEW i \in Instance, StopInstance(s, i)
        PROVE  TypeOK'
    BY <1>3
       DEF StopInstance, TypeOK, Thread, Accepts, Goto, files, Labels, Locked, Flushing
  <1>4. ASSUME NEW s \in Session, NEW i \in Instance, LaunchApp(s, i)
        PROVE  TypeOK'
    BY <1>4, ProcessTypes
       DEF LaunchApp, TypeOK, Request, FreePid, Thread, Accepts, Goto, files, Labels,
           Locked, Flushing
  <1>5. ASSUME NEW s \in Session, Status(s)
        PROVE  TypeOK'
    BY <1>5, ReapTypes
       DEF Status, TypeOK, Map, Thread, Accepts, Goto, files, Labels, Locked, Flushing
  <1>6. ASSUME NEW s \in Session, KillVictim(s)
        PROVE  TypeOK'
    BY <1>6, ProcessTypes
       DEF KillVictim, TypeOK, Thread, Accepts, Goto, files, Labels, Locked, Flushing
  <1>7. ASSUME NEW s \in Session, SpawnFail(s)
        PROVE  TypeOK'
    BY <1>7, EmptyFacts
       DEF SpawnFail, TypeOK, Thread, Accepts, Goto, files, Labels, Locked, Flushing
  <1>8. ASSUME NEW s \in Session, SpawnServer(s)
        PROVE  TypeOK'
    BY <1>8, ProcessTypes
       DEF SpawnServer, TypeOK, FreePid, Thread, Accepts, Goto, files, Labels, Locked,
           Flushing
  <1>9. ASSUME NEW s \in Session, StartCheck(s)
        PROVE  TypeOK'
    BY <1>9, ProcessTypes, EmptyFacts
       DEF StartCheck, TypeOK, LocalsSet, InstanceRec, Thread, Accepts, Goto, files,
           Labels, Locked, Flushing
  <1>10. ASSUME NEW s \in Session, LaunchCheck(s)
        PROVE  TypeOK'
    BY <1>10, ProcessTypes, EmptyFacts
       DEF LaunchCheck, TypeOK, LocalsSet, Thread, Accepts, Goto, files, Labels, Locked,
           Flushing
  <1>11. ASSUME NEW s \in Session, Attach(s)
        PROVE  TypeOK'
    BY <1>11, EmptyFacts
       DEF Attach, TypeOK, LocalsSet, InstanceRec, Thread, Accepts, Goto, files, Labels,
           Locked, Flushing
  <1>12. ASSUME NEW t \in Thread, FlushSnap(t)
        PROVE  TypeOK'
    BY <1>12, SnapshotFacts
       DEF FlushSnap, TypeOK, Map, Thread, Accepts, Goto, files, Labels, Locked, Flushing
  <1>13. ASSUME NEW t \in Thread, FlushOpen(t)
        PROVE  TypeOK'
    BY <1>13, EmptyFacts
       DEF FlushOpen, TypeOK, Thread, Accepts, Goto, files, Labels, Locked, Flushing
  <1>14. ASSUME NEW t \in Thread, FlushWrite(t)
        PROVE  TypeOK'
    BY <1>14
       DEF FlushWrite, TypeOK, Full, File, Thread, Accepts, Goto, files, Labels, Locked,
           Flushing
  <1>15. ASSUME NEW t \in Thread, FlushRename(t)
        PROVE  TypeOK'
    BY <1>15, EmptyFacts
       DEF FlushRename, TypeOK, FlushDone, Thread, Accepts, Goto, files, Labels, Locked,
           Flushing
  <1>16. ASSUME NEW t \in Thread, FlushFail(t)
        PROVE  TypeOK'
    BY <1>16, EmptyFacts
       DEF FlushFail, TypeOK, FlushDone, Thread, Accepts, Goto, files, Labels, Locked,
           Flushing
  <1>17. ASSUME Crash
        PROVE  TypeOK'
    <2> DEFINE left == [p \in Pid |-> IF proc[p].st = "zombie" THEN NoProc
                                      ELSE [proc[p] EXCEPT !.mine = FALSE]]
    <2>1. \A p \in Pid : [proc[p] EXCEPT !.mine = FALSE] \in Process
      BY DEF TypeOK, Process
    <2>2. left \in [Pid -> Process]
      BY <2>1, ProcessTypes
    <2>3. proc' = left /\ lost' \in SUBSET Pid
      BY <1>17 DEF Crash
    <2>4. /\ proc' \in [Pid -> Process] /\ lost' \in SUBSET Pid
          /\ instances' \in Map
          /\ \A t \in Thread : snap'[t] \in Snapshot /\ req'[t] \in Request
      BY <1>17, <2>2, <2>3, EmptyFacts DEF Crash
    <2>5. /\ pc' = [t \in Thread |-> "idle"] /\ req' = [t \in Thread |-> NoRequest]
          /\ victim' = [t \in Thread |-> None] /\ child' = [t \in Thread |-> None]
          /\ snap' = [t \in Thread |-> NoEntries] /\ fd' = [t \in Thread |-> "closed"]
          /\ daemon' = "down" /\ lock' = None /\ crashes' = crashes + 1
          /\ UNCHANGED <<tmp, disk, reqs>>
      BY <1>17 DEF Crash
    <2> HIDE DEF left
    <2> QED
      BY <2>4, <2>5, EmptyFacts DEF TypeOK, Map, Labels
  <1>18. ASSUME Restart
        PROVE  TypeOK'
    BY <1>18, RecoverFacts
       DEF Restart, TypeOK, Map, File, Thread, Accepts, Goto, files, Labels, Locked,
           Flushing
  <1>19. ASSUME NEW p \in Pid, ProcExit(p)
        PROVE  TypeOK'
    BY <1>19, ProcessTypes
       DEF ProcExit, TypeOK, Thread, Accepts, Goto, files, Labels, Locked, Flushing
  <1>20. ASSUME NEW p \in Pid, ForeignSpawn(p)
        PROVE  TypeOK'
    BY <1>20
       DEF ForeignSpawn, TypeOK, Process, FreePid, Thread, Accepts, Goto, files, Labels,
           Locked, Flushing
  <1> QED
    BY <1>1, <1>2, <1>3, <1>4, <1>5, <1>6, <1>7, <1>8, <1>9, <1>10, <1>11, <1>12, <1>13,
       <1>14, <1>15, <1>16, <1>17, <1>18, <1>19, <1>20
       DEF Next, Arrival, SessionStep, FlushStep

-----------------------------------------------------------------------------
(* The mutex and the locals.                                               *)

\* The mutex discipline: taken at StartInstance, released at every exit of
\* start_instance, and no other thread is inside it meanwhile; each label is
\* reached with its locals set.
LEMMA ControlStep ==
    ASSUME TypeOK, LockHeld, DownIsIdle, LocalsSet, Next
    PROVE  LockHeld' /\ DownIsIdle' /\ LocalsSet'
  <1>1. ASSUME NEW s \in Session, NEW i \in Instance, NEW p \in Port, StartConflict(s, i, p)
        PROVE  LockHeld' /\ DownIsIdle' /\ LocalsSet'
    BY <1>1, ConstantsAssumption
       DEF StartConflict, TypeOK, LockHeld, DownIsIdle, LocalsSet, Accepts, Goto, files,
           Thread, Locked
  <1>2. ASSUME NEW s \in Session, NEW i \in Instance, NEW p \in Port, StartInstance(s, i, p)
        PROVE  LockHeld' /\ DownIsIdle' /\ LocalsSet'
    BY <1>2, ConstantsAssumption
       DEF StartInstance, TypeOK, LockHeld, DownIsIdle, LocalsSet, Accepts, Goto, files,
           Thread, Locked
  <1>3. ASSUME NEW s \in Session, NEW i \in Instance, StopInstance(s, i)
        PROVE  LockHeld' /\ DownIsIdle' /\ LocalsSet'
    BY <1>3, ConstantsAssumption
       DEF StopInstance, TypeOK, LockHeld, DownIsIdle, LocalsSet, Accepts, Goto, files,
           Thread, Locked
  <1>4. ASSUME NEW s \in Session, NEW i \in Instance, LaunchApp(s, i)
        PROVE  LockHeld' /\ DownIsIdle' /\ LocalsSet'
    BY <1>4, ConstantsAssumption
       DEF LaunchApp, TypeOK, LockHeld, DownIsIdle, LocalsSet, FreePid, Accepts, Goto,
           files, Thread, Locked
  <1>5. ASSUME NEW s \in Session, Status(s)
        PROVE  LockHeld' /\ DownIsIdle' /\ LocalsSet'
    BY <1>5, ConstantsAssumption
       DEF Status, TypeOK, LockHeld, DownIsIdle, LocalsSet, Accepts, Goto, files,
           Thread, Locked
  <1>6. ASSUME NEW s \in Session, KillVictim(s)
        PROVE  LockHeld' /\ DownIsIdle' /\ LocalsSet'
    BY <1>6, ConstantsAssumption
       DEF KillVictim, TypeOK, LockHeld, DownIsIdle, LocalsSet, Accepts, Goto, files,
           Thread, Locked
  <1>7. ASSUME NEW s \in Session, SpawnFail(s)
        PROVE  LockHeld' /\ DownIsIdle' /\ LocalsSet'
    BY <1>7, ConstantsAssumption
       DEF SpawnFail, TypeOK, LockHeld, DownIsIdle, LocalsSet, Accepts, Goto, files,
           Thread, Locked
  <1>8. ASSUME NEW s \in Session, SpawnServer(s)
        PROVE  LockHeld' /\ DownIsIdle' /\ LocalsSet'
    BY <1>8, ConstantsAssumption
       DEF SpawnServer, TypeOK, LockHeld, DownIsIdle, LocalsSet, FreePid, Accepts, Goto,
           files, Thread, Locked
  <1>9. ASSUME NEW s \in Session, StartCheck(s)
        PROVE  LockHeld' /\ DownIsIdle' /\ LocalsSet'
    BY <1>9, ConstantsAssumption
       DEF StartCheck, TypeOK, LockHeld, DownIsIdle, LocalsSet, Accepts, Goto, files,
           Thread, Locked
  <1>10. ASSUME NEW s \in Session, LaunchCheck(s)
        PROVE  LockHeld' /\ DownIsIdle' /\ LocalsSet'
    BY <1>10, ConstantsAssumption
       DEF LaunchCheck, TypeOK, LockHeld, DownIsIdle, LocalsSet, Accepts, Goto, files,
           Thread, Locked
  <1>11. ASSUME NEW s \in Session, Attach(s)
        PROVE  LockHeld' /\ DownIsIdle' /\ LocalsSet'
    BY <1>11, ConstantsAssumption
       DEF Attach, TypeOK, LockHeld, DownIsIdle, LocalsSet, Accepts, Goto, files,
           Thread, Locked
  <1>12. ASSUME NEW t \in Thread, FlushSnap(t)
        PROVE  LockHeld' /\ DownIsIdle' /\ LocalsSet'
    BY <1>12, ConstantsAssumption
       DEF FlushSnap, TypeOK, LockHeld, DownIsIdle, LocalsSet, Accepts, Goto, files,
           Thread, Locked
  <1>13. ASSUME NEW t \in Thread, FlushOpen(t)
        PROVE  LockHeld' /\ DownIsIdle' /\ LocalsSet'
    BY <1>13, ConstantsAssumption
       DEF FlushOpen, TypeOK, LockHeld, DownIsIdle, LocalsSet, Accepts, Goto, files,
           Thread, Locked
  <1>14. ASSUME NEW t \in Thread, FlushWrite(t)
        PROVE  LockHeld' /\ DownIsIdle' /\ LocalsSet'
    BY <1>14, ConstantsAssumption
       DEF FlushWrite, TypeOK, LockHeld, DownIsIdle, LocalsSet, Accepts, Goto, files,
           Thread, Locked
  <1>15. ASSUME NEW t \in Thread, FlushRename(t)
        PROVE  LockHeld' /\ DownIsIdle' /\ LocalsSet'
    BY <1>15, ConstantsAssumption
       DEF FlushRename, TypeOK, LockHeld, DownIsIdle, LocalsSet, FlushDone, Accepts,
           Goto, files, Thread, Locked
  <1>16. ASSUME NEW t \in Thread, FlushFail(t)
        PROVE  LockHeld' /\ DownIsIdle' /\ LocalsSet'
    BY <1>16, ConstantsAssumption
       DEF FlushFail, TypeOK, LockHeld, DownIsIdle, LocalsSet, FlushDone, Accepts, Goto,
           files, Thread, Locked
  <1>17. ASSUME Crash
        PROVE  LockHeld' /\ DownIsIdle' /\ LocalsSet'
    BY <1>17, ConstantsAssumption
       DEF Crash, TypeOK, LockHeld, DownIsIdle, LocalsSet, Accepts, Goto, files, Thread,
           Locked
  <1>18. ASSUME Restart
        PROVE  LockHeld' /\ DownIsIdle' /\ LocalsSet'
    BY <1>18, ConstantsAssumption
       DEF Restart, TypeOK, LockHeld, DownIsIdle, LocalsSet, Accepts, Goto, files,
           Thread, Locked
  <1>19. ASSUME NEW p \in Pid, ProcExit(p)
        PROVE  LockHeld' /\ DownIsIdle' /\ LocalsSet'
    BY <1>19, ConstantsAssumption
       DEF ProcExit, TypeOK, LockHeld, DownIsIdle, LocalsSet, Accepts, Goto, files,
           Thread, Locked
  <1>20. ASSUME NEW p \in Pid, ForeignSpawn(p)
        PROVE  LockHeld' /\ DownIsIdle' /\ LocalsSet'
    BY <1>20, ConstantsAssumption
       DEF ForeignSpawn, TypeOK, LockHeld, DownIsIdle, LocalsSet, Accepts, Goto, files,
           Thread, Locked
  <1> QED
    BY <1>1, <1>2, <1>3, <1>4, <1>5, <1>6, <1>7, <1>8, <1>9, <1>10, <1>11, <1>12, <1>13,
       <1>14, <1>15, <1>16, <1>17, <1>18, <1>19, <1>20
       DEF Next, Arrival, SessionStep, FlushStep

-----------------------------------------------------------------------------
(* The ports.                                                              *)

\* The map keeps distinct ports, and the port of a start under way stays free:
\* entries are only removed or keep their port, except where the thread that
\* holds the mutex inserts the port it reserved, and where a restart loads a
\* snapshot.
LEMMA PortStep ==
    ASSUME TypeOK, LockHeld, DownIsIdle, LocalsSet, PortReserved,
            PortsDistinct, CopiesDistinct, Next
    PROVE  PortReserved' /\ PortsDistinct'
  <1>1. ASSUME NEW s \in Session, NEW i \in Instance, NEW p \in Port, StartConflict(s, i, p)
        PROVE  PortReserved' /\ PortsDistinct'
    BY <1>1, NoneIsNoRecord, ReapTypes
       DEF StartConflict, TypeOK, LockHeld, LocalsSet, PortReserved, PortsDistinct,
           DistinctPorts, Accepts, Goto, files, Thread, Locked
  <1>2. ASSUME NEW s \in Session, NEW i \in Instance, NEW p \in Port, StartInstance(s, i, p)
        PROVE  PortReserved' /\ PortsDistinct'
    BY <1>2, NoneIsNoRecord, ReapTypes
       DEF StartInstance, TypeOK, LockHeld, LocalsSet, PortReserved, PortsDistinct,
           DistinctPorts, ConflictOwners, Accepts, Goto, files, Thread, Locked
  <1>3. ASSUME NEW s \in Session, NEW i \in Instance, StopInstance(s, i)
        PROVE  PortReserved' /\ PortsDistinct'
    BY <1>3, NoneIsNoRecord
       DEF StopInstance, TypeOK, LockHeld, LocalsSet, PortReserved, PortsDistinct,
           DistinctPorts, Accepts, Goto, files, Thread, Locked
  <1>4. ASSUME NEW s \in Session, NEW i \in Instance, LaunchApp(s, i)
        PROVE  PortReserved' /\ PortsDistinct'
    BY <1>4, NoneIsNoRecord
       DEF LaunchApp, TypeOK, LockHeld, LocalsSet, PortReserved, PortsDistinct,
           DistinctPorts, Accepts, Goto, files, Thread, Locked
  <1>5. ASSUME NEW s \in Session, Status(s)
        PROVE  PortReserved' /\ PortsDistinct'
    BY <1>5, NoneIsNoRecord, ReapTypes
       DEF Status, TypeOK, LockHeld, LocalsSet, PortReserved, PortsDistinct,
           DistinctPorts, Accepts, Goto, files, Thread, Locked
  <1>6. ASSUME NEW s \in Session, KillVictim(s)
        PROVE  PortReserved' /\ PortsDistinct'
    BY <1>6, NoneIsNoRecord
       DEF KillVictim, TypeOK, LockHeld, LocalsSet, PortReserved, PortsDistinct,
           DistinctPorts, Accepts, Goto, files, Thread, Locked
  <1>7. ASSUME NEW s \in Session, SpawnFail(s)
        PROVE  PortReserved' /\ PortsDistinct'
    BY <1>7, NoneIsNoRecord
       DEF SpawnFail, TypeOK, LockHeld, LocalsSet, PortReserved, PortsDistinct,
           DistinctPorts, Accepts, Goto, files, Thread, Locked
  <1>8. ASSUME NEW s \in Session, SpawnServer(s)
        PROVE  PortReserved' /\ PortsDistinct'
    BY <1>8, NoneIsNoRecord
       DEF SpawnServer, TypeOK, LockHeld, LocalsSet, PortReserved, PortsDistinct,
           DistinctPorts, Accepts, Goto, files, Thread, Locked
  <1>9. ASSUME NEW s \in Session, StartCheck(s)
        PROVE  PortReserved' /\ PortsDistinct'
    BY <1>9, NoneIsNoRecord
       DEF StartCheck, TypeOK, LockHeld, LocalsSet, PortReserved, PortsDistinct,
           DistinctPorts, InstanceRec, Accepts, Goto, files, Thread, Locked
  <1>10. ASSUME NEW s \in Session, LaunchCheck(s)
        PROVE  PortReserved' /\ PortsDistinct'
    BY <1>10, NoneIsNoRecord
       DEF LaunchCheck, TypeOK, LockHeld, LocalsSet, PortReserved, PortsDistinct,
           DistinctPorts, Accepts, Goto, files, Thread, Locked
  <1>11. ASSUME NEW s \in Session, Attach(s)
        PROVE  PortReserved' /\ PortsDistinct'
    BY <1>11, NoneIsNoRecord
       DEF Attach, TypeOK, LockHeld, LocalsSet, PortReserved, PortsDistinct,
           DistinctPorts, InstanceRec, Accepts, Goto, files, Thread, Locked
  <1>12. ASSUME NEW t \in Thread, FlushSnap(t)
        PROVE  PortReserved' /\ PortsDistinct'
    BY <1>12, NoneIsNoRecord
       DEF FlushSnap, TypeOK, LockHeld, LocalsSet, PortReserved, PortsDistinct,
           DistinctPorts, Accepts, Goto, files, Thread, Locked
  <1>13. ASSUME NEW t \in Thread, FlushOpen(t)
        PROVE  PortReserved' /\ PortsDistinct'
    BY <1>13, NoneIsNoRecord
       DEF FlushOpen, TypeOK, LockHeld, LocalsSet, PortReserved, PortsDistinct,
           DistinctPorts, Accepts, Goto, files, Thread, Locked
  <1>14. ASSUME NEW t \in Thread, FlushWrite(t)
        PROVE  PortReserved' /\ PortsDistinct'
    BY <1>14, NoneIsNoRecord
       DEF FlushWrite, TypeOK, LockHeld, LocalsSet, PortReserved, PortsDistinct,
           DistinctPorts, Accepts, Goto, files, Thread, Locked
  <1>15. ASSUME NEW t \in Thread, FlushRename(t)
        PROVE  PortReserved' /\ PortsDistinct'
    BY <1>15, NoneIsNoRecord
       DEF FlushRename, TypeOK, LockHeld, LocalsSet, PortReserved, PortsDistinct,
           DistinctPorts, FlushDone, Accepts, Goto, files, Thread, Locked
  <1>16. ASSUME NEW t \in Thread, FlushFail(t)
        PROVE  PortReserved' /\ PortsDistinct'
    BY <1>16, NoneIsNoRecord
       DEF FlushFail, TypeOK, LockHeld, LocalsSet, PortReserved, PortsDistinct,
           DistinctPorts, FlushDone, Accepts, Goto, files, Thread, Locked
  <1>17. ASSUME Crash
        PROVE  PortReserved' /\ PortsDistinct'
    BY <1>17, NoneIsNoRecord, EmptyFacts
       DEF Crash, TypeOK, LockHeld, LocalsSet, PortReserved, PortsDistinct,
           DistinctPorts, NoEntries, Accepts, Goto, files, Thread, Locked
  <1>18. ASSUME Restart
        PROVE  PortReserved' /\ PortsDistinct'
    <2>1. \A t \in Thread : pc'[t] \notin Locked
      BY <1>18 DEF Restart, DownIsIdle, TypeOK, Goto, Locked, Thread
    <2>2. disk.snap \in Snapshot /\ DistinctPorts(disk.snap)
      BY DEF TypeOK, File, CopiesDistinct
    <2>3. \/ instances' = [i \in Instance |-> Recover(disk.snap[i])]
          \/ instances' = instances
      BY <1>18 DEF Restart
    <2>4. DistinctPorts(instances')
      BY <2>2, <2>3, RecoverFacts DEF PortsDistinct
    <2> QED
      BY <2>1, <2>4 DEF PortReserved, PortsDistinct, DistinctPorts
  <1>19. ASSUME NEW p \in Pid, ProcExit(p)
        PROVE  PortReserved' /\ PortsDistinct'
    BY <1>19, NoneIsNoRecord
       DEF ProcExit, TypeOK, LockHeld, LocalsSet, PortReserved, PortsDistinct,
           DistinctPorts, Accepts, Goto, files, Thread, Locked
  <1>20. ASSUME NEW p \in Pid, ForeignSpawn(p)
        PROVE  PortReserved' /\ PortsDistinct'
    BY <1>20, NoneIsNoRecord
       DEF ForeignSpawn, TypeOK, LockHeld, LocalsSet, PortReserved, PortsDistinct,
           DistinctPorts, Accepts, Goto, files, Thread, Locked
  <1> QED
    BY <1>1, <1>2, <1>3, <1>4, <1>5, <1>6, <1>7, <1>8, <1>9, <1>10, <1>11, <1>12, <1>13,
       <1>14, <1>15, <1>16, <1>17, <1>18, <1>19, <1>20
       DEF Next, Arrival, SessionStep, FlushStep

\* Every copy of the map was taken from a map with distinct ports, or is
\* another copy.
LEMMA CopyStep ==
    ASSUME TypeOK, PortsDistinct, CopiesDistinct, Next
    PROVE  CopiesDistinct'
  <1>1. ASSUME NEW s \in Session, NEW i \in Instance, NEW p \in Port, StartConflict(s, i, p)
        PROVE  CopiesDistinct'
    BY <1>1 DEF StartConflict, CopiesDistinct, files
  <1>2. ASSUME NEW s \in Session, NEW i \in Instance, NEW p \in Port, StartInstance(s, i, p)
        PROVE  CopiesDistinct'
    BY <1>2 DEF StartInstance, CopiesDistinct, files
  <1>3. ASSUME NEW s \in Session, NEW i \in Instance, StopInstance(s, i)
        PROVE  CopiesDistinct'
    BY <1>3 DEF StopInstance, CopiesDistinct, files
  <1>4. ASSUME NEW s \in Session, NEW i \in Instance, LaunchApp(s, i)
        PROVE  CopiesDistinct'
    BY <1>4 DEF LaunchApp, CopiesDistinct, files
  <1>5. ASSUME NEW s \in Session, Status(s)
        PROVE  CopiesDistinct'
    BY <1>5 DEF Status, CopiesDistinct, files
  <1>6. ASSUME NEW s \in Session, KillVictim(s)
        PROVE  CopiesDistinct'
    BY <1>6 DEF KillVictim, CopiesDistinct, files
  <1>7. ASSUME NEW s \in Session, SpawnFail(s)
        PROVE  CopiesDistinct'
    BY <1>7 DEF SpawnFail, CopiesDistinct, files
  <1>8. ASSUME NEW s \in Session, SpawnServer(s)
        PROVE  CopiesDistinct'
    BY <1>8 DEF SpawnServer, CopiesDistinct, files
  <1>9. ASSUME NEW s \in Session, StartCheck(s)
        PROVE  CopiesDistinct'
    BY <1>9 DEF StartCheck, CopiesDistinct, files
  <1>10. ASSUME NEW s \in Session, LaunchCheck(s)
        PROVE  CopiesDistinct'
    BY <1>10 DEF LaunchCheck, CopiesDistinct, files
  <1>11. ASSUME NEW s \in Session, Attach(s)
        PROVE  CopiesDistinct'
    BY <1>11 DEF Attach, CopiesDistinct, files
  <1>12. ASSUME NEW t \in Thread, FlushSnap(t)
        PROVE  CopiesDistinct'
    BY <1>12, SnapshotFacts DEF FlushSnap, CopiesDistinct, PortsDistinct, Map, TypeOK
  <1>13. ASSUME NEW t \in Thread, FlushOpen(t)
        PROVE  CopiesDistinct'
    BY <1>13, EmptyFacts DEF FlushOpen, CopiesDistinct
  <1>14. ASSUME NEW t \in Thread, FlushWrite(t)
        PROVE  CopiesDistinct'
    BY <1>14 DEF FlushWrite, CopiesDistinct, Full, TypeOK
  <1>15. ASSUME NEW t \in Thread, FlushRename(t)
        PROVE  CopiesDistinct'
    BY <1>15, EmptyFacts DEF FlushRename, CopiesDistinct, TypeOK
  <1>16. ASSUME NEW t \in Thread, FlushFail(t)
        PROVE  CopiesDistinct'
    BY <1>16, EmptyFacts DEF FlushFail, CopiesDistinct, TypeOK
  <1>17. ASSUME Crash
        PROVE  CopiesDistinct'
    BY <1>17, EmptyFacts DEF Crash, CopiesDistinct
  <1>18. ASSUME Restart
        PROVE  CopiesDistinct'
    BY <1>18 DEF Restart, CopiesDistinct, files
  <1>19. ASSUME NEW p \in Pid, ProcExit(p)
        PROVE  CopiesDistinct'
    BY <1>19 DEF ProcExit, CopiesDistinct, files
  <1>20. ASSUME NEW p \in Pid, ForeignSpawn(p)
        PROVE  CopiesDistinct'
    BY <1>20 DEF ForeignSpawn, CopiesDistinct, files
  <1> QED
    BY <1>1, <1>2, <1>3, <1>4, <1>5, <1>6, <1>7, <1>8, <1>9, <1>10, <1>11, <1>12, <1>13,
       <1>14, <1>15, <1>16, <1>17, <1>18, <1>19, <1>20
       DEF Next, Arrival, SessionStep, FlushStep

-----------------------------------------------------------------------------
(* Types and ports.                                                        *)

\* A daemon that has never run satisfies the inductive invariant.
LEMMA InitInv == Init => IndInv
  <1> SUFFICES ASSUME Init PROVE IndInv
    OBVIOUS
  <1>1. TypeOK
    BY EmptyFacts, ProcessTypes DEF Init, TypeOK, Map, Labels, NoProc, Process
  <1>2. LockHeld /\ DownIsIdle /\ LocalsSet /\ PortReserved
    BY NoneIsNoRecord DEF Init, LockHeld, DownIsIdle, LocalsSet, PortReserved, Locked
  <1>3. PortsDistinct /\ CopiesDistinct
    BY EmptyFacts DEF Init, PortsDistinct, CopiesDistinct
  <1> QED
    BY <1>1, <1>2, <1>3 DEF IndInv

\* Every step of a session, a flush, the daemon's death and restart, and the
\* rest of the guest keeps the inductive invariant.
LEMMA NextInv == IndInv /\ [Next]_vars => IndInv'
  <1> SUFFICES ASSUME IndInv, [Next]_vars PROVE IndInv'
    OBVIOUS
  <1>1. CASE Next
    BY <1>1, TypeStep, ControlStep, PortStep, CopyStep DEF IndInv
  <1>2. CASE UNCHANGED vars
    BY <1>2
       DEF vars, IndInv, TypeOK, LockHeld, DownIsIdle, LocalsSet, PortReserved,
           PortsDistinct,
                DistinctPorts, CopiesDistinct
  <1> QED
    BY <1>1, <1>2

\* Every reachable state of the daemon, the process table and the file system
\* is well typed.
THEOREM TypeCorrect == Spec => []TypeOK
  <1>1. IndInv => TypeOK
    BY DEF IndInv
  <1> QED
    BY InitInv, NextInv, <1>1, PTL DEF Spec

\* No two recorded instances ever share a port (start_instance,
\* port_conflict_owner, reconcile_on_startup).
THEOREM PortsAlwaysDistinct == Spec => []PortsDistinct
  <1>1. IndInv => PortsDistinct
    BY DEF IndInv
  <1> QED
    BY InitInv, NextInv, <1>1, PTL DEF Spec

-----------------------------------------------------------------------------
(* The pids of the instances this daemon started.                          *)
(*                                                                         *)
(* OwnedPidsPinned says what the entries and the removed entries hold.  It *)
(* is not inductive: a child becomes an entry or an app of one when its    *)
(* start or launch is checked, and waiting for one process must not free   *)
(* the pid another entry holds.                                            *)

\* A pid the kernel keeps: the process runs, or is a zombie of this daemon.
Held(p, kind) == proc[p].st # "free" /\ proc[p].kind = kind /\ proc[p].mine

\* A process spawned and not yet recorded is the thread's own child.
ChildHeld ==
    \A t \in Thread : child[t] # None =>
        /\ pc[t] \in {"s_check", "l_check", "l_attach"}
        /\ Held(child[t], IF pc[t] = "s_check" THEN "server" ELSE "app")

\* A removed entry is there exactly while terminate() runs.
VictimHeld == \A t \in Thread : victim[t] # None <=> pc[t] \in {"s_kill", "p_kill"}

OwnEntry(i)  == instances[i] # None /\ instances[i].child
OwnVictim(t) == victim[t] # None /\ victim[t].child

\* No server with a Child handle has two holders.
ServersApart ==
    /\ \A i, j \in Instance :
          OwnEntry(i) /\ OwnEntry(j) /\ instances[i].server_pid = instances[j].server_pid => i = j
    /\ \A t, u \in Thread :
          OwnVictim(t) /\ OwnVictim(u) /\ victim[t].server_pid = victim[u].server_pid => t = u
    /\ \A i \in Instance, t \in Thread :
          OwnEntry(i) /\ OwnVictim(t) => instances[i].server_pid # victim[t].server_pid

\* No process under start or launch has another holder.
ChildrenApart ==
    /\ \A i \in Instance, t \in Thread :
          OwnEntry(i) => child[t] \notin Pids(instances[i])
    /\ \A t, u \in Thread : OwnVictim(t) => child[u] \notin Pids(victim[t])
    /\ \A t, u \in Thread : child[t] # None /\ child[t] = child[u] => t = u

OwnInv ==
    /\ OwnedPidsPinned
    /\ ChildHeld
    /\ VictimHeld
    /\ ServersApart
    /\ ChildrenApart

\* The types of one entry, one removed entry and one process.
LEMMA EntryTypes ==
    ASSUME TypeOK
    PROVE  /\ \A i \in Instance : instances[i] # None =>
                 /\ instances[i] \in InstanceRec
                 /\ instances[i].server_pid \in Pid /\ instances[i].app_pids \subseteq Pid
           /\ \A t \in Thread : victim[t] # None =>
                 /\ victim[t] \in InstanceRec
                 /\ victim[t].server_pid \in Pid /\ victim[t].app_pids \subseteq Pid
           /\ \A t \in Thread : child[t] # None => child[t] \in Pid
  BY DEF TypeOK, InstanceRec

\* Waiting for the dead servers frees only their own pids.
LEMMA ReapedPids ==
    ASSUME TypeOK, OwnedPidsPinned
    PROVE  \A p \in Pid : ReapedProc[p] # proc[p] =>
              \E i \in Dead : OwnEntry(i) /\ instances[i].server_pid = p /\ proc[p].kind = "server"
                              /\ proc[p].st = "zombie"
  BY EntryTypes DEF ReapedProc, Waited, Dead, OwnEntry, OwnedPidsPinned, Pinned

\* The reaping of reap_dead_instances keeps every pid that somebody else holds.
LEMMA ReapKeeps ==
    ASSUME TypeOK, OwnInv
    PROVE  /\ \A i \in Instance : Reaped[i] # None =>
                 /\ Reaped[i] = instances[i] /\ instances[i] # None
                 /\ OwnEntry(i) =>
                       ReapedProc[instances[i].server_pid] = proc[instances[i].server_pid]
                 /\ OwnEntry(i) => \A p \in instances[i].app_pids : ReapedProc[p] = proc[p]
           /\ \A t \in Thread : OwnVictim(t) =>
                 /\ ReapedProc[victim[t].server_pid] = proc[victim[t].server_pid]
                 /\ \A p \in victim[t].app_pids : ReapedProc[p] = proc[p]
           /\ \A t \in Thread : child[t] # None => ReapedProc[child[t]] = proc[child[t]]
  <1>1. ASSUME NEW i \in Instance, Reaped[i] # None
        PROVE  /\ Reaped[i] = instances[i] /\ instances[i] # None
               /\ OwnEntry(i) =>
                       ReapedProc[instances[i].server_pid] = proc[instances[i].server_pid]
               /\ OwnEntry(i) => \A p \in instances[i].app_pids : ReapedProc[p] = proc[p]
    <2>1. Reaped[i] = instances[i] /\ instances[i] # None /\ i \notin Dead
      BY <1>1 DEF Reaped
    <2>2. OwnEntry(i) => ReapedProc[instances[i].server_pid] = proc[instances[i].server_pid]
      BY <2>1, EntryTypes, ReapedPids DEF OwnInv, ServersApart, Dead
    <2>3. OwnEntry(i) => \A p \in instances[i].app_pids : ReapedProc[p] = proc[p]
      BY <2>1, EntryTypes, ReapedPids DEF OwnInv, OwnedPidsPinned, Pinned, OwnEntry
    <2> QED
      BY <2>1, <2>2, <2>3
  <1>2. ASSUME NEW t \in Thread, OwnVictim(t)
        PROVE  /\ ReapedProc[victim[t].server_pid] = proc[victim[t].server_pid]
               /\ \A p \in victim[t].app_pids : ReapedProc[p] = proc[p]
    <2>1. ReapedProc[victim[t].server_pid] = proc[victim[t].server_pid]
      BY <1>2, EntryTypes, ReapedPids DEF OwnInv, ServersApart, Dead, OwnVictim
    <2>2. \A p \in victim[t].app_pids : ReapedProc[p] = proc[p]
      BY <1>2, EntryTypes, ReapedPids DEF OwnInv, OwnedPidsPinned, Pinned, OwnVictim
    <2> QED
      BY <2>1, <2>2
  <1>3. ASSUME NEW t \in Thread, child[t] # None
        PROVE  ReapedProc[child[t]] = proc[child[t]]
    BY <1>3, EntryTypes, ReapedPids DEF OwnInv, ChildrenApart, Pids, Dead
  <1> QED
    BY <1>1, <1>2, <1>3

\* The pids that this daemon's instances, terminations, starts and launches
\* hold stay theirs in every step.
LEMMA OwnStep ==
    ASSUME TypeOK, LockHeld, DownIsIdle, LocalsSet, OwnInv, Next
    PROVE  OwnInv'
  <1> USE NoneIsNoRecord, EntryTypes
  <1>1. ASSUME NEW s \in Session, NEW i \in Instance, NEW p \in Port, StartConflict(s, i, p)
        PROVE  OwnInv'
    <2>1. OwnedPidsPinned'
      BY <1>1, ReapKeeps
         DEF OwnInv, OwnedPidsPinned, Pinned, OwnEntry, OwnVictim, ChildHeld, Held,
             VictimHeld, ServersApart, ChildrenApart, Pids, StartConflict
    <2>2. ChildHeld'
      BY <1>1, ReapKeeps
         DEF OwnInv, ChildHeld, Held, OwnedPidsPinned, StartConflict, Goto, Accepts
    <2>3. VictimHeld'
      BY <1>1 DEF OwnInv, VictimHeld, StartConflict, Goto, Accepts
    <2>4. ServersApart'
      BY <1>1, ReapKeeps
         DEF OwnInv, ServersApart, ChildrenApart, OwnEntry, OwnVictim, OwnedPidsPinned,
             Pinned, ChildHeld, Held, Pids, VictimHeld, StartConflict, Goto, TypeOK,
             Thread, Accepts
    <2>5. ChildrenApart'
      BY <1>1, ReapKeeps
         DEF OwnInv, ChildrenApart, OwnEntry, OwnVictim, OwnedPidsPinned, Pinned,
             ChildHeld, Held, Pids, StartConflict, Goto, TypeOK, Thread, Accepts
    <2> QED
      BY <2>1, <2>2, <2>3, <2>4, <2>5 DEF OwnInv
  <1>2. ASSUME NEW s \in Session, NEW i \in Instance, NEW p \in Port, StartInstance(s, i, p)
        PROVE  OwnInv'
    <2>1. OwnedPidsPinned'
      BY <1>2, ReapKeeps
         DEF OwnInv, OwnedPidsPinned, Pinned, OwnEntry, OwnVictim, ChildHeld, Held,
             VictimHeld, ServersApart, ChildrenApart, Pids, StartInstance, Goto,
             TypeOK, Thread, Accepts
    <2>2. ChildHeld'
      BY <1>2, ReapKeeps
         DEF OwnInv, ChildHeld, Held, OwnedPidsPinned, Pinned, OwnEntry, OwnVictim,
             ChildrenApart, VictimHeld, Pids, StartInstance, Goto, TypeOK, Thread,
             Accepts
    <2>3. VictimHeld'
      BY <1>2, ReapKeeps
         DEF OwnInv, VictimHeld, StartInstance, Goto, TypeOK, Thread, Accepts
    <2>4. ServersApart'
      <3>1. /\ \A j \in Instance : instances'[j] # None => j # i /\ instances'[j] = instances[j]
            /\ victim'[s] # None => instances[i] # None /\ victim'[s] = instances[i]
            /\ \A t \in Thread \ {s} : victim'[t] = victim[t]
        BY <1>2, ReapKeeps, ReapTypes DEF StartInstance, TypeOK, Thread, Map
      <3> QED
        BY <3>1 DEF OwnInv, ServersApart, OwnEntry, OwnVictim
    <2>5. ChildrenApart'
      BY <1>2, ReapKeeps
         DEF OwnInv, ChildrenApart, OwnEntry, OwnVictim, OwnedPidsPinned, Pinned,
             ChildHeld, Held, Pids, StartInstance, Goto, TypeOK, Thread, Accepts
    <2> QED
      BY <2>1, <2>2, <2>3, <2>4, <2>5 DEF OwnInv
  <1>3. ASSUME NEW s \in Session, NEW i \in Instance, StopInstance(s, i)
        PROVE  OwnInv'
    <2>1. OwnedPidsPinned'
      BY <1>3
         DEF OwnInv, OwnedPidsPinned, Pinned, OwnEntry, OwnVictim, ChildHeld, Held,
             VictimHeld, ServersApart, ChildrenApart, Pids, StopInstance, Goto,
             TypeOK, Thread, Accepts
    <2>2. ChildHeld'
      BY <1>3
         DEF OwnInv, ChildHeld, Held, OwnedPidsPinned, Pinned, OwnEntry, OwnVictim,
             ChildrenApart, VictimHeld, Pids, StopInstance, Goto, TypeOK, Thread,
             Accepts
    <2>3. VictimHeld'
      BY <1>3 DEF OwnInv, VictimHeld, StopInstance, Goto, TypeOK, Thread, Accepts
    <2>4. ServersApart'
      BY <1>3
         DEF OwnInv, ServersApart, ChildrenApart, OwnEntry, OwnVictim, OwnedPidsPinned,
             Pinned, ChildHeld, Held, Pids, VictimHeld, StopInstance, Goto, TypeOK,
             Thread, Accepts
    <2>5. ChildrenApart'
      BY <1>3
         DEF OwnInv, ChildrenApart, OwnEntry, OwnVictim, OwnedPidsPinned, Pinned,
             ChildHeld, Held, Pids, StopInstance, Goto, TypeOK, Thread, Accepts
    <2> QED
      BY <2>1, <2>2, <2>3, <2>4, <2>5 DEF OwnInv
  <1>4. ASSUME NEW s \in Session, NEW i \in Instance, LaunchApp(s, i)
        PROVE  OwnInv'
    <2>1. OwnedPidsPinned'
      BY <1>4
         DEF OwnInv, OwnedPidsPinned, Pinned, OwnEntry, OwnVictim, ChildHeld, Held,
             VictimHeld, ServersApart, ChildrenApart, Pids, LaunchApp, Goto, TypeOK,
             Thread, Spawned, FreePid, Accepts
    <2>2. ChildHeld'
      BY <1>4
         DEF OwnInv, ChildHeld, Held, OwnedPidsPinned, Pinned, OwnEntry, OwnVictim,
             ChildrenApart, VictimHeld, Pids, LaunchApp, Goto, TypeOK, Thread,
             Spawned, FreePid, Accepts
    <2>3. VictimHeld'
      BY <1>4 DEF OwnInv, VictimHeld, LaunchApp, Goto, Accepts
    <2>4. ServersApart'
      BY <1>4
         DEF OwnInv, ServersApart, ChildrenApart, OwnEntry, OwnVictim, OwnedPidsPinned,
             Pinned, ChildHeld, Held, Pids, VictimHeld, LaunchApp, Goto, TypeOK,
             Thread, Spawned, FreePid, Accepts
    <2>5. ChildrenApart'
      BY <1>4
         DEF OwnInv, ChildrenApart, OwnEntry, OwnVictim, OwnedPidsPinned, Pinned,
             ChildHeld, Held, Pids, LaunchApp, Goto, TypeOK, Thread, Spawned,
             FreePid, Accepts
    <2> QED
      BY <2>1, <2>2, <2>3, <2>4, <2>5 DEF OwnInv
  <1>5. ASSUME NEW s \in Session, Status(s)
        PROVE  OwnInv'
    <2>1. OwnedPidsPinned'
      BY <1>5, ReapKeeps
         DEF OwnInv, OwnedPidsPinned, Pinned, OwnEntry, OwnVictim, ChildHeld, Held,
             VictimHeld, ServersApart, ChildrenApart, Pids, Status, Goto, TypeOK,
             Thread, LiveApps, Accepts, InstanceRec
    <2>2. ChildHeld'
      BY <1>5, ReapKeeps
         DEF OwnInv, ChildHeld, Held, OwnedPidsPinned, Pinned, OwnEntry, OwnVictim,
             ChildrenApart, VictimHeld, Pids, Status, Goto, TypeOK, Thread,
             LiveApps, Accepts, InstanceRec
    <2>3. VictimHeld'
      BY <1>5, ReapKeeps
         DEF OwnInv, VictimHeld, Status, Goto, TypeOK, Thread, LiveApps, Accepts,
             InstanceRec
    <2>4. ServersApart'
      BY <1>5, ReapKeeps
         DEF OwnInv, ServersApart, ChildrenApart, OwnEntry, OwnVictim, OwnedPidsPinned,
             Pinned, ChildHeld, Held, Pids, VictimHeld, Status, Goto, TypeOK,
             Thread, LiveApps, Accepts, InstanceRec
    <2>5. ChildrenApart'
      BY <1>5, ReapKeeps
         DEF OwnInv, ChildrenApart, OwnEntry, OwnVictim, OwnedPidsPinned, Pinned,
             ChildHeld, Held, Pids, Status, Goto, TypeOK, Thread, LiveApps, Accepts,
             InstanceRec
    <2> QED
      BY <2>1, <2>2, <2>3, <2>4, <2>5 DEF OwnInv
  <1>6. ASSUME NEW s \in Session, KillVictim(s)
        PROVE  OwnInv'
    <2>1. OwnedPidsPinned'
      <3>1. \A p \in Pid :
               proc[p].mine /\ proc[p].st # "free" /\ ~(OwnVictim(s) /\ p = victim[s].server_pid) =>
                  proc'[p].st # "free" /\ proc'[p].kind = proc[p].kind /\ proc'[p].mine
        BY <1>6
           DEF KillVictim, TypeOK, Ended, Process, OwnVictim, OwnInv, VictimHeld,
               Thread
      <3>2. /\ instances' = instances /\ victim'[s] = None
            /\ \A t \in Thread \ {s} : victim'[t] = victim[t]
        BY <1>6 DEF KillVictim, TypeOK, Thread
      <3>3. ASSUME NEW i \in Instance, OwnEntry(i) PROVE Pinned(instances[i])'
        <4>1. Pinned(instances[i])
          BY <3>3 DEF OwnInv, OwnedPidsPinned, OwnEntry
        <4>2. OwnVictim(s) => Pinned(victim[s]) /\ victim[s].server_pid # instances[i].server_pid
          BY <3>3 DEF OwnInv, OwnedPidsPinned, OwnVictim, ServersApart, Thread
        <4> QED
          BY <3>1, <3>2, <3>3, <4>1, <4>2 DEF Pinned, OwnEntry
      <3>4. ASSUME NEW t \in Thread, OwnVictim(t), t # s PROVE Pinned(victim[t])'
        <4>1. Pinned(victim[t])
          BY <3>4 DEF OwnInv, OwnedPidsPinned, OwnVictim
        <4>2. OwnVictim(s) => Pinned(victim[s]) /\ victim[s].server_pid # victim[t].server_pid
          BY <3>4 DEF OwnInv, OwnedPidsPinned, OwnVictim, ServersApart, Thread
        <4> QED
          BY <3>1, <3>2, <3>4, <4>1, <4>2 DEF Pinned, OwnVictim
      <3> QED
        BY <3>2, <3>3, <3>4 DEF OwnedPidsPinned, OwnEntry, OwnVictim
    <2>2. ChildHeld'
      BY <1>6
         DEF OwnInv, ChildHeld, Held, OwnedPidsPinned, Pinned, OwnEntry, OwnVictim,
             ChildrenApart, VictimHeld, Pids, KillVictim, Goto, TypeOK, Thread,
             Ended, NoProc, pid_alive, Process, InstanceRec
    <2>3. VictimHeld'
      BY <1>6
         DEF OwnInv, VictimHeld, KillVictim, Goto, TypeOK, Thread, Ended, NoProc,
             pid_alive, Process, InstanceRec
    <2>4. ServersApart'
      BY <1>6
         DEF OwnInv, ServersApart, ChildrenApart, OwnEntry, OwnVictim, OwnedPidsPinned,
             Pinned, ChildHeld, Held, Pids, VictimHeld, KillVictim, Goto, TypeOK,
             Thread, Ended, NoProc, pid_alive, Process, InstanceRec
    <2>5. ChildrenApart'
      BY <1>6
         DEF OwnInv, ChildrenApart, OwnEntry, OwnVictim, OwnedPidsPinned, Pinned,
             ChildHeld, Held, Pids, KillVictim, Goto, TypeOK, Thread, Ended, NoProc,
             pid_alive, Process, InstanceRec
    <2> QED
      BY <2>1, <2>2, <2>3, <2>4, <2>5 DEF OwnInv
  <1>7. ASSUME NEW s \in Session, SpawnFail(s)
        PROVE  OwnInv'
    <2>1. OwnedPidsPinned'
      BY <1>7
         DEF OwnInv, OwnedPidsPinned, Pinned, OwnEntry, OwnVictim, ChildHeld, Held,
             VictimHeld, ServersApart, ChildrenApart, Pids, SpawnFail, Goto, TypeOK,
             Thread
    <2>2. ChildHeld'
      BY <1>7
         DEF OwnInv, ChildHeld, Held, OwnedPidsPinned, Pinned, OwnEntry, OwnVictim,
             ChildrenApart, VictimHeld, Pids, SpawnFail, Goto, TypeOK, Thread
    <2>3. VictimHeld'
      BY <1>7 DEF OwnInv, VictimHeld, SpawnFail, Goto, TypeOK, Thread
    <2>4. ServersApart'
      BY <1>7
         DEF OwnInv, ServersApart, ChildrenApart, OwnEntry, OwnVictim, OwnedPidsPinned,
             Pinned, ChildHeld, Held, Pids, VictimHeld, SpawnFail, Goto, TypeOK,
             Thread
    <2>5. ChildrenApart'
      BY <1>7
         DEF OwnInv, ChildrenApart, OwnEntry, OwnVictim, OwnedPidsPinned, Pinned,
             ChildHeld, Held, Pids, SpawnFail, Goto, TypeOK, Thread
    <2> QED
      BY <2>1, <2>2, <2>3, <2>4, <2>5 DEF OwnInv
  <1>8. ASSUME NEW s \in Session, SpawnServer(s)
        PROVE  OwnInv'
    <2>1. OwnedPidsPinned'
      BY <1>8
         DEF OwnInv, OwnedPidsPinned, Pinned, OwnEntry, OwnVictim, ChildHeld, Held,
             VictimHeld, ServersApart, ChildrenApart, Pids, SpawnServer, Goto,
             TypeOK, Thread, Spawned, FreePid
    <2>2. ChildHeld'
      BY <1>8
         DEF OwnInv, ChildHeld, Held, OwnedPidsPinned, Pinned, OwnEntry, OwnVictim,
             ChildrenApart, VictimHeld, Pids, SpawnServer, Goto, TypeOK, Thread,
             Spawned, FreePid
    <2>3. VictimHeld'
      BY <1>8
         DEF OwnInv, VictimHeld, SpawnServer, Goto, TypeOK, Thread, Spawned, FreePid
    <2>4. ServersApart'
      BY <1>8
         DEF OwnInv, ServersApart, ChildrenApart, OwnEntry, OwnVictim, OwnedPidsPinned,
             Pinned, ChildHeld, Held, Pids, VictimHeld, SpawnServer, Goto, TypeOK,
             Thread, Spawned, FreePid
    <2>5. ChildrenApart'
      BY <1>8
         DEF OwnInv, ChildrenApart, OwnEntry, OwnVictim, OwnedPidsPinned, Pinned,
             ChildHeld, Held, Pids, SpawnServer, Goto, TypeOK, Thread, Spawned,
             FreePid
    <2> QED
      BY <2>1, <2>2, <2>3, <2>4, <2>5 DEF OwnInv
  <1>9. ASSUME NEW s \in Session, StartCheck(s)
        PROVE  OwnInv'
    <2>1. OwnedPidsPinned'
      BY <1>9
         DEF OwnInv, OwnedPidsPinned, Pinned, OwnEntry, OwnVictim, ChildHeld, Held,
             VictimHeld, ServersApart, ChildrenApart, Pids, StartCheck, Goto,
             TypeOK, Thread, Waited, LocalsSet, InstanceRec
    <2>2. ChildHeld'
      BY <1>9
         DEF OwnInv, ChildHeld, Held, OwnedPidsPinned, Pinned, OwnEntry, OwnVictim,
             ChildrenApart, VictimHeld, Pids, StartCheck, Goto, TypeOK, Thread,
             Waited, LocalsSet, InstanceRec
    <2>3. VictimHeld'
      BY <1>9
         DEF OwnInv, VictimHeld, StartCheck, Goto, TypeOK, Thread, Waited, LocalsSet,
             InstanceRec
    <2>4. ServersApart'
      BY <1>9
         DEF OwnInv, ServersApart, ChildrenApart, OwnEntry, OwnVictim, OwnedPidsPinned,
             Pinned, ChildHeld, Held, Pids, VictimHeld, StartCheck, Goto, TypeOK,
             Thread, Waited, LocalsSet, InstanceRec
    <2>5. ChildrenApart'
      BY <1>9
         DEF OwnInv, ChildrenApart, OwnEntry, OwnVictim, OwnedPidsPinned, Pinned,
             ChildHeld, Held, Pids, StartCheck, Goto, TypeOK, Thread, Waited,
             LocalsSet, InstanceRec
    <2> QED
      BY <2>1, <2>2, <2>3, <2>4, <2>5 DEF OwnInv
  <1>10. ASSUME NEW s \in Session, LaunchCheck(s)
        PROVE  OwnInv'
    <2>1. OwnedPidsPinned'
      BY <1>10
         DEF OwnInv, OwnedPidsPinned, Pinned, OwnEntry, OwnVictim, ChildHeld, Held,
             VictimHeld, ServersApart, ChildrenApart, Pids, LaunchCheck, Goto,
             TypeOK, Thread, Waited, LocalsSet
    <2>2. ChildHeld'
      BY <1>10
         DEF OwnInv, ChildHeld, Held, OwnedPidsPinned, Pinned, OwnEntry, OwnVictim,
             ChildrenApart, VictimHeld, Pids, LaunchCheck, Goto, TypeOK, Thread,
             Waited, LocalsSet
    <2>3. VictimHeld'
      BY <1>10
         DEF OwnInv, VictimHeld, LaunchCheck, Goto, TypeOK, Thread, Waited, LocalsSet
    <2>4. ServersApart'
      BY <1>10
         DEF OwnInv, ServersApart, ChildrenApart, OwnEntry, OwnVictim, OwnedPidsPinned,
             Pinned, ChildHeld, Held, Pids, VictimHeld, LaunchCheck, Goto, TypeOK,
             Thread, Waited, LocalsSet
    <2>5. ChildrenApart'
      BY <1>10
         DEF OwnInv, ChildrenApart, OwnEntry, OwnVictim, OwnedPidsPinned, Pinned,
             ChildHeld, Held, Pids, LaunchCheck, Goto, TypeOK, Thread, Waited,
             LocalsSet
    <2> QED
      BY <2>1, <2>2, <2>3, <2>4, <2>5 DEF OwnInv
  <1>11. ASSUME NEW s \in Session, Attach(s)
        PROVE  OwnInv'
    <2>1. OwnedPidsPinned'
      <3>1. \A j \in Instance : instances'[j] # None =>
               /\ instances[j] # None
               /\ instances'[j].server_pid = instances[j].server_pid
               /\ instances'[j].child = instances[j].child
               /\ instances'[j].app_pids \subseteq instances[j].app_pids \cup {child[s]}
        BY <1>11 DEF Attach, TypeOK, LocalsSet, InstanceRec
      <3>2. child[s] # None /\ Held(child[s], "app")
        BY <1>11 DEF Attach, OwnInv, ChildHeld, LocalsSet, Thread
      <3>3. proc' = proc /\ victim' = victim
        BY <1>11 DEF Attach
      <3> QED
        BY <3>1, <3>2, <3>3 DEF OwnInv, OwnedPidsPinned, Pinned, Held
    <2>2. ChildHeld'
      BY <1>11
         DEF OwnInv, ChildHeld, Held, OwnedPidsPinned, Pinned, OwnEntry, OwnVictim,
             ChildrenApart, VictimHeld, Pids, Attach, Goto, TypeOK, Thread,
             LocalsSet, InstanceRec
    <2>3. VictimHeld'
      BY <1>11
         DEF OwnInv, VictimHeld, Attach, Goto, TypeOK, Thread, LocalsSet, InstanceRec
    <2>4. ServersApart'
      BY <1>11
         DEF OwnInv, ServersApart, ChildrenApart, OwnEntry, OwnVictim, OwnedPidsPinned,
             Pinned, ChildHeld, Held, Pids, VictimHeld, Attach, Goto, TypeOK,
             Thread, LocalsSet, InstanceRec
    <2>5. ChildrenApart'
      BY <1>11
         DEF OwnInv, ChildrenApart, OwnEntry, OwnVictim, OwnedPidsPinned, Pinned,
             ChildHeld, Held, Pids, Attach, Goto, TypeOK, Thread, LocalsSet,
             InstanceRec
    <2> QED
      BY <2>1, <2>2, <2>3, <2>4, <2>5 DEF OwnInv
  <1>12. ASSUME NEW t \in Thread, FlushSnap(t)
        PROVE  OwnInv'
    <2>1. OwnedPidsPinned'
      BY <1>12
         DEF OwnInv, OwnedPidsPinned, Pinned, OwnEntry, OwnVictim, ChildHeld, Held,
             VictimHeld, ServersApart, ChildrenApart, Pids, FlushSnap, Goto, TypeOK,
             Thread
    <2>2. ChildHeld'
      BY <1>12
         DEF OwnInv, ChildHeld, Held, OwnedPidsPinned, Pinned, OwnEntry, OwnVictim,
             ChildrenApart, VictimHeld, Pids, FlushSnap, Goto, TypeOK, Thread
    <2>3. VictimHeld'
      BY <1>12 DEF OwnInv, VictimHeld, FlushSnap, Goto, TypeOK, Thread
    <2>4. ServersApart'
      BY <1>12
         DEF OwnInv, ServersApart, ChildrenApart, OwnEntry, OwnVictim, OwnedPidsPinned,
             Pinned, ChildHeld, Held, Pids, VictimHeld, FlushSnap, Goto, TypeOK,
             Thread
    <2>5. ChildrenApart'
      BY <1>12
         DEF OwnInv, ChildrenApart, OwnEntry, OwnVictim, OwnedPidsPinned, Pinned,
             ChildHeld, Held, Pids, FlushSnap, Goto, TypeOK, Thread
    <2> QED
      BY <2>1, <2>2, <2>3, <2>4, <2>5 DEF OwnInv
  <1>13. ASSUME NEW t \in Thread, FlushOpen(t)
        PROVE  OwnInv'
    <2>1. OwnedPidsPinned'
      BY <1>13
         DEF OwnInv, OwnedPidsPinned, Pinned, OwnEntry, OwnVictim, ChildHeld, Held,
             VictimHeld, ServersApart, ChildrenApart, Pids, FlushOpen, Goto, TypeOK,
             Thread
    <2>2. ChildHeld'
      BY <1>13
         DEF OwnInv, ChildHeld, Held, OwnedPidsPinned, Pinned, OwnEntry, OwnVictim,
             ChildrenApart, VictimHeld, Pids, FlushOpen, Goto, TypeOK, Thread
    <2>3. VictimHeld'
      BY <1>13 DEF OwnInv, VictimHeld, FlushOpen, Goto, TypeOK, Thread
    <2>4. ServersApart'
      BY <1>13
         DEF OwnInv, ServersApart, ChildrenApart, OwnEntry, OwnVictim, OwnedPidsPinned,
             Pinned, ChildHeld, Held, Pids, VictimHeld, FlushOpen, Goto, TypeOK,
             Thread
    <2>5. ChildrenApart'
      BY <1>13
         DEF OwnInv, ChildrenApart, OwnEntry, OwnVictim, OwnedPidsPinned, Pinned,
             ChildHeld, Held, Pids, FlushOpen, Goto, TypeOK, Thread
    <2> QED
      BY <2>1, <2>2, <2>3, <2>4, <2>5 DEF OwnInv
  <1>14. ASSUME NEW t \in Thread, FlushWrite(t)
        PROVE  OwnInv'
    <2>1. OwnedPidsPinned'
      BY <1>14
         DEF OwnInv, OwnedPidsPinned, Pinned, OwnEntry, OwnVictim, ChildHeld, Held,
             VictimHeld, ServersApart, ChildrenApart, Pids, FlushWrite, Goto,
             TypeOK, Thread
    <2>2. ChildHeld'
      BY <1>14
         DEF OwnInv, ChildHeld, Held, OwnedPidsPinned, Pinned, OwnEntry, OwnVictim,
             ChildrenApart, VictimHeld, Pids, FlushWrite, Goto, TypeOK, Thread
    <2>3. VictimHeld'
      BY <1>14 DEF OwnInv, VictimHeld, FlushWrite, Goto, TypeOK, Thread
    <2>4. ServersApart'
      BY <1>14
         DEF OwnInv, ServersApart, ChildrenApart, OwnEntry, OwnVictim, OwnedPidsPinned,
             Pinned, ChildHeld, Held, Pids, VictimHeld, FlushWrite, Goto, TypeOK,
             Thread
    <2>5. ChildrenApart'
      BY <1>14
         DEF OwnInv, ChildrenApart, OwnEntry, OwnVictim, OwnedPidsPinned, Pinned,
             ChildHeld, Held, Pids, FlushWrite, Goto, TypeOK, Thread
    <2> QED
      BY <2>1, <2>2, <2>3, <2>4, <2>5 DEF OwnInv
  <1>15. ASSUME NEW t \in Thread, FlushRename(t)
        PROVE  OwnInv'
    <2>1. OwnedPidsPinned'
      BY <1>15
         DEF OwnInv, OwnedPidsPinned, Pinned, OwnEntry, OwnVictim, ChildHeld, Held,
             VictimHeld, ServersApart, ChildrenApart, Pids, FlushRename, Goto,
             TypeOK, Thread, FlushDone
    <2>2. ChildHeld'
      BY <1>15
         DEF OwnInv, ChildHeld, Held, OwnedPidsPinned, Pinned, OwnEntry, OwnVictim,
             ChildrenApart, VictimHeld, Pids, FlushRename, Goto, TypeOK, Thread,
             FlushDone
    <2>3. VictimHeld'
      BY <1>15 DEF OwnInv, VictimHeld, FlushRename, Goto, TypeOK, Thread, FlushDone
    <2>4. ServersApart'
      BY <1>15
         DEF OwnInv, ServersApart, ChildrenApart, OwnEntry, OwnVictim, OwnedPidsPinned,
             Pinned, ChildHeld, Held, Pids, VictimHeld, FlushRename, Goto, TypeOK,
             Thread, FlushDone
    <2>5. ChildrenApart'
      BY <1>15
         DEF OwnInv, ChildrenApart, OwnEntry, OwnVictim, OwnedPidsPinned, Pinned,
             ChildHeld, Held, Pids, FlushRename, Goto, TypeOK, Thread, FlushDone
    <2> QED
      BY <2>1, <2>2, <2>3, <2>4, <2>5 DEF OwnInv
  <1>16. ASSUME NEW t \in Thread, FlushFail(t)
        PROVE  OwnInv'
    <2>1. OwnedPidsPinned'
      BY <1>16
         DEF OwnInv, OwnedPidsPinned, Pinned, OwnEntry, OwnVictim, ChildHeld, Held,
             VictimHeld, ServersApart, ChildrenApart, Pids, FlushFail, Goto, TypeOK,
             Thread, FlushDone
    <2>2. ChildHeld'
      BY <1>16
         DEF OwnInv, ChildHeld, Held, OwnedPidsPinned, Pinned, OwnEntry, OwnVictim,
             ChildrenApart, VictimHeld, Pids, FlushFail, Goto, TypeOK, Thread,
             FlushDone
    <2>3. VictimHeld'
      BY <1>16 DEF OwnInv, VictimHeld, FlushFail, Goto, TypeOK, Thread, FlushDone
    <2>4. ServersApart'
      BY <1>16
         DEF OwnInv, ServersApart, ChildrenApart, OwnEntry, OwnVictim, OwnedPidsPinned,
             Pinned, ChildHeld, Held, Pids, VictimHeld, FlushFail, Goto, TypeOK,
             Thread, FlushDone
    <2>5. ChildrenApart'
      BY <1>16
         DEF OwnInv, ChildrenApart, OwnEntry, OwnVictim, OwnedPidsPinned, Pinned,
             ChildHeld, Held, Pids, FlushFail, Goto, TypeOK, Thread, FlushDone
    <2> QED
      BY <2>1, <2>2, <2>3, <2>4, <2>5 DEF OwnInv
  <1>17. ASSUME Crash
        PROVE  OwnInv'
    <2>1. OwnedPidsPinned'
      BY <1>17
         DEF OwnInv, OwnedPidsPinned, Pinned, OwnEntry, OwnVictim, ChildHeld, Held,
             VictimHeld, ServersApart, ChildrenApart, Pids, Crash, Goto, TypeOK,
             Thread, NoEntries
    <2>2. ChildHeld'
      BY <1>17
         DEF OwnInv, ChildHeld, Held, OwnedPidsPinned, Pinned, OwnEntry, OwnVictim,
             ChildrenApart, VictimHeld, Pids, Crash, Goto, TypeOK, Thread, NoEntries
    <2>3. VictimHeld'
      BY <1>17 DEF OwnInv, VictimHeld, Crash, Goto, TypeOK, Thread, NoEntries
    <2>4. ServersApart'
      BY <1>17
         DEF OwnInv, ServersApart, ChildrenApart, OwnEntry, OwnVictim, OwnedPidsPinned,
             Pinned, ChildHeld, Held, Pids, VictimHeld, Crash, Goto, TypeOK, Thread,
             NoEntries
    <2>5. ChildrenApart'
      BY <1>17
         DEF OwnInv, ChildrenApart, OwnEntry, OwnVictim, OwnedPidsPinned, Pinned,
             ChildHeld, Held, Pids, Crash, Goto, TypeOK, Thread, NoEntries
    <2> QED
      BY <2>1, <2>2, <2>3, <2>4, <2>5 DEF OwnInv
  <1>18. ASSUME Restart
        PROVE  OwnInv'
    <2>1. OwnedPidsPinned'
      BY <1>18
         DEF OwnInv, OwnedPidsPinned, Pinned, OwnEntry, OwnVictim, ChildHeld, Held,
             VictimHeld, ServersApart, ChildrenApart, Pids, Restart, Goto, TypeOK,
             Thread, Recover, DownIsIdle
    <2>2. ChildHeld'
      BY <1>18
         DEF OwnInv, ChildHeld, Held, OwnedPidsPinned, Pinned, OwnEntry, OwnVictim,
             ChildrenApart, VictimHeld, Pids, Restart, Goto, TypeOK, Thread,
             Recover, DownIsIdle
    <2>3. VictimHeld'
      BY <1>18
         DEF OwnInv, VictimHeld, Restart, Goto, TypeOK, Thread, Recover, DownIsIdle
    <2>4. ServersApart'
      BY <1>18
         DEF OwnInv, ServersApart, ChildrenApart, OwnEntry, OwnVictim, OwnedPidsPinned,
             Pinned, ChildHeld, Held, Pids, VictimHeld, Restart, Goto, TypeOK,
             Thread, Recover, DownIsIdle
    <2>5. ChildrenApart'
      BY <1>18
         DEF OwnInv, ChildrenApart, OwnEntry, OwnVictim, OwnedPidsPinned, Pinned,
             ChildHeld, Held, Pids, Restart, Goto, TypeOK, Thread, Recover,
             DownIsIdle
    <2> QED
      BY <2>1, <2>2, <2>3, <2>4, <2>5 DEF OwnInv
  <1>19. ASSUME NEW p \in Pid, ProcExit(p)
        PROVE  OwnInv'
    <2>1. OwnedPidsPinned'
      BY <1>19
         DEF OwnInv, OwnedPidsPinned, Pinned, OwnEntry, OwnVictim, ChildHeld, Held,
             VictimHeld, ServersApart, ChildrenApart, Pids, ProcExit, Goto, TypeOK,
             Thread, Ended, NoProc, pid_alive, Process
    <2>2. ChildHeld'
      BY <1>19
         DEF OwnInv, ChildHeld, Held, OwnedPidsPinned, Pinned, OwnEntry, OwnVictim,
             ChildrenApart, VictimHeld, Pids, ProcExit, Goto, TypeOK, Thread, Ended,
             NoProc, pid_alive, Process
    <2>3. VictimHeld'
      BY <1>19
         DEF OwnInv, VictimHeld, ProcExit, Goto, TypeOK, Thread, Ended, NoProc,
             pid_alive, Process
    <2>4. ServersApart'
      BY <1>19
         DEF OwnInv, ServersApart, ChildrenApart, OwnEntry, OwnVictim, OwnedPidsPinned,
             Pinned, ChildHeld, Held, Pids, VictimHeld, ProcExit, Goto, TypeOK,
             Thread, Ended, NoProc, pid_alive, Process
    <2>5. ChildrenApart'
      BY <1>19
         DEF OwnInv, ChildrenApart, OwnEntry, OwnVictim, OwnedPidsPinned, Pinned,
             ChildHeld, Held, Pids, ProcExit, Goto, TypeOK, Thread, Ended, NoProc,
             pid_alive, Process
    <2> QED
      BY <2>1, <2>2, <2>3, <2>4, <2>5 DEF OwnInv
  <1>20. ASSUME NEW p \in Pid, ForeignSpawn(p)
        PROVE  OwnInv'
    <2>1. OwnedPidsPinned'
      BY <1>20
         DEF OwnInv, OwnedPidsPinned, Pinned, OwnEntry, OwnVictim, ChildHeld, Held,
             VictimHeld, ServersApart, ChildrenApart, Pids, ForeignSpawn, Goto,
             TypeOK, Thread, FreePid
    <2>2. ChildHeld'
      BY <1>20
         DEF OwnInv, ChildHeld, Held, OwnedPidsPinned, Pinned, OwnEntry, OwnVictim,
             ChildrenApart, VictimHeld, Pids, ForeignSpawn, Goto, TypeOK, Thread,
             FreePid
    <2>3. VictimHeld'
      BY <1>20 DEF OwnInv, VictimHeld, ForeignSpawn, Goto, TypeOK, Thread, FreePid
    <2>4. ServersApart'
      BY <1>20
         DEF OwnInv, ServersApart, ChildrenApart, OwnEntry, OwnVictim, OwnedPidsPinned,
             Pinned, ChildHeld, Held, Pids, VictimHeld, ForeignSpawn, Goto, TypeOK,
             Thread, FreePid
    <2>5. ChildrenApart'
      BY <1>20
         DEF OwnInv, ChildrenApart, OwnEntry, OwnVictim, OwnedPidsPinned, Pinned,
             ChildHeld, Held, Pids, ForeignSpawn, Goto, TypeOK, Thread, FreePid
    <2> QED
      BY <2>1, <2>2, <2>3, <2>4, <2>5 DEF OwnInv
  <1> QED
    BY <1>1, <1>2, <1>3, <1>4, <1>5, <1>6, <1>7, <1>8, <1>9, <1>10, <1>11, <1>12, <1>13,
       <1>14, <1>15, <1>16, <1>17, <1>18, <1>19, <1>20
       DEF Next, Arrival, SessionStep, FlushStep

-----------------------------------------------------------------------------
(* The running servers.                                                    *)
(*                                                                         *)
(* NoOrphanServer rests on OwnInv (what a start or a launch drops is not a *)
(* running server) and on three facts about what a step overwrites.        *)

\* A start inserts where no entry is: the mutex it holds keeps the slot empty.
StartReady == \A t \in Thread : pc[t] \in Locked => instances[req[t].inst] = None

\* The map dies with the daemon.
DownEmpty == daemon = "down" => instances = NoEntries

\* A file that holds no whole snapshot records nothing.
FilesWhole ==
    /\ disk.state # "full" => disk.snap = NoEntries
    /\ tmp.state # "full" => tmp.snap = NoEntries

OrphanInv ==
    /\ NoOrphanServer
    /\ StartReady
    /\ DownEmpty
    /\ FilesWhole

\* A running server survives reap_dead_instances, and so does its entry.
LEMMA ReapKnows ==
    ASSUME TypeOK
    PROVE  \A p \in Pid : ReapedProc[p].st = "run" =>
              /\ proc[p] = ReapedProc[p]
              /\ \A i \in Instance :
                    instances[i] # None /\ instances[i].server_pid = p => Reaped[i] = instances[i]
  BY EntryTypes DEF ReapedProc, Waited, NoProc, Reaped, Dead, ServerGone, pid_alive

\* A running server keeps somebody who knows it in every step: an entry is
\* removed only when its server has ended or goes to terminate(), and a
\* restart takes back every recorded server that lives.
LEMMA OrphanStep ==
    ASSUME TypeOK, LockHeld, DownIsIdle, LocalsSet, OwnInv, OrphanInv, Next
    PROVE  OrphanInv'
  <1> USE NoneIsNoRecord, EntryTypes
  <1>1. ASSUME NEW s \in Session, NEW i \in Instance, NEW p \in Port, StartConflict(s, i, p)
        PROVE  OrphanInv'
    <2>1. NoOrphanServer'
      <3>1. instances' = Reaped /\ proc' = ReapedProc
        BY <1>1 DEF StartConflict
      <3>2. UNCHANGED <<daemon, victim, child, disk, lost>>
        BY <1>1 DEF StartConflict, files
      <3> QED
        BY <3>1, <3>2, ReapKnows DEF OrphanInv, NoOrphanServer, Recorded
    <2>2. StartReady'
      BY <1>1, ReapedPids
         DEF OrphanInv, StartReady, LockHeld, LocalsSet, Locked, DownIsIdle, Reaped,
             StartConflict, Goto, TypeOK, Thread, files, Dead, ServerGone, OwnInv,
             Accepts
    <2>3. DownEmpty'
      BY <1>1, ReapedPids
         DEF OrphanInv, DownEmpty, DownIsIdle, StartConflict, Goto, TypeOK, Thread,
             files, Reaped, Dead, ServerGone, OwnInv, Accepts
    <2>4. FilesWhole'
      BY <1>1, ReapedPids
         DEF OrphanInv, FilesWhole, NoFile, CutFile, Full, StartConflict, Goto, TypeOK,
             Thread, files, Reaped, Dead, ServerGone, OwnInv, Accepts
    <2> QED
      BY <2>1, <2>2, <2>3, <2>4 DEF OrphanInv
  <1>2. ASSUME NEW s \in Session, NEW i \in Instance, NEW p \in Port, StartInstance(s, i, p)
        PROVE  OrphanInv'
    <2>1. NoOrphanServer'
      <3>1. /\ proc' = ReapedProc /\ victim'[s] = Reaped[i]
            /\ \A j \in Instance \ {i} : instances'[j] = Reaped[j]
            /\ \A t \in Thread \ {s} : victim'[t] = victim[t]
        BY <1>2, ReapTypes DEF StartInstance, TypeOK, Thread, Map
      <3>2. victim[s] = None
        BY <1>2 DEF StartInstance, Accepts, OwnInv, VictimHeld, Thread
      <3>3. UNCHANGED <<daemon, child, disk, lost>>
        BY <1>2 DEF StartInstance, files
      <3> QED
        BY <3>1, <3>2, <3>3, ReapKnows DEF OrphanInv, NoOrphanServer, Recorded, Thread
    <2>2. StartReady'
      BY <1>2, ReapedPids
         DEF OrphanInv, StartReady, LockHeld, LocalsSet, Locked, DownIsIdle, Reaped,
             StartInstance, Goto, TypeOK, Thread, files, Dead, ServerGone, OwnInv,
             Accepts
    <2>3. DownEmpty'
      BY <1>2, ReapedPids
         DEF OrphanInv, DownEmpty, DownIsIdle, StartInstance, Goto, TypeOK, Thread,
             files, Reaped, Dead, ServerGone, OwnInv, Accepts
    <2>4. FilesWhole'
      BY <1>2, ReapedPids
         DEF OrphanInv, FilesWhole, NoFile, CutFile, Full, StartInstance, Goto, TypeOK,
             Thread, files, Reaped, Dead, ServerGone, OwnInv, Accepts
    <2> QED
      BY <2>1, <2>2, <2>3, <2>4 DEF OrphanInv
  <1>3. ASSUME NEW s \in Session, NEW i \in Instance, StopInstance(s, i)
        PROVE  OrphanInv'
    <2>1. NoOrphanServer'
      BY <1>3
         DEF OrphanInv, NoOrphanServer, Recorded, OwnInv, ChildHeld, Held, VictimHeld,
             Pids, StartReady, DownEmpty, FilesWhole, StopInstance, Goto, TypeOK,
             Thread, files, Accepts
    <2>2. StartReady'
      BY <1>3
         DEF OrphanInv, StartReady, LockHeld, LocalsSet, Locked, DownIsIdle, Reaped,
             StopInstance, Goto, TypeOK, Thread, files, Accepts
    <2>3. DownEmpty'
      BY <1>3
         DEF OrphanInv, DownEmpty, DownIsIdle, StopInstance, Goto, TypeOK, Thread,
             files, Accepts
    <2>4. FilesWhole'
      BY <1>3
         DEF OrphanInv, FilesWhole, NoFile, CutFile, Full, StopInstance, Goto, TypeOK,
             Thread, files, Accepts
    <2> QED
      BY <2>1, <2>2, <2>3, <2>4 DEF OrphanInv
  <1>4. ASSUME NEW s \in Session, NEW i \in Instance, LaunchApp(s, i)
        PROVE  OrphanInv'
    <2>1. NoOrphanServer'
      BY <1>4
         DEF OrphanInv, NoOrphanServer, Recorded, OwnInv, ChildHeld, Held, VictimHeld,
             Pids, StartReady, DownEmpty, FilesWhole, LaunchApp, Goto, TypeOK,
             Thread, files, Spawned, FreePid, Accepts
    <2>2. StartReady'
      BY <1>4
         DEF OrphanInv, StartReady, LockHeld, LocalsSet, Locked, DownIsIdle, Reaped,
             LaunchApp, Goto, TypeOK, Thread, files, Spawned, FreePid, Accepts
    <2>3. DownEmpty'
      BY <1>4
         DEF OrphanInv, DownEmpty, DownIsIdle, LaunchApp, Goto, TypeOK, Thread, files,
             Spawned, FreePid, Accepts
    <2>4. FilesWhole'
      BY <1>4
         DEF OrphanInv, FilesWhole, NoFile, CutFile, Full, LaunchApp, Goto, TypeOK,
             Thread, files, Spawned, FreePid, Accepts
    <2> QED
      BY <2>1, <2>2, <2>3, <2>4 DEF OrphanInv
  <1>5. ASSUME NEW s \in Session, Status(s)
        PROVE  OrphanInv'
    <2>1. NoOrphanServer'
      <3>1. proc' = ReapedProc
        BY <1>5 DEF Status
      <3>2. \A i \in Instance : Reaped[i] # None =>
               instances'[i] # None /\ instances'[i].server_pid = Reaped[i].server_pid
        <4>1. \A i \in Instance : Reaped[i] # None => Reaped[i] \in InstanceRec
          BY ReapTypes DEF Map
        <4>2. instances' = LiveApps(Reaped)
          BY <1>5 DEF Status
        <4>3. ASSUME NEW i \in Instance, Reaped[i] # None
              PROVE  /\ LiveApps(Reaped)[i] \in InstanceRec
                     /\ LiveApps(Reaped)[i].server_pid = Reaped[i].server_pid
          <5>1. Reaped[i] \in InstanceRec
            BY <4>1, <4>3
          <5>2. LiveApps(Reaped)[i]
                  = [Reaped[i] EXCEPT !.app_pids = {p \in Reaped[i].app_pids : pid_alive(p)}]
            BY <4>3 DEF LiveApps
          <5> QED
            BY <5>1, <5>2 DEF InstanceRec
        <4> QED
          BY <4>2, <4>3
      <3>3. UNCHANGED <<daemon, victim, child, disk, lost>>
        BY <1>5 DEF Status, files
      <3> QED
        BY <3>1, <3>2, <3>3, ReapKnows DEF OrphanInv, NoOrphanServer, Recorded
    <2>2. StartReady'
      BY <1>5, ReapedPids
         DEF OrphanInv, StartReady, LockHeld, LocalsSet, Locked, DownIsIdle, Reaped,
             Status, Goto, TypeOK, Thread, files, Dead, ServerGone, OwnInv,
             LiveApps, InstanceRec, Accepts
    <2>3. DownEmpty'
      BY <1>5, ReapedPids
         DEF OrphanInv, DownEmpty, DownIsIdle, Status, Goto, TypeOK, Thread, files,
             Reaped, Dead, ServerGone, OwnInv, LiveApps, InstanceRec, Accepts
    <2>4. FilesWhole'
      BY <1>5, ReapedPids
         DEF OrphanInv, FilesWhole, NoFile, CutFile, Full, Status, Goto, TypeOK,
             Thread, files, Reaped, Dead, ServerGone, OwnInv, LiveApps, InstanceRec,
             Accepts
    <2> QED
      BY <2>1, <2>2, <2>3, <2>4 DEF OrphanInv
  <1>6. ASSUME NEW s \in Session, KillVictim(s)
        PROVE  OrphanInv'
    <2>1. NoOrphanServer'
      BY <1>6
         DEF OrphanInv, NoOrphanServer, Recorded, OwnInv, ChildHeld, Held, VictimHeld,
             Pids, StartReady, DownEmpty, FilesWhole, KillVictim, Goto, TypeOK,
             Thread, files, Ended, NoProc, pid_alive, Process, InstanceRec
    <2>2. StartReady'
      BY <1>6
         DEF OrphanInv, StartReady, LockHeld, LocalsSet, Locked, DownIsIdle, Reaped,
             KillVictim, Goto, TypeOK, Thread, files, Ended, NoProc, pid_alive,
             Process, InstanceRec
    <2>3. DownEmpty'
      BY <1>6
         DEF OrphanInv, DownEmpty, DownIsIdle, KillVictim, Goto, TypeOK, Thread, files,
             Ended, NoProc, pid_alive, Process, InstanceRec
    <2>4. FilesWhole'
      BY <1>6
         DEF OrphanInv, FilesWhole, NoFile, CutFile, Full, KillVictim, Goto, TypeOK,
             Thread, files, Ended, NoProc, pid_alive, Process, InstanceRec
    <2> QED
      BY <2>1, <2>2, <2>3, <2>4 DEF OrphanInv
  <1>7. ASSUME NEW s \in Session, SpawnFail(s)
        PROVE  OrphanInv'
    <2>1. NoOrphanServer'
      BY <1>7
         DEF OrphanInv, NoOrphanServer, Recorded, OwnInv, ChildHeld, Held, VictimHeld,
             Pids, StartReady, DownEmpty, FilesWhole, SpawnFail, Goto, TypeOK,
             Thread, files
    <2>2. StartReady'
      BY <1>7
         DEF OrphanInv, StartReady, LockHeld, LocalsSet, Locked, DownIsIdle, Reaped,
             SpawnFail, Goto, TypeOK, Thread, files
    <2>3. DownEmpty'
      BY <1>7
         DEF OrphanInv, DownEmpty, DownIsIdle, SpawnFail, Goto, TypeOK, Thread, files
    <2>4. FilesWhole'
      BY <1>7
         DEF OrphanInv, FilesWhole, NoFile, CutFile, Full, SpawnFail, Goto, TypeOK,
             Thread, files
    <2> QED
      BY <2>1, <2>2, <2>3, <2>4 DEF OrphanInv
  <1>8. ASSUME NEW s \in Session, SpawnServer(s)
        PROVE  OrphanInv'
    <2>1. NoOrphanServer'
      BY <1>8
         DEF OrphanInv, NoOrphanServer, Recorded, OwnInv, ChildHeld, Held, VictimHeld,
             Pids, StartReady, DownEmpty, FilesWhole, SpawnServer, Goto, TypeOK,
             Thread, files, Spawned, FreePid
    <2>2. StartReady'
      BY <1>8
         DEF OrphanInv, StartReady, LockHeld, LocalsSet, Locked, DownIsIdle, Reaped,
             SpawnServer, Goto, TypeOK, Thread, files, Spawned, FreePid
    <2>3. DownEmpty'
      BY <1>8
         DEF OrphanInv, DownEmpty, DownIsIdle, SpawnServer, Goto, TypeOK, Thread,
             files, Spawned, FreePid
    <2>4. FilesWhole'
      BY <1>8
         DEF OrphanInv, FilesWhole, NoFile, CutFile, Full, SpawnServer, Goto, TypeOK,
             Thread, files, Spawned, FreePid
    <2> QED
      BY <2>1, <2>2, <2>3, <2>4 DEF OrphanInv
  <1>9. ASSUME NEW s \in Session, StartCheck(s)
        PROVE  OrphanInv'
    <2>1. NoOrphanServer'
      <3>1. /\ \A p \in Pid : proc'[p].st = "run" => proc[p] = proc'[p]
            /\ UNCHANGED <<daemon, victim, disk, lost>>
        BY <1>9 DEF StartCheck, Waited, NoProc, files
      <3>2. \A t \in Thread \ {s} : child'[t] = child[t]
        BY <1>9 DEF StartCheck, TypeOK, Thread
      <3>3. child[s] \in Pid /\ req[s].inst \in Instance /\ instances[req[s].inst] = None
        BY <1>9 DEF StartCheck, LocalsSet, OrphanInv, StartReady, Locked, Thread
      <3>4. \A i \in Instance : instances[i] # None => instances'[i] = instances[i]
        BY <1>9, <3>3 DEF StartCheck, TypeOK
      <3>5. proc[child[s]].st = "run" =>
               \E i \in Instance : instances'[i] # None /\ instances'[i].server_pid = child[s]
        <4> DEFINE r == [port |-> req[s].port, server_pid |-> child[s],
                         child |-> TRUE, app_pids |-> {}]
        <4>1. req[s].port \in Port
          BY <1>9 DEF StartCheck, LocalsSet, Locked, Thread
        <4>2. r \in InstanceRec /\ r.server_pid = child[s]
          BY <3>3, <4>1 DEF InstanceRec
        <4>3. proc[child[s]].st = "run" => instances'[req[s].inst] = r
          BY <1>9, <3>3 DEF StartCheck, TypeOK
        <4> HIDE DEF r
        <4> QED
          BY <3>3, <4>2, <4>3
      <3> QED
        BY <3>1, <3>2, <3>3, <3>4, <3>5 DEF OrphanInv, NoOrphanServer, Recorded
    <2>2. StartReady'
      BY <1>9
         DEF OrphanInv, StartReady, LockHeld, LocalsSet, Locked, DownIsIdle, Reaped,
             StartCheck, Goto, TypeOK, Thread, files, Waited, InstanceRec
    <2>3. DownEmpty'
      BY <1>9
         DEF OrphanInv, DownEmpty, DownIsIdle, StartCheck, Goto, TypeOK, Thread, files,
             Waited, LocalsSet, InstanceRec
    <2>4. FilesWhole'
      BY <1>9
         DEF OrphanInv, FilesWhole, NoFile, CutFile, Full, StartCheck, Goto, TypeOK,
             Thread, files, Waited, LocalsSet, InstanceRec
    <2> QED
      BY <2>1, <2>2, <2>3, <2>4 DEF OrphanInv
  <1>10. ASSUME NEW s \in Session, LaunchCheck(s)
        PROVE  OrphanInv'
    <2>1. NoOrphanServer'
      <3>1. /\ \A p \in Pid : proc'[p].st = "run" => proc[p] = proc'[p]
            /\ UNCHANGED <<daemon, victim, disk, lost>>
        BY <1>10 DEF LaunchCheck, Waited, NoProc, files
      <3>2. \A t \in Thread \ {s} : child'[t] = child[t]
        BY <1>10 DEF LaunchCheck, TypeOK, Thread
      <3>3. child'[s] = child[s] \/ proc[child[s]].st # "run"
        BY <1>10 DEF LaunchCheck
      <3>4. instances' = instances
        BY <1>10 DEF LaunchCheck
      <3> QED
        BY <3>1, <3>2, <3>3, <3>4 DEF OrphanInv, NoOrphanServer, Recorded
    <2>2. StartReady'
      BY <1>10
         DEF OrphanInv, StartReady, LockHeld, LocalsSet, Locked, DownIsIdle, Reaped,
             LaunchCheck, Goto, TypeOK, Thread, files, Waited
    <2>3. DownEmpty'
      BY <1>10
         DEF OrphanInv, DownEmpty, DownIsIdle, LaunchCheck, Goto, TypeOK, Thread,
             files, Waited, LocalsSet
    <2>4. FilesWhole'
      BY <1>10
         DEF OrphanInv, FilesWhole, NoFile, CutFile, Full, LaunchCheck, Goto, TypeOK,
             Thread, files, Waited, LocalsSet
    <2> QED
      BY <2>1, <2>2, <2>3, <2>4 DEF OrphanInv
  <1>11. ASSUME NEW s \in Session, Attach(s)
        PROVE  OrphanInv'
    <2>1. NoOrphanServer'
      BY <1>11
         DEF OrphanInv, NoOrphanServer, Recorded, OwnInv, ChildHeld, Held, VictimHeld,
             Pids, StartReady, DownEmpty, FilesWhole, Attach, Goto, TypeOK, Thread,
             files, LocalsSet, InstanceRec
    <2>2. StartReady'
      BY <1>11
         DEF OrphanInv, StartReady, LockHeld, LocalsSet, Locked, DownIsIdle, Reaped,
             Attach, Goto, TypeOK, Thread, files, InstanceRec
    <2>3. DownEmpty'
      BY <1>11
         DEF OrphanInv, DownEmpty, DownIsIdle, Attach, Goto, TypeOK, Thread, files,
             LocalsSet, InstanceRec
    <2>4. FilesWhole'
      BY <1>11
         DEF OrphanInv, FilesWhole, NoFile, CutFile, Full, Attach, Goto, TypeOK,
             Thread, files, LocalsSet, InstanceRec
    <2> QED
      BY <2>1, <2>2, <2>3, <2>4 DEF OrphanInv
  <1>12. ASSUME NEW t \in Thread, FlushSnap(t)
        PROVE  OrphanInv'
    <2>1. NoOrphanServer'
      BY <1>12
         DEF OrphanInv, NoOrphanServer, Recorded, OwnInv, ChildHeld, Held, VictimHeld,
             Pids, StartReady, DownEmpty, FilesWhole, FlushSnap, Goto, TypeOK,
             Thread, files
    <2>2. StartReady'
      BY <1>12
         DEF OrphanInv, StartReady, LockHeld, LocalsSet, Locked, DownIsIdle, Reaped,
             FlushSnap, Goto, TypeOK, Thread, files
    <2>3. DownEmpty'
      BY <1>12
         DEF OrphanInv, DownEmpty, DownIsIdle, FlushSnap, Goto, TypeOK, Thread, files
    <2>4. FilesWhole'
      BY <1>12
         DEF OrphanInv, FilesWhole, NoFile, CutFile, Full, FlushSnap, Goto, TypeOK,
             Thread, files
    <2> QED
      BY <2>1, <2>2, <2>3, <2>4 DEF OrphanInv
  <1>13. ASSUME NEW t \in Thread, FlushOpen(t)
        PROVE  OrphanInv'
    <2>1. NoOrphanServer'
      BY <1>13
         DEF OrphanInv, NoOrphanServer, Recorded, OwnInv, ChildHeld, Held, VictimHeld,
             Pids, StartReady, DownEmpty, FilesWhole, FlushOpen, Goto, TypeOK,
             Thread, files
    <2>2. StartReady'
      BY <1>13
         DEF OrphanInv, StartReady, LockHeld, LocalsSet, Locked, DownIsIdle, Reaped,
             FlushOpen, Goto, TypeOK, Thread, files
    <2>3. DownEmpty'
      BY <1>13
         DEF OrphanInv, DownEmpty, DownIsIdle, FlushOpen, Goto, TypeOK, Thread, files
    <2>4. FilesWhole'
      BY <1>13
         DEF OrphanInv, FilesWhole, NoFile, CutFile, Full, FlushOpen, Goto, TypeOK,
             Thread, files
    <2> QED
      BY <2>1, <2>2, <2>3, <2>4 DEF OrphanInv
  <1>14. ASSUME NEW t \in Thread, FlushWrite(t)
        PROVE  OrphanInv'
    <2>1. NoOrphanServer'
      <3>1. daemon # "down" /\ daemon' # "down"
        BY <1>14 DEF FlushWrite, DownIsIdle
      <3>2. UNCHANGED <<instances, victim, child, proc, lost>>
        BY <1>14 DEF FlushWrite
      <3> QED
        BY <3>1, <3>2 DEF OrphanInv, NoOrphanServer
    <2>2. StartReady'
      BY <1>14
         DEF OrphanInv, StartReady, LockHeld, LocalsSet, Locked, DownIsIdle, Reaped,
             FlushWrite, Goto, TypeOK, Thread, files
    <2>3. DownEmpty'
      BY <1>14
         DEF OrphanInv, DownEmpty, DownIsIdle, FlushWrite, Goto, TypeOK, Thread, files
    <2>4. FilesWhole'
      BY <1>14
         DEF OrphanInv, FilesWhole, NoFile, CutFile, Full, FlushWrite, Goto, TypeOK,
             Thread, files
    <2> QED
      BY <2>1, <2>2, <2>3, <2>4 DEF OrphanInv
  <1>15. ASSUME NEW t \in Thread, FlushRename(t)
        PROVE  OrphanInv'
    <2>1. NoOrphanServer'
      <3>1. daemon # "down" /\ daemon' # "down"
        BY <1>15 DEF FlushRename, DownIsIdle, FlushDone
      <3>2. UNCHANGED <<instances, victim, child, proc, lost>>
        BY <1>15 DEF FlushRename
      <3> QED
        BY <3>1, <3>2 DEF OrphanInv, NoOrphanServer
    <2>2. StartReady'
      BY <1>15
         DEF OrphanInv, StartReady, LockHeld, LocalsSet, Locked, DownIsIdle, Reaped,
             FlushRename, Goto, TypeOK, Thread, files, FlushDone
    <2>3. DownEmpty'
      BY <1>15
         DEF OrphanInv, DownEmpty, DownIsIdle, FlushRename, Goto, TypeOK, Thread,
             files, FlushDone
    <2>4. FilesWhole'
      BY <1>15
         DEF OrphanInv, FilesWhole, NoFile, CutFile, Full, FlushRename, Goto, TypeOK,
             Thread, files, FlushDone
    <2> QED
      BY <2>1, <2>2, <2>3, <2>4 DEF OrphanInv
  <1>16. ASSUME NEW t \in Thread, FlushFail(t)
        PROVE  OrphanInv'
    <2>1. NoOrphanServer'
      <3>1. daemon # "down" /\ daemon' # "down"
        BY <1>16 DEF FlushFail, DownIsIdle, FlushDone
      <3>2. UNCHANGED <<instances, victim, child, proc, lost>>
        BY <1>16 DEF FlushFail
      <3> QED
        BY <3>1, <3>2 DEF OrphanInv, NoOrphanServer
    <2>2. StartReady'
      BY <1>16
         DEF OrphanInv, StartReady, LockHeld, LocalsSet, Locked, DownIsIdle, Reaped,
             FlushFail, Goto, TypeOK, Thread, files, FlushDone
    <2>3. DownEmpty'
      BY <1>16
         DEF OrphanInv, DownEmpty, DownIsIdle, FlushFail, Goto, TypeOK, Thread, files,
             FlushDone
    <2>4. FilesWhole'
      BY <1>16
         DEF OrphanInv, FilesWhole, NoFile, CutFile, Full, FlushFail, Goto, TypeOK,
             Thread, files, FlushDone
    <2> QED
      BY <2>1, <2>2, <2>3, <2>4 DEF OrphanInv
  <1>17. ASSUME Crash
        PROVE  OrphanInv'
    <2>1. NoOrphanServer'
      BY <1>17
         DEF OrphanInv, NoOrphanServer, Recorded, OwnInv, ChildHeld, Held, VictimHeld,
             Pids, StartReady, DownEmpty, FilesWhole, Crash, Goto, TypeOK, Thread,
             files, NoEntries, NoProc, Process
    <2>2. StartReady'
      BY <1>17
         DEF OrphanInv, StartReady, LockHeld, LocalsSet, Locked, DownIsIdle, Reaped,
             Crash, Goto, TypeOK, Thread, files, NoEntries, NoProc, Process
    <2>3. DownEmpty'
      BY <1>17
         DEF OrphanInv, DownEmpty, DownIsIdle, Crash, Goto, TypeOK, Thread, files,
             NoEntries, NoProc, Process
    <2>4. FilesWhole'
      BY <1>17
         DEF OrphanInv, FilesWhole, NoFile, CutFile, Full, Crash, Goto, TypeOK, Thread,
             files, NoEntries, NoProc, Process
    <2> QED
      BY <2>1, <2>2, <2>3, <2>4 DEF OrphanInv
  <1>18. ASSUME Restart
        PROVE  OrphanInv'
    <2>1. NoOrphanServer'
      <3>1. ASSUME NEW p \in Pid, proc[p].st = "run", proc[p].kind = "server", p \notin lost
            PROVE  \E i \in Instance : instances'[i] # None /\ instances'[i].server_pid = p
        <4>1. \A t \in Thread : child[t] = None /\ victim[t] = None
          BY <1>18 DEF Restart, DownIsIdle, OwnInv, ChildHeld, VictimHeld
        <4>2. \A i \in Instance : instances[i] = None
          BY <1>18 DEF Restart, OrphanInv, DownEmpty, NoEntries
        <4>3. p \in Recorded
          BY <3>1, <4>1, <4>2 DEF OrphanInv, NoOrphanServer
        <4>4. PICK i \in Instance : disk.snap[i] # None /\ disk.snap[i].server_pid = p
          BY <4>3 DEF Recorded
        <4>5. disk.state = "full"
          BY <4>4 DEF OrphanInv, FilesWhole, NoEntries
        <4>6. instances'[i] = Recover(disk.snap[i])
          BY <1>18, <4>5 DEF Restart
        <4>7. disk.snap[i] \in InstanceSnapshot
          BY <4>4 DEF TypeOK, File, Snapshot
        <4>8. Recover(disk.snap[i]) \in InstanceRec /\ Recover(disk.snap[i]).server_pid = p
          BY <3>1, <4>4, <4>7 DEF Recover, pid_alive, InstanceSnapshot, InstanceRec
        <4> QED
          BY <4>6, <4>8
      <3>2. proc' = proc /\ lost' = lost
        BY <1>18 DEF Restart
      <3> QED
        BY <3>1, <3>2 DEF NoOrphanServer
    <2>2. StartReady'
      BY <1>18
         DEF OrphanInv, StartReady, LockHeld, LocalsSet, Locked, DownIsIdle, Reaped,
             Restart, Goto, TypeOK, Thread, files, Recover, NoEntries, File,
             Snapshot, InstanceSnapshot, pid_alive
    <2>3. DownEmpty'
      BY <1>18
         DEF OrphanInv, DownEmpty, DownIsIdle, Restart, Goto, TypeOK, Thread, files,
             Recover, NoEntries, File, Snapshot, InstanceSnapshot, pid_alive
    <2>4. FilesWhole'
      BY <1>18
         DEF OrphanInv, FilesWhole, NoFile, CutFile, Full, Restart, Goto, TypeOK,
             Thread, files, Recover, DownIsIdle, NoEntries, File, Snapshot,
             InstanceSnapshot, pid_alive
    <2> QED
      BY <2>1, <2>2, <2>3, <2>4 DEF OrphanInv
  <1>19. ASSUME NEW p \in Pid, ProcExit(p)
        PROVE  OrphanInv'
    <2>1. NoOrphanServer'
      BY <1>19
         DEF OrphanInv, NoOrphanServer, Recorded, OwnInv, ChildHeld, Held, VictimHeld,
             Pids, StartReady, DownEmpty, FilesWhole, ProcExit, Goto, TypeOK,
             Thread, files, Ended, NoProc, pid_alive, Process
    <2>2. StartReady'
      BY <1>19
         DEF OrphanInv, StartReady, LockHeld, LocalsSet, Locked, DownIsIdle, Reaped,
             ProcExit, Goto, TypeOK, Thread, files, Ended, NoProc, pid_alive,
             Process
    <2>3. DownEmpty'
      BY <1>19
         DEF OrphanInv, DownEmpty, DownIsIdle, ProcExit, Goto, TypeOK, Thread, files,
             Ended, NoProc, pid_alive, Process
    <2>4. FilesWhole'
      BY <1>19
         DEF OrphanInv, FilesWhole, NoFile, CutFile, Full, ProcExit, Goto, TypeOK,
             Thread, files, Ended, NoProc, pid_alive, Process
    <2> QED
      BY <2>1, <2>2, <2>3, <2>4 DEF OrphanInv
  <1>20. ASSUME NEW p \in Pid, ForeignSpawn(p)
        PROVE  OrphanInv'
    <2>1. NoOrphanServer'
      BY <1>20
         DEF OrphanInv, NoOrphanServer, Recorded, OwnInv, ChildHeld, Held, VictimHeld,
             Pids, StartReady, DownEmpty, FilesWhole, ForeignSpawn, Goto, TypeOK,
             Thread, files, FreePid
    <2>2. StartReady'
      BY <1>20
         DEF OrphanInv, StartReady, LockHeld, LocalsSet, Locked, DownIsIdle, Reaped,
             ForeignSpawn, Goto, TypeOK, Thread, files, FreePid
    <2>3. DownEmpty'
      BY <1>20
         DEF OrphanInv, DownEmpty, DownIsIdle, ForeignSpawn, Goto, TypeOK, Thread,
             files, FreePid
    <2>4. FilesWhole'
      BY <1>20
         DEF OrphanInv, FilesWhole, NoFile, CutFile, Full, ForeignSpawn, Goto, TypeOK,
             Thread, files, FreePid
    <2> QED
      BY <2>1, <2>2, <2>3, <2>4 DEF OrphanInv
  <1> QED
    BY <1>1, <1>2, <1>3, <1>4, <1>5, <1>6, <1>7, <1>8, <1>9, <1>10, <1>11, <1>12, <1>13,
       <1>14, <1>15, <1>16, <1>17, <1>18, <1>19, <1>20
       DEF Next, Arrival, SessionStep, FlushStep

-----------------------------------------------------------------------------
(* The file, when no two flushes overlap.                                  *)
(*                                                                         *)
(* flush() writes without the mutex, so NoTornState and TrackedIsDurable   *)
(* hold only while one session is served at a time.  Then the startup      *)
(* flush and the session's are the only ones, and never at once.           *)

OneSession == \A s, t \in Session : s = t

\* The main thread flushes before the daemon accepts, sessions run after.
InTurn ==
    /\ pc[Main] \in Flushing \cup {"idle"}
    /\ pc[Main] # "idle" => daemon = "starting"
    /\ \A s \in Session : pc[s] # "idle" => daemon = "up"
    /\ daemon = "starting" => pc[Main] # "idle"

\* The temporary file is what the one flush under way has made of it.
WholeWrite ==
    \A t \in Thread :
        /\ fd[t] = IF pc[t] = "f_write" THEN "tmp" ELSE "closed"
        /\ pc[t] = "f_rename" => tmp = Full(snap[t])

NeverTorn == disk.state # "empty"

TornInv == InTurn /\ WholeWrite /\ NeverTorn

\* One thread at a time is inside the daemon.
LEMMA Alone ==
    ASSUME OneSession, InTurn
    PROVE  \A t, u \in Thread : pc[t] # "idle" /\ pc[u] # "idle" => t = u
  BY DEF OneSession, InTurn, Thread

\* One flush at a time keeps the temporary file its own from open to rename.
LEMMA TornStep ==
    ASSUME OneSession, TypeOK, DownIsIdle, TornInv, Next
    PROVE  TornInv'

  <1>1. ASSUME NEW s \in Session, NEW i \in Instance, NEW p \in Port, StartConflict(s, i, p)
        PROVE  TornInv'
    <2>1. InTurn'
      BY <1>1, ConstantsAssumption, Alone
         DEF TornInv, InTurn, Flushing, DownIsIdle, StartConflict, Goto, TypeOK,
             Thread, files, Accepts
    <2>2. WholeWrite'
      BY <1>1, ConstantsAssumption, Alone
         DEF TornInv, WholeWrite, Full, StartConflict, Goto, TypeOK, Thread, files,
             Accepts
    <2>3. NeverTorn'
      BY <1>1, ConstantsAssumption, Alone
         DEF TornInv, NeverTorn, WholeWrite, Full, CutFile, StartConflict, Goto,
             TypeOK, Thread, files, Accepts
    <2> QED
      BY <2>1, <2>2, <2>3 DEF TornInv
  <1>2. ASSUME NEW s \in Session, NEW i \in Instance, NEW p \in Port, StartInstance(s, i, p)
        PROVE  TornInv'
    <2>1. InTurn'
      BY <1>2, ConstantsAssumption, Alone
         DEF TornInv, InTurn, Flushing, DownIsIdle, StartInstance, Goto, TypeOK,
             Thread, files, Accepts
    <2>2. WholeWrite'
      BY <1>2, ConstantsAssumption, Alone
         DEF TornInv, WholeWrite, Full, StartInstance, Goto, TypeOK, Thread, files,
             Accepts
    <2>3. NeverTorn'
      BY <1>2, ConstantsAssumption, Alone
         DEF TornInv, NeverTorn, WholeWrite, Full, CutFile, StartInstance, Goto,
             TypeOK, Thread, files, Accepts
    <2> QED
      BY <2>1, <2>2, <2>3 DEF TornInv
  <1>3. ASSUME NEW s \in Session, NEW i \in Instance, StopInstance(s, i)
        PROVE  TornInv'
    <2>1. InTurn'
      BY <1>3, ConstantsAssumption, Alone
         DEF TornInv, InTurn, Flushing, DownIsIdle, StopInstance, Goto, TypeOK, Thread,
             files, Accepts
    <2>2. WholeWrite'
      BY <1>3, ConstantsAssumption, Alone
         DEF TornInv, WholeWrite, Full, StopInstance, Goto, TypeOK, Thread, files,
             Accepts
    <2>3. NeverTorn'
      BY <1>3, ConstantsAssumption, Alone
         DEF TornInv, NeverTorn, WholeWrite, Full, StopInstance, Goto, TypeOK, Thread,
             files, Accepts
    <2> QED
      BY <2>1, <2>2, <2>3 DEF TornInv
  <1>4. ASSUME NEW s \in Session, NEW i \in Instance, LaunchApp(s, i)
        PROVE  TornInv'
    <2>1. InTurn'
      BY <1>4, ConstantsAssumption, Alone
         DEF TornInv, InTurn, Flushing, DownIsIdle, LaunchApp, Goto, TypeOK, Thread,
             files, Accepts
    <2>2. WholeWrite'
      BY <1>4, ConstantsAssumption, Alone
         DEF TornInv, WholeWrite, Full, LaunchApp, Goto, TypeOK, Thread, files, Accepts
    <2>3. NeverTorn'
      BY <1>4, ConstantsAssumption, Alone
         DEF TornInv, NeverTorn, WholeWrite, Full, CutFile, LaunchApp, Goto, TypeOK,
             Thread, files, Accepts
    <2> QED
      BY <2>1, <2>2, <2>3 DEF TornInv
  <1>5. ASSUME NEW s \in Session, Status(s)
        PROVE  TornInv'
    <2>1. InTurn'
      BY <1>5, ConstantsAssumption, Alone
         DEF TornInv, InTurn, Flushing, DownIsIdle, Status, Goto, TypeOK, Thread,
             files, Accepts
    <2>2. WholeWrite'
      BY <1>5, ConstantsAssumption, Alone
         DEF TornInv, WholeWrite, Full, Status, Goto, TypeOK, Thread, files, Accepts
    <2>3. NeverTorn'
      BY <1>5, ConstantsAssumption, Alone
         DEF TornInv, NeverTorn, WholeWrite, Full, CutFile, Status, Goto, TypeOK,
             Thread, files, Accepts
    <2> QED
      BY <2>1, <2>2, <2>3 DEF TornInv
  <1>6. ASSUME NEW s \in Session, KillVictim(s)
        PROVE  TornInv'
    <2>1. InTurn'
      BY <1>6, ConstantsAssumption, Alone
         DEF TornInv, InTurn, Flushing, DownIsIdle, KillVictim, Goto, TypeOK, Thread,
             files
    <2>2. WholeWrite'
      BY <1>6, ConstantsAssumption, Alone
         DEF TornInv, WholeWrite, Full, KillVictim, Goto, TypeOK, Thread, files
    <2>3. NeverTorn'
      BY <1>6, ConstantsAssumption, Alone
         DEF TornInv, NeverTorn, WholeWrite, Full, CutFile, KillVictim, Goto, TypeOK,
             Thread, files
    <2> QED
      BY <2>1, <2>2, <2>3 DEF TornInv
  <1>7. ASSUME NEW s \in Session, SpawnFail(s)
        PROVE  TornInv'
    <2>1. InTurn'
      BY <1>7, ConstantsAssumption, Alone
         DEF TornInv, InTurn, Flushing, DownIsIdle, SpawnFail, Goto, TypeOK, Thread,
             files
    <2>2. WholeWrite'
      BY <1>7, ConstantsAssumption, Alone
         DEF TornInv, WholeWrite, Full, SpawnFail, Goto, TypeOK, Thread, files
    <2>3. NeverTorn'
      BY <1>7, ConstantsAssumption, Alone
         DEF TornInv, NeverTorn, WholeWrite, Full, CutFile, SpawnFail, Goto, TypeOK,
             Thread, files
    <2> QED
      BY <2>1, <2>2, <2>3 DEF TornInv
  <1>8. ASSUME NEW s \in Session, SpawnServer(s)
        PROVE  TornInv'
    <2>1. InTurn'
      BY <1>8, ConstantsAssumption, Alone
         DEF TornInv, InTurn, Flushing, DownIsIdle, SpawnServer, Goto, TypeOK, Thread,
             files
    <2>2. WholeWrite'
      BY <1>8, ConstantsAssumption, Alone
         DEF TornInv, WholeWrite, Full, SpawnServer, Goto, TypeOK, Thread, files
    <2>3. NeverTorn'
      BY <1>8, ConstantsAssumption, Alone
         DEF TornInv, NeverTorn, WholeWrite, Full, CutFile, SpawnServer, Goto, TypeOK,
             Thread, files
    <2> QED
      BY <2>1, <2>2, <2>3 DEF TornInv
  <1>9. ASSUME NEW s \in Session, StartCheck(s)
        PROVE  TornInv'
    <2>1. InTurn'
      BY <1>9, ConstantsAssumption, Alone
         DEF TornInv, InTurn, Flushing, DownIsIdle, StartCheck, Goto, TypeOK, Thread,
             files
    <2>2. WholeWrite'
      BY <1>9, ConstantsAssumption, Alone
         DEF TornInv, WholeWrite, Full, StartCheck, Goto, TypeOK, Thread, files
    <2>3. NeverTorn'
      BY <1>9, ConstantsAssumption, Alone
         DEF TornInv, NeverTorn, WholeWrite, Full, CutFile, StartCheck, Goto, TypeOK,
             Thread, files
    <2> QED
      BY <2>1, <2>2, <2>3 DEF TornInv
  <1>10. ASSUME NEW s \in Session, LaunchCheck(s)
        PROVE  TornInv'
    <2>1. InTurn'
      BY <1>10, ConstantsAssumption, Alone
         DEF TornInv, InTurn, Flushing, DownIsIdle, LaunchCheck, Goto, TypeOK, Thread,
             files
    <2>2. WholeWrite'
      BY <1>10, ConstantsAssumption, Alone
         DEF TornInv, WholeWrite, Full, LaunchCheck, Goto, TypeOK, Thread, files
    <2>3. NeverTorn'
      BY <1>10, ConstantsAssumption, Alone
         DEF TornInv, NeverTorn, WholeWrite, Full, CutFile, LaunchCheck, Goto, TypeOK,
             Thread, files
    <2> QED
      BY <2>1, <2>2, <2>3 DEF TornInv
  <1>11. ASSUME NEW s \in Session, Attach(s)
        PROVE  TornInv'
    <2>1. InTurn'
      BY <1>11, ConstantsAssumption, Alone
         DEF TornInv, InTurn, Flushing, DownIsIdle, Attach, Goto, TypeOK, Thread, files
    <2>2. WholeWrite'
      BY <1>11, ConstantsAssumption, Alone
         DEF TornInv, WholeWrite, Full, Attach, Goto, TypeOK, Thread, files
    <2>3. NeverTorn'
      BY <1>11, ConstantsAssumption, Alone
         DEF TornInv, NeverTorn, WholeWrite, Full, CutFile, Attach, Goto, TypeOK,
             Thread, files
    <2> QED
      BY <2>1, <2>2, <2>3 DEF TornInv
  <1>12. ASSUME NEW t \in Thread, FlushSnap(t)
        PROVE  TornInv'
    <2>1. InTurn'
      BY <1>12, ConstantsAssumption, Alone
         DEF TornInv, InTurn, Flushing, DownIsIdle, FlushSnap, Goto, TypeOK, Thread,
             files
    <2>2. WholeWrite'
      BY <1>12, ConstantsAssumption, Alone
         DEF TornInv, WholeWrite, Full, FlushSnap, Goto, TypeOK, Thread, files
    <2>3. NeverTorn'
      BY <1>12, ConstantsAssumption, Alone
         DEF TornInv, NeverTorn, WholeWrite, Full, CutFile, FlushSnap, Goto, TypeOK,
             Thread, files
    <2> QED
      BY <2>1, <2>2, <2>3 DEF TornInv
  <1>13. ASSUME NEW t \in Thread, FlushOpen(t)
        PROVE  TornInv'
    <2>1. InTurn'
      BY <1>13, ConstantsAssumption, Alone
         DEF TornInv, InTurn, Flushing, DownIsIdle, FlushOpen, Goto, TypeOK, Thread,
             files
    <2>2. WholeWrite'
      BY <1>13, ConstantsAssumption, Alone
         DEF TornInv, WholeWrite, Full, FlushOpen, Goto, TypeOK, Thread, files
    <2>3. NeverTorn'
      BY <1>13, ConstantsAssumption, Alone
         DEF TornInv, NeverTorn, WholeWrite, Full, CutFile, FlushOpen, Goto, TypeOK,
             Thread, files
    <2> QED
      BY <2>1, <2>2, <2>3 DEF TornInv
  <1>14. ASSUME NEW t \in Thread, FlushWrite(t)
        PROVE  TornInv'
    <2>1. InTurn'
      BY <1>14, ConstantsAssumption, Alone
         DEF TornInv, InTurn, Flushing, DownIsIdle, FlushWrite, Goto, TypeOK, Thread,
             files
    <2>2. WholeWrite'
      BY <1>14, ConstantsAssumption, Alone
         DEF TornInv, WholeWrite, Full, FlushWrite, Goto, TypeOK, Thread, files
    <2>3. NeverTorn'
      BY <1>14, ConstantsAssumption, Alone
         DEF TornInv, NeverTorn, WholeWrite, Full, CutFile, FlushWrite, Goto, TypeOK,
             Thread, files
    <2> QED
      BY <2>1, <2>2, <2>3 DEF TornInv
  <1>15. ASSUME NEW t \in Thread, FlushRename(t)
        PROVE  TornInv'
    <2>1. InTurn'
      BY <1>15, ConstantsAssumption, Alone
         DEF TornInv, InTurn, Flushing, DownIsIdle, FlushRename, Goto, TypeOK, Thread,
             files, FlushDone
    <2>2. WholeWrite'
      <3>1. \A u \in Thread : u # t => pc[u] = "idle" /\ fd[u] = "closed"
        BY <1>15, Alone DEF FlushRename, TornInv, WholeWrite
      <3>2. fd[t] = "closed"
        BY <1>15 DEF FlushRename, TornInv, WholeWrite
      <3>3. fd' = fd
        <4>1. fd = [u \in Thread |-> fd[u]]
          BY DEF TypeOK
        <4>2. \A u \in Thread : fd[u] = "closed"
          BY <3>1, <3>2
        <4>3. CASE tmp.state = "missing"
          BY <1>15, <4>3 DEF FlushRename
        <4>4. CASE tmp.state # "missing"
          <5>1. fd' = [u \in Thread |-> CASE fd[u] = "disk" -> "gone"
                                          [] fd[u] = "tmp"  -> "disk"
                                          [] OTHER          -> fd[u]]
            BY <1>15, <4>4 DEF FlushRename
          <5>2. \A u \in Thread : fd'[u] = fd[u]
            BY <4>2, <5>1, Zenon
          <5> QED
            BY <4>1, <5>1, <5>2, Zenon
        <4> QED
          BY <4>3, <4>4
      <3>4. pc' = [pc EXCEPT ![t] = "idle"]
        BY <1>15 DEF FlushRename, FlushDone, Goto
      <3> QED
        BY <3>1, <3>2, <3>3, <3>4 DEF WholeWrite, TypeOK
    <2>3. NeverTorn'
      BY <1>15, ConstantsAssumption, Alone
         DEF TornInv, NeverTorn, WholeWrite, Full, CutFile, FlushRename, Goto, TypeOK,
             Thread, files, FlushDone
    <2> QED
      BY <2>1, <2>2, <2>3 DEF TornInv
  <1>16. ASSUME NEW t \in Thread, FlushFail(t)
        PROVE  TornInv'
    <2>1. InTurn'
      BY <1>16, ConstantsAssumption, Alone
         DEF TornInv, InTurn, Flushing, DownIsIdle, FlushFail, Goto, TypeOK, Thread,
             files, FlushDone
    <2>2. WholeWrite'
      BY <1>16, ConstantsAssumption, Alone
         DEF TornInv, WholeWrite, Full, FlushFail, Goto, TypeOK, Thread, files,
             FlushDone
    <2>3. NeverTorn'
      BY <1>16, ConstantsAssumption, Alone
         DEF TornInv, NeverTorn, WholeWrite, Full, CutFile, FlushFail, Goto, TypeOK,
             Thread, files, FlushDone
    <2> QED
      BY <2>1, <2>2, <2>3 DEF TornInv
  <1>17. ASSUME Crash
        PROVE  TornInv'
    <2>1. InTurn'
      BY <1>17, ConstantsAssumption, Alone
         DEF TornInv, InTurn, Flushing, DownIsIdle, Crash, Goto, TypeOK, Thread, files
    <2>2. WholeWrite'
      BY <1>17, ConstantsAssumption, Alone
         DEF TornInv, WholeWrite, Full, Crash, Goto, TypeOK, Thread, files
    <2>3. NeverTorn'
      BY <1>17, ConstantsAssumption, Alone
         DEF TornInv, NeverTorn, WholeWrite, Full, CutFile, Crash, Goto, TypeOK,
             Thread, files
    <2> QED
      BY <2>1, <2>2, <2>3 DEF TornInv
  <1>18. ASSUME Restart
        PROVE  TornInv'
    <2>1. InTurn'
      BY <1>18, ConstantsAssumption, Alone
         DEF TornInv, InTurn, Flushing, DownIsIdle, Restart, Goto, TypeOK, Thread,
             files
    <2>2. WholeWrite'
      BY <1>18, ConstantsAssumption, Alone
         DEF TornInv, WholeWrite, Full, Restart, Goto, TypeOK, Thread, files,
             DownIsIdle
    <2>3. NeverTorn'
      BY <1>18, ConstantsAssumption, Alone
         DEF TornInv, NeverTorn, WholeWrite, Full, CutFile, Restart, Goto, TypeOK,
             Thread, files, DownIsIdle
    <2> QED
      BY <2>1, <2>2, <2>3 DEF TornInv
  <1>19. ASSUME NEW p \in Pid, ProcExit(p)
        PROVE  TornInv'
    <2>1. InTurn'
      BY <1>19, ConstantsAssumption, Alone
         DEF TornInv, InTurn, Flushing, DownIsIdle, ProcExit, Goto, TypeOK, Thread,
             files
    <2>2. WholeWrite'
      BY <1>19, ConstantsAssumption, Alone
         DEF TornInv, WholeWrite, Full, ProcExit, Goto, TypeOK, Thread, files
    <2>3. NeverTorn'
      BY <1>19, ConstantsAssumption, Alone
         DEF TornInv, NeverTorn, WholeWrite, Full, CutFile, ProcExit, Goto, TypeOK,
             Thread, files
    <2> QED
      BY <2>1, <2>2, <2>3 DEF TornInv
  <1>20. ASSUME NEW p \in Pid, ForeignSpawn(p)
        PROVE  TornInv'
    <2>1. InTurn'
      BY <1>20, ConstantsAssumption, Alone
         DEF TornInv, InTurn, Flushing, DownIsIdle, ForeignSpawn, Goto, TypeOK, Thread,
             files
    <2>2. WholeWrite'
      BY <1>20, ConstantsAssumption, Alone
         DEF TornInv, WholeWrite, Full, ForeignSpawn, Goto, TypeOK, Thread, files
    <2>3. NeverTorn'
      BY <1>20, ConstantsAssumption, Alone
         DEF TornInv, NeverTorn, WholeWrite, Full, CutFile, ForeignSpawn, Goto, TypeOK,
             Thread, files
    <2> QED
      BY <2>1, <2>2, <2>3 DEF TornInv
  <1> QED
    BY <1>1, <1>2, <1>3, <1>4, <1>5, <1>6, <1>7, <1>8, <1>9, <1>10, <1>11, <1>12, <1>13,
       <1>14, <1>15, <1>16, <1>17, <1>18, <1>19, <1>20
       DEF Next, Arrival, SessionStep, FlushStep

Durable(i) == instances[i] # None => SnapshotOf(instances)[i] = disk.snap[i]

\* A flush under way writes the map as it is; without one the file has it.
WritesMap ==
    /\ \A t \in Thread : pc[t] \in {"f_open", "f_write", "f_rename"} =>
                            snap[t] = SnapshotOf(instances)
    /\ (\A t \in Thread : pc[t] \notin Flushing) => \A i \in Instance : Durable(i)

\* A session that runs alone leaves the file to its flush: what it changes in
\* the map without one, it only removes.
LEMMA SessionWrites ==
    ASSUME NEW s \in Session, WritesMap,
           pc[s] \notin Flushing,
           \A t \in Thread : t # s => pc[t] = "idle" /\ pc'[t] = "idle",
           pc'[s] \notin {"f_open", "f_write", "f_rename"},
           pc'[s] \notin Flushing =>
              \A i \in Instance : instances'[i] # None => instances'[i] = instances[i],
           disk' = disk
    PROVE  WritesMap'
  <1>1. \A t \in Thread : pc[t] \notin Flushing
    BY DEF Flushing
  <1>2. \A t \in Thread : pc'[t] \notin {"f_open", "f_write", "f_rename"}
    OBVIOUS
  <1>3. ASSUME \A t \in Thread : pc'[t] \notin Flushing, NEW i \in Instance, instances'[i] # None
        PROVE  SnapshotOf(instances')[i] = disk'.snap[i]
    <2>1. instances'[i] = instances[i]
      BY <1>3 DEF Thread
    <2>2. SnapshotOf(instances)[i] = disk.snap[i]
      BY <1>1, <1>3, <2>1 DEF WritesMap, Durable
    <2>3. SnapshotOf(instances')[i] = SnapshotOf(instances)[i]
      BY <2>1 DEF SnapshotOf
    <2> QED
      BY <2>2, <2>3
  <1> QED
    BY <1>2, <1>3 DEF WritesMap, Durable

\* Every flush writes the map as it is, and every change that can matter to a
\* restart is followed by a flush.
LEMMA DurableStep ==
    ASSUME OneSession, ~DiskFaults, TypeOK, DownIsIdle, TornInv, DownEmpty, WritesMap, Next
    PROVE  WritesMap'

  <1>1. ASSUME NEW s \in Session, NEW i \in Instance, NEW p \in Port, StartConflict(s, i, p)
        PROVE  WritesMap'
    <2>1. pc[s] = "idle" /\ \A t \in Thread : t # s => pc[t] = "idle"
      BY <1>1 DEF StartConflict, Accepts, OneSession, TornInv, InTurn, Thread
    <2>2. /\ \A t \in Thread : t # s => pc'[t] = pc[t]
          /\ pc'[s] \notin {"f_open", "f_write", "f_rename"}
          /\ disk' = disk
      BY <1>1, <2>1 DEF StartConflict, Goto, TypeOK, Thread, files
    <2>3. pc'[s] \notin Flushing =>
             \A j \in Instance : instances'[j] # None => instances'[j] = instances[j]
      BY <1>1, ReapTypes DEF StartConflict, Goto, TypeOK, Thread, Reaped, Flushing
    <2> QED
      BY <2>1, <2>2, <2>3, SessionWrites DEF Flushing
  <1>2. ASSUME NEW s \in Session, NEW i \in Instance, NEW p \in Port, StartInstance(s, i, p)
        PROVE  WritesMap'
    <2>1. pc[s] = "idle" /\ \A t \in Thread : t # s => pc[t] = "idle"
      BY <1>2 DEF StartInstance, Accepts, OneSession, TornInv, InTurn, Thread
    <2>2. /\ \A t \in Thread : t # s => pc'[t] = pc[t]
          /\ pc'[s] \notin {"f_open", "f_write", "f_rename"}
          /\ disk' = disk
      BY <1>2, <2>1 DEF StartInstance, Goto, TypeOK, Thread, files
    <2>3. pc'[s] \notin Flushing =>
             \A j \in Instance : instances'[j] # None => instances'[j] = instances[j]
      BY <1>2, ReapTypes DEF StartInstance, Goto, TypeOK, Thread, Map
    <2> QED
      BY <2>1, <2>2, <2>3, SessionWrites DEF Flushing
  <1>3. ASSUME NEW s \in Session, NEW i \in Instance, StopInstance(s, i)
        PROVE  WritesMap'
    <2>1. pc[s] = "idle" /\ \A t \in Thread : t # s => pc[t] = "idle"
      BY <1>3 DEF StopInstance, Accepts, OneSession, TornInv, InTurn, Thread
    <2>2. /\ \A t \in Thread : t # s => pc'[t] = pc[t]
          /\ pc'[s] \notin {"f_open", "f_write", "f_rename"}
          /\ disk' = disk
      BY <1>3, <2>1 DEF StopInstance, Goto, TypeOK, Thread, files
    <2>3. pc'[s] \notin Flushing =>
             \A j \in Instance : instances'[j] # None => instances'[j] = instances[j]
      BY <1>3 DEF StopInstance, Goto, TypeOK, Thread
    <2> QED
      BY <2>1, <2>2, <2>3, SessionWrites DEF Flushing
  <1>4. ASSUME NEW s \in Session, NEW i \in Instance, LaunchApp(s, i)
        PROVE  WritesMap'
    <2>1. pc[s] = "idle" /\ \A t \in Thread : t # s => pc[t] = "idle"
      BY <1>4 DEF LaunchApp, Accepts, OneSession, TornInv, InTurn, Thread
    <2>2. /\ \A t \in Thread : t # s => pc'[t] = pc[t]
          /\ pc'[s] \notin {"f_open", "f_write", "f_rename"}
          /\ disk' = disk
      BY <1>4, <2>1 DEF LaunchApp, Goto, TypeOK, Thread, files
    <2>3. pc'[s] \notin Flushing =>
             \A j \in Instance : instances'[j] # None => instances'[j] = instances[j]
      BY <1>4 DEF LaunchApp, Goto, TypeOK, Thread
    <2> QED
      BY <2>1, <2>2, <2>3, SessionWrites DEF Flushing
  <1>5. ASSUME NEW s \in Session, Status(s)
        PROVE  WritesMap'
    <2>1. pc[s] = "idle" /\ \A t \in Thread : t # s => pc[t] = "idle"
      BY <1>5 DEF Status, Accepts, OneSession, TornInv, InTurn, Thread
    <2>2. /\ \A t \in Thread : t # s => pc'[t] = pc[t]
          /\ pc'[s] \notin {"f_open", "f_write", "f_rename"}
          /\ disk' = disk
      BY <1>5, <2>1 DEF Status, Goto, TypeOK, Thread, files
    <2>3. pc'[s] \notin Flushing =>
             \A j \in Instance : instances'[j] # None => instances'[j] = instances[j]
      BY <1>5 DEF Status, Goto, TypeOK, Thread, Flushing
    <2> QED
      BY <2>1, <2>2, <2>3, SessionWrites DEF Flushing
  <1>6. ASSUME NEW s \in Session, KillVictim(s)
        PROVE  WritesMap'
    <2>1. pc[s] \notin Flushing /\ \A t \in Thread : t # s => pc[t] = "idle"
      BY <1>6, Alone DEF KillVictim, TornInv, Flushing, Thread
    <2>2. /\ \A t \in Thread : t # s => pc'[t] = pc[t]
          /\ pc'[s] \notin {"f_open", "f_write", "f_rename"}
          /\ disk' = disk
      BY <1>6, <2>1 DEF KillVictim, Goto, TypeOK, Thread, files
    <2>3. pc'[s] \notin Flushing =>
             \A j \in Instance : instances'[j] # None => instances'[j] = instances[j]
      BY <1>6 DEF KillVictim, Goto, TypeOK, Thread
    <2> QED
      BY <2>1, <2>2, <2>3, SessionWrites DEF Flushing
  <1>7. ASSUME NEW s \in Session, SpawnFail(s)
        PROVE  WritesMap'
    <2>1. pc[s] \notin Flushing /\ \A t \in Thread : t # s => pc[t] = "idle"
      BY <1>7, Alone DEF SpawnFail, TornInv, Flushing, Thread
    <2>2. /\ \A t \in Thread : t # s => pc'[t] = pc[t]
          /\ pc'[s] \notin {"f_open", "f_write", "f_rename"}
          /\ disk' = disk
      BY <1>7, <2>1 DEF SpawnFail, Goto, TypeOK, Thread, files
    <2>3. pc'[s] \notin Flushing =>
             \A j \in Instance : instances'[j] # None => instances'[j] = instances[j]
      BY <1>7 DEF SpawnFail, Goto, TypeOK, Thread
    <2> QED
      BY <2>1, <2>2, <2>3, SessionWrites DEF Flushing
  <1>8. ASSUME NEW s \in Session, SpawnServer(s)
        PROVE  WritesMap'
    <2>1. pc[s] \notin Flushing /\ \A t \in Thread : t # s => pc[t] = "idle"
      BY <1>8, Alone DEF SpawnServer, TornInv, Flushing, Thread
    <2>2. /\ \A t \in Thread : t # s => pc'[t] = pc[t]
          /\ pc'[s] \notin {"f_open", "f_write", "f_rename"}
          /\ disk' = disk
      BY <1>8, <2>1 DEF SpawnServer, Goto, TypeOK, Thread, files
    <2>3. pc'[s] \notin Flushing =>
             \A j \in Instance : instances'[j] # None => instances'[j] = instances[j]
      BY <1>8 DEF SpawnServer, Goto, TypeOK, Thread
    <2> QED
      BY <2>1, <2>2, <2>3, SessionWrites DEF Flushing
  <1>9. ASSUME NEW s \in Session, StartCheck(s)
        PROVE  WritesMap'
    <2>1. pc[s] \notin Flushing /\ \A t \in Thread : t # s => pc[t] = "idle"
      BY <1>9, Alone DEF StartCheck, TornInv, Flushing, Thread
    <2>2. /\ \A t \in Thread : t # s => pc'[t] = pc[t]
          /\ pc'[s] \notin {"f_open", "f_write", "f_rename"}
          /\ disk' = disk
      BY <1>9, <2>1 DEF StartCheck, Goto, TypeOK, Thread, files
    <2>3. pc'[s] \notin Flushing =>
             \A j \in Instance : instances'[j] # None => instances'[j] = instances[j]
      BY <1>9 DEF StartCheck, Goto, TypeOK, Thread, Flushing
    <2> QED
      BY <2>1, <2>2, <2>3, SessionWrites DEF Flushing
  <1>10. ASSUME NEW s \in Session, LaunchCheck(s)
        PROVE  WritesMap'
    <2>1. pc[s] \notin Flushing /\ \A t \in Thread : t # s => pc[t] = "idle"
      BY <1>10, Alone DEF LaunchCheck, TornInv, Flushing, Thread
    <2>2. /\ \A t \in Thread : t # s => pc'[t] = pc[t]
          /\ pc'[s] \notin {"f_open", "f_write", "f_rename"}
          /\ disk' = disk
      BY <1>10, <2>1 DEF LaunchCheck, Goto, TypeOK, Thread, files
    <2>3. pc'[s] \notin Flushing =>
             \A j \in Instance : instances'[j] # None => instances'[j] = instances[j]
      BY <1>10 DEF LaunchCheck, Goto, TypeOK, Thread
    <2> QED
      BY <2>1, <2>2, <2>3, SessionWrites DEF Flushing
  <1>11. ASSUME NEW s \in Session, Attach(s)
        PROVE  WritesMap'
    <2>1. pc[s] \notin Flushing /\ \A t \in Thread : t # s => pc[t] = "idle"
      BY <1>11, Alone DEF Attach, TornInv, Flushing, Thread
    <2>2. /\ \A t \in Thread : t # s => pc'[t] = pc[t]
          /\ pc'[s] \notin {"f_open", "f_write", "f_rename"}
          /\ disk' = disk
      BY <1>11, <2>1 DEF Attach, Goto, TypeOK, Thread, files
    <2>3. pc'[s] \notin Flushing =>
             \A j \in Instance : instances'[j] # None => instances'[j] = instances[j]
      BY <1>11 DEF Attach, Goto, TypeOK, Thread, Flushing
    <2> QED
      BY <2>1, <2>2, <2>3, SessionWrites DEF Flushing
  <1>12. ASSUME NEW t \in Thread, FlushSnap(t)
        PROVE  WritesMap'
    <2>1. \A u \in Thread : u # t => pc[u] = "idle" /\ pc'[u] = "idle"
      BY <1>12, Alone DEF FlushSnap, TornInv, Goto, TypeOK
    <2>2. pc'[t] \in Flushing /\ instances' = instances
      BY <1>12 DEF FlushSnap, Goto, TypeOK, Flushing
    <2>3. snap'[t] = SnapshotOf(instances)
      BY <1>12 DEF FlushSnap, TypeOK, WritesMap
    <2> QED
      BY <2>1, <2>2, <2>3 DEF WritesMap
  <1>13. ASSUME NEW t \in Thread, FlushOpen(t)
        PROVE  WritesMap'
    <2>1. \A u \in Thread : u # t => pc[u] = "idle" /\ pc'[u] = "idle"
      BY <1>13, Alone DEF FlushOpen, TornInv, Goto, TypeOK
    <2>2. pc'[t] \in Flushing /\ instances' = instances
      BY <1>13 DEF FlushOpen, Goto, TypeOK, Flushing
    <2>3. snap'[t] = SnapshotOf(instances)
      BY <1>13 DEF FlushOpen, TypeOK, WritesMap
    <2> QED
      BY <2>1, <2>2, <2>3 DEF WritesMap
  <1>14. ASSUME NEW t \in Thread, FlushWrite(t)
        PROVE  WritesMap'
    <2>1. \A u \in Thread : u # t => pc[u] = "idle" /\ pc'[u] = "idle"
      BY <1>14, Alone DEF FlushWrite, TornInv, Goto, TypeOK
    <2>2. pc'[t] \in Flushing /\ instances' = instances
      BY <1>14 DEF FlushWrite, Goto, TypeOK, Flushing
    <2>3. snap'[t] = SnapshotOf(instances)
      BY <1>14 DEF FlushWrite, TypeOK, WritesMap
    <2> QED
      BY <2>1, <2>2, <2>3 DEF WritesMap
  <1>15. ASSUME NEW t \in Thread, FlushRename(t)
        PROVE  WritesMap'
    <2>1. \A u \in Thread : pc'[u] = "idle"
      BY <1>15, Alone DEF FlushRename, FlushDone, TornInv, Goto, TypeOK
    <2>2. tmp = Full(SnapshotOf(instances))
      BY <1>15 DEF FlushRename, TornInv, WholeWrite, WritesMap
    <2>3. disk'.snap = SnapshotOf(instances)
      BY <1>15, <2>2 DEF FlushRename, Full
    <2>4. instances' = instances
      BY <1>15 DEF FlushRename
    <2> QED
      BY <2>1, <2>3, <2>4 DEF WritesMap, Durable
  <1>16. ASSUME NEW t \in Thread, FlushFail(t)
        PROVE  WritesMap'
    BY <1>16 DEF FlushFail
  <1>17. ASSUME Crash
        PROVE  WritesMap'
    BY <1>17 DEF Crash, WritesMap, Durable, NoEntries
  <1>18. ASSUME Restart
        PROVE  WritesMap'
    <2>1. CASE disk.state = "full"
      BY <1>18, <2>1 DEF Restart, DownIsIdle, Goto, WritesMap, Flushing, Thread, TypeOK
    <2>2. CASE disk.state # "full"
      BY <1>18, <2>2 DEF Restart, DownIsIdle, DownEmpty, NoEntries, WritesMap, Durable
    <2> QED
      BY <2>1, <2>2
  <1>19. ASSUME NEW p \in Pid, ProcExit(p)
        PROVE  WritesMap'
    BY <1>19 DEF ProcExit, WritesMap, Durable, SnapshotOf, files
  <1>20. ASSUME NEW p \in Pid, ForeignSpawn(p)
        PROVE  WritesMap'
    BY <1>20 DEF ForeignSpawn, WritesMap, Durable, SnapshotOf, files
  <1> QED
    BY <1>1, <1>2, <1>3, <1>4, <1>5, <1>6, <1>7, <1>8, <1>9, <1>10, <1>11, <1>12, <1>13,
       <1>14, <1>15, <1>16, <1>17, <1>18, <1>19, <1>20
       DEF Next, Arrival, SessionStep, FlushStep

-----------------------------------------------------------------------------
(* The theorems about processes and about the file.                        *)

FullInv == IndInv /\ OwnInv /\ OrphanInv

\* Before the first daemon there is no process, no entry and no file.
LEMMA InitFull == Init => FullInv
  <1> SUFFICES ASSUME Init PROVE FullInv
    OBVIOUS
  <1>1. OwnInv
    BY DEF Init, OwnInv, OwnedPidsPinned, ChildHeld, VictimHeld, ServersApart,
           ChildrenApart,
           OwnEntry, OwnVictim, NoEntries
  <1>2. OrphanInv
    BY DEF Init, OrphanInv, NoOrphanServer, StartReady, DownEmpty, FilesWhole, NoProc,
           NoFile, Locked
  <1> QED
    BY <1>1, <1>2, InitInv DEF FullInv

\* Every step keeps the three invariants together.
LEMMA NextFull == FullInv /\ [Next]_vars => FullInv'
  <1> SUFFICES ASSUME FullInv, [Next]_vars PROVE FullInv'
    OBVIOUS
  <1>1. IndInv'
    BY NextInv DEF FullInv
  <1>2. CASE Next
    BY <1>1, <1>2, OwnStep, OrphanStep DEF FullInv, IndInv
  <1>3. CASE UNCHANGED vars
    <2>1. OwnInv'
      BY <1>3
         DEF vars, FullInv, OwnInv, OwnedPidsPinned, Pinned, ChildHeld, Held,
             VictimHeld,
                  ServersApart, ChildrenApart, OwnEntry, OwnVictim
    <2>2. OrphanInv'
      BY <1>3
         DEF vars, FullInv, OrphanInv, NoOrphanServer, Recorded, StartReady, DownEmpty,
             FilesWhole
    <2> QED
      BY <1>1, <2>1, <2>2 DEF FullInv
  <1> QED
    BY <1>2, <1>3

\* terminate() never signals a process that took over a pid of an instance
\* this daemon started: the pids stay pinned while an entry or a termination
\* holds them.
THEOREM PidsAlwaysPinned == Spec => []OwnedPidsPinned
  <1>1. FullInv => OwnedPidsPinned
    BY DEF FullInv, OwnInv
  <1> QED
    BY InitFull, NextFull, <1>1, PTL DEF Spec

\* No operation of the daemon, no race between sessions and no restart loses
\* a running server; only a crash before state.bin recorded it does.
THEOREM ServersNeverOrphaned == Spec => []NoOrphanServer
  <1>1. FullInv => NoOrphanServer
    BY DEF FullInv, OrphanInv
  <1> QED
    BY InitFull, NextFull, <1>1, PTL DEF Spec

SerialInv == OneSession /\ FullInv /\ TornInv

\* One session at a time keeps state.bin whole.
LEMMA SerialSteps ==
    /\ OneSession /\ Init => SerialInv
    /\ SerialInv /\ [Next]_vars => SerialInv'
  <1>1. OneSession /\ Init => SerialInv
    <2> SUFFICES ASSUME OneSession, Init PROVE TornInv
      BY InitFull DEF SerialInv
    <2> QED
      BY DEF Init, TornInv, InTurn, WholeWrite, NeverTorn, NoFile, Thread, Flushing
  <1>2. SerialInv /\ [Next]_vars => SerialInv'
    <2> SUFFICES ASSUME SerialInv, [Next]_vars PROVE TornInv'
      BY NextFull DEF SerialInv, OneSession
    <2>1. CASE Next
      BY <2>1, TornStep DEF SerialInv, FullInv, IndInv
    <2>2. CASE UNCHANGED vars
      BY <2>2 DEF vars, SerialInv, TornInv, InTurn, WholeWrite, NeverTorn
    <2> QED
      BY <2>1, <2>2
  <1> QED
    BY <1>1, <1>2

\* "an interrupted write doesn't leave a torn state.bin": true of a daemon
\* that serves one session, whatever crashes and disk errors happen.
THEOREM NeverTornSerially == OneSession /\ Spec => []NoTornState
  <1>1. SerialInv => NoTornState
    BY DEF SerialInv, TornInv, NeverTorn, NoTornState
  <1> QED
    BY SerialSteps, <1>1, PTL DEF Spec

DurableInv == ~DiskFaults /\ SerialInv /\ WritesMap

\* One session and a disk that takes every write keep the map durable.
LEMMA DurableSteps ==
    /\ OneSession /\ ~DiskFaults /\ Init => DurableInv
    /\ DurableInv /\ [Next]_vars => DurableInv'
  <1>1. OneSession /\ ~DiskFaults /\ Init => DurableInv
    <2> SUFFICES ASSUME OneSession, ~DiskFaults, Init PROVE WritesMap
      BY SerialSteps DEF DurableInv
    <2> QED
      BY DEF Init, WritesMap, Durable, NoEntries
  <1>2. DurableInv /\ [Next]_vars => DurableInv'
    <2> SUFFICES ASSUME DurableInv, [Next]_vars PROVE WritesMap'
      BY SerialSteps DEF DurableInv
    <2>1. CASE Next
      BY <2>1, DurableStep DEF DurableInv, SerialInv, FullInv, IndInv, OrphanInv
    <2>2. CASE UNCHANGED vars
      BY <2>2 DEF vars, DurableInv, WritesMap, Durable, SnapshotOf
    <2> QED
      BY <2>1, <2>2
  <1> QED
    BY <1>1, <1>2

\* "every state-changing operation flushes a snapshot": between requests, a
\* daemon that serves one session on a disk without errors has every recorded
\* instance in state.bin as it is in memory.
THEOREM DurableSerially == OneSession /\ ~DiskFaults /\ Spec => []TrackedIsDurable
  <1>1. DurableInv => TrackedIsDurable
    BY DEF DurableInv, WritesMap, Durable, TrackedIsDurable, Flushing
  <1> QED
    BY DurableSteps, <1>1, PTL DEF Spec

=============================================================================
