-------------------------------- MODULE Cli --------------------------------
(***************************************************************************)
(* A vbox command as a process: vbox-cli's main.rs, context.rs, process.rs *)
(* and the way its stores replace a file (write the .tmp file, rename it). *)
(*                                                                         *)
(* A command is the sequence of the steps it still has to take.  A step    *)
(* that returns an error ends the command, as `?` does; a step whose       *)
(* result the code drops goes on either way.  Processes share only the     *)
(* file system, the local ports and the guest, and nothing locks these.    *)
(* What the steps do is in Stack, Hosts and Library.                       *)
(***************************************************************************)
EXTENDS Integers, Sequences, FiniteSets

CONSTANTS
    Procs,        \* slots, numbered, for processes that run at the same time
    Insts,        \* instance names; those of apps are their sanitized ids
    Default,      \* the instance of a command without --instance
    MaxFaults     \* bound: processes killed and connections lost

ASSUME CliAssumption ==
    /\ IsFiniteSet(Procs) /\ Procs \subseteq Nat /\ Default \in Insts
    /\ MaxFaults \in Nat

(* The second thread of a process is the vbox-app-id thread of a launcher. *)
Threads == Procs \X {1, 2}
Main(p) == <<p, 1>>
Side(t) == <<t[1], 2>>

VARIABLES
    todo,      \* a thread's remaining steps
    loc,       \* its local variables
    mem,       \* the contents of the store it has loaded
    file, tmp, \* the stores and their .tmp files
    faults,
    history    \* whether commands have overlapped, whether one was killed

cliVars == <<todo, loc, mem, file, tmp, faults, history>>
others == <<faults, history>>
mixed == history # {}

(* AppContext and the arguments.  rows are the apps a command still has to *)
(* install or remove.                                                      *)
NoContext ==
    [inst |-> Default, port |-> 0, pid |-> 0, ca |-> 0, pair |-> 0, flag |-> FALSE, rows |-> {}]
Context(i, base) == [NoContext EXCEPT !.inst = i, !.port = base]

Idle(t) == todo[t] = <<>>
Quiet == \A t \in Threads : Idle(t)
At(t, step) == todo[t] # <<>> /\ Head(todo[t]) = step
I(t) == loc[t].inst

Go(t)      == todo' = [todo EXCEPT ![t] = Tail(@)]
Bail(t)    == todo' = [todo EXCEPT ![t] = <<"exit">>]
Skip(t, n) == todo' = [todo EXCEPT ![t] = SubSeq(@, n + 1, Len(@))]
Jump(t, steps) == todo' = [todo EXCEPT ![t] = steps \o Tail(@)]

(* process::run: a tool that fails ends the command.                       *)
Run(t)  == Go(t) \/ Bail(t)

-----------------------------------------------------------------------------
Free(p) == Idle(Main(p)) /\ Idle(Side(Main(p)))

(* main: parse the arguments, build the context, dispatch.  A process is   *)
(* given the first free slot.                                              *)
Begin(p, i, base, steps) ==
    /\ Free(p) /\ \A q \in Procs : q < p => ~Free(q)
    /\ todo' = [todo EXCEPT ![Main(p)] = steps \o <<"exit">>]
    /\ loc' = [loc EXCEPT ![Main(p)] = Context(i, base)]
    /\ history' = IF Quiet THEN history ELSE history \cup {"overlap"}
    /\ UNCHANGED <<mem, file, tmp, faults>>

Exit(t) ==
    /\ At(t, "exit") /\ todo' = [todo EXCEPT ![t] = <<>>]
    /\ loc' = [loc EXCEPT ![t] = NoContext] /\ mem' = [mem EXCEPT ![t] = <<>>]
    /\ UNCHANGED <<file, tmp, others>>

(* The process is killed; a launcher's thread goes with it, the commands   *)
(* that thread has started do not.                                         *)
Kill(p) ==
    /\ faults < MaxFaults /\ ~Idle(Main(p))
    /\ ~At(Main(p), "exit") /\ Bail(Main(p)) /\ faults' = faults + 1 /\ history' = history \cup {"kill"}
    /\ UNCHANGED <<loc, mem, file, tmp>>

-----------------------------------------------------------------------------
(* A store: read it whole, change the copy, write all of it to the .tmp    *)
(* file, rename that.  Every process uses the same .tmp name, so a rename  *)
(* may put another process's copy in place, and then that process's own    *)
(* rename finds nothing.  The file system may refuse each of the three,    *)
(* and a write that fails leaves the .tmp file alone or cut, which a later *)
(* reader takes for a store without entries.                               *)
Load(t, f) == mem' = [mem EXCEPT ![t] = file[f]]

Write(t, f, contents, none) ==
    \/ Go(t) /\ tmp' = [tmp EXCEPT ![f] = <<contents>>]
    \/ Bail(t) /\ tmp' \in {tmp, [tmp EXCEPT ![f] = <<none>>]}

Rename(t, f) ==
    \/ /\ tmp[f] # <<>> /\ Go(t)
       /\ file' = [file EXCEPT ![f] = tmp[f][1]] /\ tmp' = [tmp EXCEPT ![f] = <<>>]
    \/ Bail(t) /\ UNCHANGED <<file, tmp>>

Init(stores) ==
    /\ todo = [t \in Threads |-> <<>>]
    /\ loc = [t \in Threads |-> NoContext]
    /\ mem = [t \in Threads |-> <<>>]
    /\ file = stores /\ tmp = [f \in DOMAIN stores |-> <<>>]
    /\ faults = 0 /\ history = {}
=============================================================================
