--------------------------- MODULE SessionsProofs ---------------------------
(***************************************************************************)
(* Type correctness of Sessions, the connection count and the ownership of *)
(* the socket name and of the input slot, for any number of viewers, any   *)
(* limit on clients and any number of server crashes.                      *)
(*                                                                         *)
(* OwnsName is not inductive: a session that runs keeps the name only      *)
(* because no other one is about to unlink the files, and none gets there  *)
(* because the probe finds the owner listening.  IndInv says this for a    *)
(* session from bind to cleanup.  The count is only right if a connection  *)
(* enters it once, so IndInv also says that a connection the client has    *)
(* not made is not known to the server.                                    *)
(***************************************************************************)
EXTENDS Sessions, TLAPS, FiniteSetTheorems

\* A connection the client has not made has no thread or task.
Unmade ==
    /\ \A p \in Viewers : net[p] = "new" =>
          \A k \in {"quic", "view", "input"} : c[<<p, k>>] = "off"
    /\ \A p \in Viewers : net[p] = "quic" =>
          \A k \in {"view", "input"} : c[<<p, k>>] = "off"
    /\ \A x \in Conns : c[x] \in {"off", "connect"} => s[x] = "off"

\* A ListeningSocket lives from bind to its drop.
HasSocket == {"bound", "run", "end", "cleanup", "drop"}
Listeners == listening = {x \in Conns : s[x] \in HasSocket}

\* From bind to cleanup both files are the session's and nobody is about to
\* unlink them.
Holder ==
    raced \/ \A x \in Conns : s[x] \in {"bound", "run", "end", "cleanup"} =>
                /\ sock = x /\ lock = x
                /\ \A y \in Conns : s[y] \notin {"unlink", "drop"}

IndInv ==
    /\ TypeOK
    /\ Unmade
    /\ CountAgrees
    /\ Listeners
    /\ Holder
    /\ InputReachesView

-----------------------------------------------------------------------------
(* The count.                                                              *)

\* Whether a connection whose end on the server is at v is counted.
Counts(x, v) == Tcp(x) /\ v \notin {"off", "accept", "deaf", "done"}
Counted == {x \in Conns : Counts(x, s[x])}

\* There are finitely many connections.
LEMMA ConnsFinite == IsFiniteSet(Conns)
  <1> DEFINE Kind(k) == {<<p, k>> : p \in Viewers}
  <1>1. IsFiniteSet(Viewers)
    BY FS_Interval, SessionsAssumption DEF Viewers
  <1>2. ASSUME NEW k PROVE IsFiniteSet(Kind(k))
    <2> DEFINE f == [p \in Viewers |-> <<p, k>>]
    <2>1. f \in Surjection(Viewers, Kind(k))
      BY DEF Surjection
    <2> HIDE DEF f, Kind
    <2> QED
      BY <1>1, <2>1, FS_Surjection
  <1>3. Conns = Kind("quic") \cup (Kind("view") \cup Kind("input"))
    BY DEF Conns
  <1> HIDE DEF Kind
  <1> QED
    BY <1>2, <1>3, FS_Union

\* Leaving a thread's state alone, or counting it in or out as its state is,
\* keeps the count.
LEMMA Recount ==
    ASSUME CountAgrees, NEW x \in Conns, NEW v,
           DOMAIN s = Conns, s' = [s EXCEPT ![x] = v],
           \/ Counts(x, v) /\ Counts(x, s[x]) /\ active' = active
           \/ ~ Counts(x, v) /\ ~ Counts(x, s[x]) /\ active' = active
           \/ Counts(x, v) /\ ~ Counts(x, s[x]) /\ active' = active + 1
           \/ ~ Counts(x, v) /\ Counts(x, s[x]) /\ active' = active - 1
    PROVE  CountAgrees' /\ active' \in Nat
  <1>1. active = Cardinality(Counted)
    BY DEF CountAgrees, Counted, Counts
  <1>2. Counted \in SUBSET Conns /\ Counted' \in SUBSET Conns
    BY DEF Counted
  <1>3. IsFiniteSet(Counted) /\ IsFiniteSet(Counted')
    BY <1>2, ConnsFinite, FS_Subset
  <1>4. \A y \in Conns : s'[y] = IF y = x THEN v ELSE s[y]
    OBVIOUS
  <1>5. active' = Cardinality(Counted')
    <2>1. CASE Counts(x, v) <=> Counts(x, s[x])
      <3>1. Counted' = Counted
        BY <2>1, <1>4 DEF Counted, Counts
      <3> QED
        BY <2>1, <3>1, <1>1
    <2>2. CASE Counts(x, v) /\ ~ Counts(x, s[x])
      <3>1. Counted' = Counted \cup {x} /\ x \notin Counted
        BY <2>2, <1>4 DEF Counted, Counts
      <3> QED
        BY <2>2, <3>1, <1>1, <1>3, FS_AddElement
    <2>3. CASE ~ Counts(x, v) /\ Counts(x, s[x])
      <3>1. Counted' = Counted \ {x} /\ x \in Counted
        BY <2>3, <1>4 DEF Counted, Counts
      <3> QED
        BY <2>3, <3>1, <1>1, <1>3, FS_RemoveElement
    <2> QED
      BY <2>1, <2>2, <2>3
  <1>6. Cardinality(Counted') \in Nat
    BY <1>3, FS_CardinalityType
  <1> QED
    BY <1>5, <1>6 DEF CountAgrees, Counted, Counts

-----------------------------------------------------------------------------
(* The client's steps: the server's state is left alone, except that a      *)
(* connection that is made is there to be accepted.                         *)

\* A connection changes its state outside of a session, and the files and
\* the slot are left alone.
LEMMA OutsideSession ==
    ASSUME TypeOK, Listeners, Holder, InputReachesView,
           NEW x \in Conns, NEW v, s' = [s EXCEPT ![x] = v],
           {s[x], v} \cap (HasSocket \cup {"unlink"}) = {},
           UNCHANGED <<slot, fileVars>>
    PROVE  Listeners' /\ Holder' /\ InputReachesView'
  <1>1. \A y \in Conns : s'[y] = IF y = x THEN v ELSE s[y]
    BY DEF TypeOK
  <1>2. Listeners'
    BY <1>1 DEF Listeners, HasSocket, fileVars
  <1>3. Holder'
    BY <1>1 DEF Holder, HasSocket, fileVars
  <1>4. InputReachesView'
    BY <1>1 DEF InputReachesView, Running, HasSocket, fileVars
  <1> QED
    BY <1>2, <1>3, <1>4

\* What the server keeps is left alone.
LEMMA ServerUnchanged ==
    ASSUME IndInv, UNCHANGED <<s, active, slot, fileVars, crashes>>
    PROVE  CountAgrees' /\ Listeners' /\ Holder' /\ InputReachesView'
  BY DEF IndInv, CountAgrees, Listeners, Holder, InputReachesView, Running, fileVars

\* Opening connections: only ones that were not made before.
LEMMA EnterKeeps ==
    ASSUME TypeOK, Unmade, UNCHANGED s,
           NEW p \in Viewers, NEW n \in {"quic", "tcp"}, Enter(p, n),
           net[p] = "new" \/ (net[p] = "quic" /\ n = "tcp")
    PROVE  Unmade' /\ net' \in [Viewers -> {"new", "quic", "tcp", "told", "over"}]
           /\ c' \in [Conns -> {"off", "connect", "hello", "up", "failed", "closed"}]
  <1>1. /\ net' \in [Viewers -> {"new", "quic", "tcp", "told", "over"}]
        /\ c' \in [Conns -> {"off", "connect", "hello", "up", "failed", "closed"}]
    BY DEF Enter, TypeOK
  <1>2. \A x \in Opening(p, n) : x \in Conns /\ c[x] = "off"
    <2>1. <<p, "quic">> \in Conns /\ <<p, "view">> \in Conns /\ <<p, "input">> \in Conns
      BY DEF Conns
    <2>2. c[<<p, "view">>] = "off" /\ c[<<p, "input">>] = "off"
      BY DEF Unmade
    <2>3. n = "quic" => c[<<p, "quic">>] = "off"
      BY DEF Unmade
    <2> QED
      BY <2>1, <2>2, <2>3 DEF Opening
  <1>3. \A x \in Conns : c'[x] = IF x \in Opening(p, n) THEN "connect" ELSE c[x]
    BY DEF Enter
  <1>4. \A q \in Viewers : net'[q] = IF q = p THEN n ELSE net[q]
    BY DEF Enter, TypeOK
  <1>5. \A x \in Conns : c'[x] \in {"off", "connect"} => s'[x] = "off"
    BY <1>2, <1>3 DEF Unmade
  <1>6. \A q \in Viewers, k \in {"quic", "view", "input"} :
           /\ <<q, k>> \in Conns
           /\ <<q, k>> \in Opening(p, n) => q = p /\ (k # "quic" => n = "tcp")
    BY DEF Opening, Conns
  <1>7. ASSUME NEW q \in Viewers, net'[q] = "new",
               NEW k \in {"quic", "view", "input"}
        PROVE  c'[<<q, k>>] = "off"
    BY <1>3, <1>4, <1>6, <1>7 DEF Unmade
  <1>8. ASSUME NEW q \in Viewers, net'[q] = "quic", NEW k \in {"view", "input"}
        PROVE  c'[<<q, k>>] = "off"
    BY <1>3, <1>4, <1>6, <1>8 DEF Unmade
  <1> QED
    BY <1>1, <1>5, <1>7, <1>8 DEF Unmade

\* view_with_transport opens connections for the first time.
LEMMA BeginKeeps ==
    ASSUME IndInv, NEW p \in Viewers, NEW m \in Modes, NEW b \in Builds, Begin(p, m, b)
    PROVE  IndInv'
  <1>1. FirstPlane(m) \in {"quic", "tcp"}
    BY DEF FirstPlane
  <1>2. Unmade' /\ net' \in [Viewers -> {"new", "quic", "tcp", "told", "over"}]
        /\ c' \in [Conns -> {"off", "connect", "hello", "up", "failed", "closed"}]
    BY <1>1, EnterKeeps DEF IndInv, Begin
  <1>3. m \in {"tcp", "quic", "auto"} /\ b \in {"same", "badtoken", "badcert", "other"}
    BY SessionsAssumption
  <1>4. TypeOK'
    BY <1>2, <1>3 DEF Begin, IndInv, TypeOK, fileVars
  <1> QED
    BY <1>2, <1>4, ServerUnchanged DEF IndInv, Begin

\* A connection that is made was not known to the server.
LEMMA ConnectKeeps ==
    ASSUME IndInv, NEW x \in Conns, Connect(x)
    PROVE  IndInv'
  <1>1. s[x] = "off"
    BY DEF Connect, IndInv, Unmade
  <1>2. TypeOK'
    BY DEF Connect, IndInv, TypeOK, fileVars
  <1>3. \A y \in Conns : /\ y # x => c'[y] = c[y] /\ s'[y] = s[y]
                         /\ c'[x] \notin {"off", "connect"}
                         /\ c'[y] = "off" <=> c[y] = "off"
    BY DEF Connect, IndInv, TypeOK
  <1>4. Unmade'
    <2>1. \A q \in Viewers, k \in {"quic", "view", "input"} : <<q, k>> \in Conns
      BY DEF Conns
    <2>2. net' = net
      BY DEF Connect
    <2> QED
      BY <1>3, <2>1, <2>2 DEF IndInv, Unmade
  <1>5. CASE UNCHANGED s
    BY <1>2, <1>4, <1>5, ServerUnchanged DEF Connect, IndInv
  <1>6. CASE s' = [s EXCEPT ![x] = "accept"]
    <2>1. CountAgrees'
      BY <1>1, <1>6, Recount DEF Connect, IndInv, TypeOK, Counts
    <2>2. Listeners' /\ Holder' /\ InputReachesView'
      BY <1>1, <1>6, OutsideSession DEF Connect, IndInv, HasSocket
    <2> QED
      BY <1>2, <1>4, <2>1, <2>2 DEF IndInv
  <1> QED
    BY <1>5, <1>6 DEF Connect

\* A client's end that moves on was made before.
LEMMA MadeStaysMade ==
    ASSUME Unmade, UNCHANGED s,
           \A q \in Viewers : net'[q] \in {"new", "quic"} => net'[q] = net[q],
           \A y \in Conns :
              c'[y] = c[y] \/ (c[y] # "off" /\ c'[y] \in {"up", "failed", "closed"})
    PROVE  Unmade'
  <1>1. \A q \in Viewers, k \in {"quic", "view", "input"} : <<q, k>> \in Conns
    BY DEF Conns
  <1>2. ASSUME NEW q \in Viewers, net'[q] = "new",
               NEW k \in {"quic", "view", "input"}
        PROVE  c'[<<q, k>>] = "off"
    <2>1. net[q] = "new"
      BY <1>2
    <2>2. c[<<q, k>>] = "off"
      BY <2>1 DEF Unmade
    <2> QED
      BY <1>1, <2>2
  <1>3. ASSUME NEW q \in Viewers, net'[q] = "quic", NEW k \in {"view", "input"}
        PROVE  c'[<<q, k>>] = "off"
    <2>1. net[q] = "quic"
      BY <1>3
    <2>2. c[<<q, k>>] = "off"
      BY <2>1 DEF Unmade
    <2> QED
      BY <1>1, <2>2
  <1>4. \A x \in Conns : c'[x] \in {"off", "connect"} => s'[x] = "off"
    BY DEF Unmade
  <1> QED
    BY <1>2, <1>3, <1>4 DEF Unmade

\* The client's handshake: the server is left alone.
LEMMA ClientWelcomeKeeps ==
    ASSUME IndInv, NEW x \in Conns, NEW n, ClientWelcome(x, n)
    PROVE  IndInv'
  <1>1. TypeOK'
    BY DEF ClientWelcome, IndInv, TypeOK, fileVars
  <1>2. \A y \in Conns : c'[y] = c[y] \/ (c[y] = "hello" /\ c'[y] \in {"up", "failed"})
    BY DEF ClientWelcome, IndInv, TypeOK
  <1>3. Unmade'
    BY <1>2, MadeStaysMade DEF ClientWelcome, IndInv
  <1> QED
    BY <1>1, <1>3, ServerUnchanged DEF ClientWelcome, IndInv

\* A client's read or write error: the server is left alone.
LEMMA ClientFailsKeeps ==
    ASSUME IndInv, NEW x \in Conns, ClientFails(x)
    PROVE  IndInv'
  <1>1. TypeOK'
    BY DEF ClientFails, IndInv, TypeOK, fileVars
  <1>2. \A y \in Conns : c'[y] = c[y] \/ (c[y] # "off" /\ c'[y] = "failed")
    BY DEF ClientFails, IndInv, TypeOK
  <1>3. Unmade'
    BY <1>2, MadeStaysMade DEF ClientFails, IndInv
  <1> QED
    BY <1>1, <1>3, ServerUnchanged DEF ClientFails, IndInv

\* The fallback to TCP opens the two connections that were not made yet.
LEMMA QuicFailsKeeps ==
    ASSUME IndInv, NEW p \in Viewers, QuicFails(p)
    PROVE  IndInv'
  <1>1. CASE Enter(p, "tcp")
    <2>1. Unmade' /\ net' \in [Viewers -> {"new", "quic", "tcp", "told", "over"}]
          /\ c' \in [Conns -> {"off", "connect", "hello", "up", "failed", "closed"}]
      BY <1>1, EnterKeeps DEF IndInv, QuicFails
    <2>2. TypeOK'
      BY <2>1 DEF QuicFails, IndInv, TypeOK, fileVars
    <2> QED
      BY <2>1, <2>2, ServerUnchanged DEF IndInv, QuicFails
  <1>2. CASE net' = [net EXCEPT ![p] = "told"] /\ UNCHANGED c
    <2>1. TypeOK'
      BY <1>2 DEF QuicFails, IndInv, TypeOK, fileVars
    <2>2. Unmade'
      BY <1>2 DEF QuicFails, IndInv, TypeOK, Unmade
    <2> QED
      BY <2>1, <2>2, ServerUnchanged DEF IndInv, QuicFails
  <1> QED
    BY <1>1, <1>2 DEF QuicFails

\* The viewer is told.
LEMMA ViewFailsKeeps ==
    ASSUME IndInv, NEW p \in Viewers, ViewFails(p)
    PROVE  IndInv'
  <1>1. TypeOK'
    BY DEF ViewFails, IndInv, TypeOK, fileVars
  <1>2. Unmade'
    BY DEF ViewFails, IndInv, TypeOK, Unmade
  <1> QED
    BY <1>1, <1>2, ServerUnchanged DEF IndInv, ViewFails

\* The viewer's exit closes what was made.
LEMMA ViewerExitsKeeps ==
    ASSUME IndInv, NEW p \in Viewers, ViewerExits(p)
    PROVE  IndInv'
  <1>1. TypeOK'
    BY DEF ViewerExits, IndInv, TypeOK, fileVars
  <1>2. \A y \in Conns : c'[y] = c[y] \/ (c[y] # "off" /\ c'[y] = "closed")
    BY DEF ViewerExits, IndInv, TypeOK
  <1>3. \A q \in Viewers : net'[q] \in {"new", "quic"} => net'[q] = net[q]
    BY DEF ViewerExits, IndInv, TypeOK
  <1>4. Unmade'
    BY <1>2, <1>3, MadeStaysMade DEF ViewerExits, IndInv
  <1> QED
    BY <1>1, <1>4, ServerUnchanged DEF IndInv, ViewerExits

-----------------------------------------------------------------------------
(* The server's connections.                                               *)

\* A step of the server: the client is left alone and a thread it knows
\* moves on, in or out of the count.
LEMMA ServerStep ==
    ASSUME IndInv, NEW x \in Conns, s[x] # "off",
           NEW v \in {"accept", "hello", "auth", "serve", "bind", "probe", "unlink", "bound",
                      "run", "end", "cleanup", "drop", "deaf", "done"},
           s' = [s EXCEPT ![x] = v], UNCHANGED <<net, c>>
    PROVE  /\ Unmade'
           /\ s' \in [Conns -> {"off", "accept", "hello", "auth", "serve", "bind", "probe",
                                "unlink", "bound", "run", "end", "cleanup", "drop",
                                "deaf", "done"}]
  BY DEF IndInv, TypeOK, Unmade

\* Leaving takes a thread that is counted out of the count.
LEMMA LeaveKeeps ==
    ASSUME IndInv, NEW x \in Conns, Leave(x), UNCHANGED <<net, c>>,
           s[x] \notin {"off", "accept", "deaf", "done"}
    PROVE  /\ Unmade'
           /\ s' \in [Conns -> {"off", "accept", "hello", "auth", "serve", "bind", "probe",
                                "unlink", "bound", "run", "end", "cleanup", "drop",
                                "deaf", "done"}]
           /\ CountAgrees' /\ active' \in 0 .. MaxClients
  <1> DEFINE v == IF x[2] = "view" /\ s[x] \notin {"hello", "serve"} THEN "deaf" ELSE "done"
  <1>1. v \in {"deaf", "done"} /\ s' = [s EXCEPT ![x] = v]
    BY DEF Leave
  <1> HIDE DEF v
  <1>2. DOMAIN s = Conns /\ active \in 0 .. MaxClients
    BY DEF IndInv, TypeOK
  <1>3. CountAgrees' /\ active' \in Nat
    BY <1>1, <1>2, Recount DEF IndInv, Leave, Counts
  <1>4. active' \in 0 .. MaxClients
    BY <1>2, <1>3, SessionsAssumption DEF Leave
  <1> QED
    BY <1>1, <1>3, <1>4, ServerStep

\* A connection refused beyond max_clients was never counted.
LEMMA RefuseKeeps ==
    ASSUME IndInv, NEW x \in Conns, Refuse(x)
    PROVE  IndInv'
  <1>1. s[x] = "accept" /\ s' = [s EXCEPT ![x] = "done"] /\ DOMAIN s = Conns
    BY DEF Refuse, IndInv, TypeOK
  <1>2. TypeOK' /\ Unmade'
    BY <1>1, ServerStep DEF Refuse, IndInv, TypeOK, clientVars, fileVars
  <1>3. CountAgrees'
    BY <1>1, Recount DEF Refuse, IndInv, Counts
  <1>4. Listeners' /\ Holder' /\ InputReachesView'
    BY <1>1, OutsideSession DEF Refuse, IndInv, HasSocket
  <1> QED
    BY <1>2, <1>3, <1>4 DEF IndInv

\* A TCP connection that is accepted is counted, within max_clients.
LEMMA AcceptKeeps ==
    ASSUME IndInv, NEW x \in Conns, Accept(x)
    PROVE  IndInv'
  <1>1. s' = [s EXCEPT ![x] = "hello"] /\ active' = IF Tcp(x) THEN active + 1 ELSE active
    BY DEF Accept, Step
  <1>2. s[x] = "accept" /\ DOMAIN s = Conns /\ active \in 0 .. MaxClients
    BY DEF Accept, IndInv, TypeOK
  <1>3. CountAgrees' /\ active' \in Nat
    BY <1>1, <1>2, Recount DEF IndInv, Counts
  <1>4. active' \in 0 .. MaxClients
    BY <1>1, <1>2, <1>3, SessionsAssumption DEF Accept, Admits
  <1>5. TypeOK' /\ Unmade'
    BY <1>1, <1>2, <1>4, ServerStep DEF Accept, IndInv, TypeOK, clientVars, fileVars
  <1>6. Listeners' /\ Holder' /\ InputReachesView'
    BY <1>1, <1>2, OutsideSession DEF Accept, IndInv, HasSocket
  <1> QED
    BY <1>3, <1>5, <1>6 DEF IndInv

\* Leaving from outside of a session.
LEMMA LeaveOutside ==
    ASSUME IndInv, NEW x \in Conns, Leave(x), s[x] \in {"hello", "auth", "serve", "probe"},
           UNCHANGED <<clientVars, slot, fileVars, crashes>>
    PROVE  IndInv'
  <1>1. PICK v \in {"deaf", "done"} : s' = [s EXCEPT ![x] = v]
    BY DEF Leave
  <1>2. /\ Unmade' /\ CountAgrees' /\ active' \in 0 .. MaxClients
        /\ s' \in [Conns -> {"off", "accept", "hello", "auth", "serve", "bind", "probe",
                             "unlink", "bound", "run", "end", "cleanup", "drop",
                             "deaf", "done"}]
    BY LeaveKeeps DEF clientVars
  <1>3. TypeOK'
    BY <1>2 DEF IndInv, TypeOK, clientVars, fileVars
  <1>4. Listeners' /\ Holder' /\ InputReachesView'
    BY <1>1, OutsideSession DEF IndInv, HasSocket
  <1> QED
    BY <1>2, <1>3, <1>4 DEF IndInv

\* A step between two states that are both counted or both not.
LEMMA StepOutside ==
    ASSUME IndInv, NEW x \in Conns,
           \/ s[x] = "hello" /\ Step(x, IF Tcp(x) THEN "serve" ELSE "auth")
           \/ s[x] = "auth" /\ Step(x, "serve")
           \/ s[x] = "serve" /\ Step(x, "bind")
           \/ s[x] = "bind" /\ Step(x, "probe")
           \/ s[x] = "deaf" /\ Step(x, "done"),
           UNCHANGED <<clientVars, active, slot, fileVars, crashes>>
    PROVE  IndInv'
  <1>1. PICK v \in {"auth", "serve", "bind", "probe", "done"} :
            s' = [s EXCEPT ![x] = v] /\ (v = "done" <=> s[x] = "deaf")
    BY DEF Step
  <1>2. DOMAIN s = Conns
    BY DEF IndInv, TypeOK
  <1>3. CountAgrees'
    BY <1>1, <1>2, Recount DEF IndInv, Counts
  <1>4. TypeOK' /\ Unmade'
    BY <1>1, ServerStep DEF IndInv, TypeOK, clientVars, fileVars
  <1>5. Listeners' /\ Holder' /\ InputReachesView'
    BY <1>1, OutsideSession DEF IndInv, HasSocket
  <1> QED
    BY <1>3, <1>4, <1>5 DEF IndInv

\* Every step of a connection outside of a session.
LEMMA ConnectionKeeps ==
    ASSUME IndInv, NEW x \in Conns, Connection(x)
    PROVE  IndInv'
  <1>1. CASE Refuse(x)
    BY <1>1, RefuseKeeps
  <1>2. CASE Accept(x)
    BY <1>2, AcceptKeeps
  <1>3. CASE ServerAuth(x)
    <2>1. CASE Step(x, "serve") /\ UNCHANGED active
      BY <1>3, <2>1, StepOutside DEF ServerAuth
    <2>2. CASE Leave(x)
      BY <1>3, <2>2, LeaveOutside DEF ServerAuth
    <2> QED
      BY <1>3, <2>1, <2>2 DEF ServerAuth, Step
  <1>4. CASE Serve(x)
    <2>1. CASE Step(x, "bind") /\ UNCHANGED active
      BY <1>4, <2>1, StepOutside DEF Serve
    <2>2. CASE Leave(x)
      BY <1>4, <2>2, LeaveOutside DEF Serve
    <2> QED
      BY <1>4, <2>1, <2>2 DEF Serve
  <1>5. CASE ReaderEnds(x)
    BY <1>5, StepOutside DEF ReaderEnds, Step
  <1>6. CASE Welcome(x)
    <2>1. CASE Step(x, IF Tcp(x) THEN "serve" ELSE "auth") /\ UNCHANGED active
      BY <1>6, <2>1, StepOutside DEF Welcome
    <2>2. CASE Leave(x)
      BY <1>6, <2>2, LeaveOutside DEF Welcome
    <2> QED
      BY <1>6, <2>1, <2>2 DEF Welcome
  <1> QED
    BY <1>1, <1>2, <1>3, <1>4, <1>5, <1>6 DEF Connection

-----------------------------------------------------------------------------
(* The server's view sessions.                                             *)

InRun == {"bind", "probe", "unlink", "bound", "run", "end", "cleanup", "drop"}

\* Steps inside run keep the thread counted.
LEMMA StepInRun ==
    ASSUME IndInv, NEW x \in Conns, s[x] \in InRun, NEW v \in InRun,
           Step(x, v), UNCHANGED active, Unmoved
    PROVE  /\ Unmade' /\ CountAgrees'
           /\ s' \in [Conns -> {"off", "accept", "hello", "auth", "serve", "bind", "probe",
                                "unlink", "bound", "run", "end", "cleanup", "drop",
                                "deaf", "done"}]
           /\ \A y \in Conns : s'[y] = IF y = x THEN v ELSE s[y]
  <1>1. DOMAIN s = Conns /\ s' = [s EXCEPT ![x] = v]
    BY DEF IndInv, TypeOK, Step
  <1>2. CountAgrees'
    BY <1>1, Recount DEF IndInv, Counts, InRun
  <1> QED
    BY <1>1, <1>2, ServerStep DEF InRun, Unmoved, clientVars

\* Binding: no other session holds the name when the files are taken, or the
\* race is on record.
LEMMA TakeKeeps ==
    ASSUME IndInv, NEW x \in Conns, s[x] \in {"bind", "unlink"}, Take(x),
           Step(x, "bound"), UNCHANGED <<active, slot>>, Unmoved,
           raced \/ \A y \in Conns : s[y] \notin {"bound", "run", "end", "cleanup"}
    PROVE  IndInv'
  <1>1. /\ Unmade' /\ CountAgrees'
        /\ s' \in [Conns -> {"off", "accept", "hello", "auth", "serve", "bind", "probe",
                             "unlink", "bound", "run", "end", "cleanup", "drop",
                             "deaf", "done"}]
        /\ \A y \in Conns : s'[y] = IF y = x THEN "bound" ELSE s[y]
    BY StepInRun DEF InRun
  <1>2. TypeOK'
    BY <1>1 DEF IndInv, TypeOK, Take, Unmoved, clientVars
  <1>3. Listeners'
    BY <1>1 DEF IndInv, Listeners, HasSocket, Take
  <1>4. Holder'
    <2>1. ASSUME ~ raced' PROVE \A y \in Conns : s'[y] \notin {"unlink", "drop"}
      BY <1>1, <2>1 DEF Take
    <2>2. ASSUME ~ raced', NEW y \in Conns, s'[y] \in {"bound", "run", "end", "cleanup"}
          PROVE  sock' = y /\ lock' = y
      BY <1>1, <2>2 DEF Take
    <2> QED
      BY <2>1, <2>2 DEF Holder
  <1>5. InputReachesView'
    BY <1>1 DEF InputReachesView, Running, Take
  <1> QED
    BY <1>1, <1>2, <1>3, <1>4, <1>5 DEF IndInv

\* bind_wayland_socket's first attempt: a name that is held is not taken.
LEMMA BindKeeps ==
    ASSUME IndInv, NEW x \in Conns, Bind(x)
    PROVE  IndInv'
  <1>1. CASE Take(x) /\ Step(x, "bound") /\ lock \notin listening
    <2>1. raced \/ \A y \in Conns : s[y] \notin {"bound", "run", "end", "cleanup"}
      BY <1>1 DEF IndInv, Holder, Listeners, HasSocket
    <2> QED
      BY <1>1, <2>1, TakeKeeps DEF Bind
  <1>2. CASE Step(x, "probe") /\ UNCHANGED fileVars
    BY <1>2, StepOutside DEF Bind, Unmoved
  <1> QED
    BY <1>1, <1>2 DEF Bind

\* The probe: a session only gets to unlink when the name's owner is gone.
LEMMA ProbeKeeps ==
    ASSUME IndInv, NEW x \in Conns, Probe(x)
    PROVE  IndInv'
  <1>1. CASE ListenerActive
    BY <1>1, LeaveOutside DEF Probe, Unmoved
  <1>2. CASE ~ ListenerActive
    <2>1. Step(x, "unlink") /\ UNCHANGED <<active, slot, fileVars>> /\ Unmoved
      BY <1>2 DEF Probe
    <2>2. /\ Unmade' /\ CountAgrees'
          /\ s' \in [Conns -> {"off", "accept", "hello", "auth", "serve", "bind", "probe",
                               "unlink", "bound", "run", "end", "cleanup", "drop",
                               "deaf", "done"}]
          /\ \A y \in Conns : s'[y] = IF y = x THEN "unlink" ELSE s[y]
      BY <2>1, StepInRun DEF InRun, Probe
    <2>3. TypeOK'
      BY <2>1, <2>2 DEF IndInv, TypeOK, Unmoved, clientVars, fileVars
    <2>4. Listeners'
      BY <2>1, <2>2 DEF IndInv, Listeners, HasSocket, fileVars, Probe
    <2>5. raced \/ \A y \in Conns : s[y] \notin {"bound", "run", "end", "cleanup"}
      BY <1>2 DEF IndInv, Holder, Listeners, HasSocket, ListenerActive
    <2>6. Holder' /\ InputReachesView'
      BY <2>1, <2>2, <2>5 DEF Holder, InputReachesView, Running, fileVars
    <2> QED
      BY <2>2, <2>3, <2>4, <2>6 DEF IndInv
  <1> QED
    BY <1>1, <1>2

\* The unlink: nobody holds the name, or the race is on record.
LEMMA UnlinkKeeps ==
    ASSUME IndInv, NEW x \in Conns, Unlink(x)
    PROVE  IndInv'
  <1>1. raced \/ \A y \in Conns : s[y] \notin {"bound", "run", "end", "cleanup"}
    BY DEF IndInv, Holder, Unlink
  <1>2. CASE Take(x) /\ Step(x, "bound") /\ UNCHANGED active
    BY <1>1, <1>2, TakeKeeps DEF Unlink
  <1>3. CASE sock' = None /\ lock' = None /\ Leave(x) /\ UNCHANGED <<listening, raced>>
    <2>1. PICK v \in {"deaf", "done"} : s' = [s EXCEPT ![x] = v]
      BY <1>3 DEF Leave
    <2>2. /\ Unmade' /\ CountAgrees' /\ active' \in 0 .. MaxClients
          /\ s' \in [Conns -> {"off", "accept", "hello", "auth", "serve", "bind", "probe",
                               "unlink", "bound", "run", "end", "cleanup", "drop",
                               "deaf", "done"}]
      BY <1>3, LeaveKeeps DEF Unlink, Unmoved, clientVars
    <2>3. \A y \in Conns : s'[y] = IF y = x THEN v ELSE s[y]
      BY <2>1 DEF IndInv, TypeOK
    <2>4. TypeOK'
      BY <1>3, <2>2 DEF IndInv, TypeOK, Unlink, Unmoved, clientVars
    <2>5. Listeners'
      BY <1>3, <2>3 DEF IndInv, Listeners, HasSocket, Unlink
    <2>6. Holder' /\ InputReachesView'
      BY <1>1, <1>3, <2>3 DEF Holder, InputReachesView, Running
    <2> QED
      BY <2>2, <2>4, <2>5, <2>6 DEF IndInv
  <1> QED
    BY <1>2, <1>3 DEF Unlink

\* The locals of run come and go: only one session holds the name, so the
\* slot and the files a session gives up are its own.
LEMMA RunKeeps ==
    ASSUME IndInv, NEW x \in Conns,
           Register(x) \/ RunEnds(x) \/ Unregister(x) \/ Cleanup(x)
    PROVE  IndInv'
  <1>1. PICK v \in {"run", "end", "cleanup", "drop"} :
            /\ Step(x, v)
            /\ v = "run" => Register(x)
            /\ v = "end" => RunEnds(x)
            /\ v = "cleanup" => Unregister(x)
            /\ v = "drop" => Cleanup(x)
    BY DEF Register, RunEnds, Unregister, Cleanup
  <1>2. /\ s[x] \in {"bound", "run", "end", "cleanup"}
        /\ UNCHANGED <<active, listening, raced>> /\ Unmoved
        /\ v # "drop" => UNCHANGED <<sock, lock>>
    BY <1>1 DEF Register, RunEnds, Unregister, Cleanup, fileVars
  <1>3. /\ Unmade' /\ CountAgrees'
        /\ s' \in [Conns -> {"off", "accept", "hello", "auth", "serve", "bind", "probe",
                             "unlink", "bound", "run", "end", "cleanup", "drop",
                             "deaf", "done"}]
        /\ \A y \in Conns : s'[y] = IF y = x THEN v ELSE s[y]
    BY <1>1, <1>2, StepInRun DEF InRun
  <1>4. TypeOK'
    BY <1>1, <1>2, <1>3
       DEF IndInv, TypeOK, Unmoved, clientVars, Register, RunEnds, Unregister, Cleanup
  <1>5. Listeners'
    BY <1>2, <1>3 DEF IndInv, Listeners, HasSocket
  <1>6. raced \/ \A y \in Conns \ {x} : s[y] \notin {"bound", "run", "end", "cleanup"}
    BY <1>2 DEF IndInv, Holder
  <1>7. Holder'
    <2>1. CASE v = "drop"
      BY <1>2, <1>3, <1>6, <2>1 DEF Holder
    <2>2. CASE v # "drop"
      BY <1>2, <1>3, <1>6, <2>2 DEF IndInv, Holder
    <2> QED
      BY <2>1, <2>2
  <1>8. InputReachesView'
    <2>1. raced \/ Running' \subseteq {x}
      BY <1>3, <1>6 DEF Running
    <2>2. CASE v = "run"
      BY <1>1, <1>2, <2>1, <2>2 DEF InputReachesView, Register
    <2>3. CASE v # "run"
      BY <1>2, <1>3, <2>1, <2>3 DEF InputReachesView, Running
    <2> QED
      BY <2>2, <2>3
  <1> QED
    BY <1>3, <1>4, <1>5, <1>7, <1>8 DEF IndInv

\* The second unlink: nobody holds the name, or the race is on record.
LEMMA DropListenerKeeps ==
    ASSUME IndInv, NEW x \in Conns, DropListener(x)
    PROVE  IndInv'
  <1>1. PICK v \in {"deaf", "done"} : s' = [s EXCEPT ![x] = v]
    BY DEF DropListener, Leave
  <1>2. /\ Unmade' /\ CountAgrees' /\ active' \in 0 .. MaxClients
        /\ s' \in [Conns -> {"off", "accept", "hello", "auth", "serve", "bind", "probe",
                             "unlink", "bound", "run", "end", "cleanup", "drop",
                             "deaf", "done"}]
    BY LeaveKeeps DEF DropListener, Unmoved, clientVars
  <1>3. \A y \in Conns : s'[y] = IF y = x THEN v ELSE s[y]
    BY <1>1 DEF IndInv, TypeOK
  <1>4. TypeOK'
    BY <1>2 DEF IndInv, TypeOK, DropListener, Unmoved, clientVars
  <1>5. Listeners'
    BY <1>3 DEF IndInv, Listeners, HasSocket, DropListener
  <1>6. raced \/ \A y \in Conns : s[y] \notin {"bound", "run", "end", "cleanup"}
    BY DEF IndInv, Holder, DropListener
  <1>7. Holder' /\ InputReachesView'
    BY <1>3, <1>6 DEF Holder, InputReachesView, Running, DropListener
  <1> QED
    BY <1>2, <1>4, <1>5, <1>7 DEF IndInv

\* The server's death ends every thread and session at once.
LEMMA CrashKeeps ==
    ASSUME IndInv, Crash
    PROVE  IndInv'
  <1>1. \A y \in Conns : s'[y] \in {"off", "done"} /\ (s[y] = "off" => s'[y] = "off")
    BY DEF Crash
  <1>2. TypeOK'
    BY SessionsAssumption DEF IndInv, TypeOK, Crash, clientVars
  <1>3. Unmade'
    BY <1>1 DEF IndInv, Unmade, Crash, clientVars
  <1>4. CountAgrees'
    <2>1. {y \in Conns : Tcp(y) /\ s'[y] \notin {"off", "accept", "deaf", "done"}} = {}
      BY <1>1
    <2> QED
      BY <2>1, FS_EmptySet DEF CountAgrees, Crash
  <1>5. Listeners' /\ Holder' /\ InputReachesView'
    BY <1>1 DEF Listeners, HasSocket, Holder, InputReachesView, Running, Crash
  <1> QED
    BY <1>2, <1>3, <1>4, <1>5 DEF IndInv

-----------------------------------------------------------------------------
(* The specification.                                                      *)

\* The program starts with nothing connected, bound or counted.
LEMMA InitEstablishes == Init => IndInv
  <1> SUFFICES ASSUME Init PROVE IndInv
    OBVIOUS
  <1>1. TypeOK
    <2>1. active \in 0 .. MaxClients /\ crashes \in 0 .. MaxCrashes
      BY SessionsAssumption DEF Init
    <2>2. raced \in BOOLEAN
      BY DEF Init
    <2> QED
      BY <2>1, <2>2 DEF Init, TypeOK
  <1>2. Unmade
    BY DEF Init, Unmade, Conns
  <1>3. CountAgrees
    <2>1. {y \in Conns : Tcp(y) /\ s[y] \notin {"off", "accept", "deaf", "done"}} = {}
      BY DEF Init
    <2> QED
      BY <2>1, FS_EmptySet DEF CountAgrees, Init
  <1>4. Listeners /\ Holder /\ InputReachesView
    BY DEF Init, Listeners, HasSocket, Holder, InputReachesView, Running
  <1> QED
    BY <1>1, <1>2, <1>3, <1>4 DEF IndInv

\* Every step of a viewer, a connection, a session or a crash keeps IndInv.
LEMMA NextKeeps == IndInv /\ [Next]_vars => IndInv'
  <1> SUFFICES ASSUME IndInv, [Next]_vars PROVE IndInv'
    OBVIOUS
  <1>1. ASSUME NEW p \in Viewers, NEW m \in Modes, NEW b \in Builds, Begin(p, m, b)
        PROVE  IndInv'
    BY <1>1, BeginKeeps
  <1>2. ASSUME NEW x \in Conns, Handshake(x) \/ ClientFails(x)
        PROVE  IndInv'
    BY <1>2, ConnectKeeps, ClientWelcomeKeeps, ClientFailsKeeps DEF Handshake
  <1>3. ASSUME NEW p \in Viewers, Viewer(p) \/ ViewerExits(p)
        PROVE  IndInv'
    BY <1>3, QuicFailsKeeps, ViewFailsKeeps, ViewerExitsKeeps DEF Viewer
  <1>4. ASSUME NEW x \in Conns, Connection(x)
        PROVE  IndInv'
    BY <1>4, ConnectionKeeps
  <1>5. ASSUME NEW x \in Conns, Session(x) \/ RunEnds(x)
        PROVE  IndInv'
    BY <1>5, BindKeeps, ProbeKeeps, UnlinkKeeps, RunKeeps, DropListenerKeeps DEF Session
  <1>6. CASE Crash
    BY <1>6, CrashKeeps
  <1>7. CASE UNCHANGED vars
    BY <1>7 DEF vars, clientVars, fileVars, IndInv, TypeOK, Unmade, CountAgrees,
                Listeners, Holder, InputReachesView, Running
  <1> QED
    BY <1>1, <1>2, <1>3, <1>4, <1>5, <1>6, <1>7 DEF Next

\* IndInv holds in every reachable state.
LEMMA Inductive == Spec => []IndInv
  BY InitEstablishes, NextKeeps, PTL DEF Spec

\* Every variable keeps its type; the count never goes below zero or beyond
\* max_clients, and sock, lock and slot only ever name a connection of this
\* server or what a crash left.
THEOREM TypeCorrect == Spec => []TypeOK
  <1>1. IndInv => TypeOK
    BY DEF IndInv
  <1> QED
    BY <1>1, Inductive, PTL

\* The accept loop's count is the number of TCP threads, on every way out of
\* handle and run and after a crash, whatever the number of viewers.
THEOREM CountAlwaysAgrees == Spec => []CountAgrees
  <1>1. IndInv => CountAgrees
    BY DEF IndInv
  <1> QED
    BY <1>1, Inductive, PTL

\* A session that runs owns the socket name, unless a socket was bound in one
\* of the two windows socket.rs leaves open.
THEOREM NameAlwaysOwned == Spec => []OwnsName
  <1>1. IndInv => OwnsName
    BY DEF IndInv, Holder, OwnsName, Running
  <1> QED
    BY <1>1, Inductive, PTL

\* A session that runs gets the input, with the same exception.
THEOREM InputAlwaysReachesView == Spec => []InputReachesView
  <1>1. IndInv => InputReachesView
    BY DEF IndInv
  <1> QED
    BY <1>1, Inductive, PTL

=============================================================================
