------------------------------ MODULE Sessions ------------------------------
(***************************************************************************)
(* How a viewer reaches vbox-server and how the server starts and ends     *)
(* view sessions: the client's net.rs, data_plane/tcp.rs and quic.rs (the  *)
(* handshakes and the fallback from QUIC to TCP), the server's main.rs and *)
(* quic_listener.rs (accept, handshake, dispatch) and wayland_session's    *)
(* run, socket.rs, io.rs and input_registration.rs.                        *)
(*                                                                         *)
(* A viewer has a QUIC connection, or a TCP connection for the view and    *)
(* one for input.  When it is closed another may be started at once, for   *)
(* the same server and Wayland socket name.  What a session shows is in    *)
(* QuicFrames and Windows, what input does in Input.                       *)
(***************************************************************************)
EXTENDS Integers, Sequences, FiniteSets

CONSTANTS
    NumViewers,    \* viewer processes, one after the other
    Modes,         \* of "tcp", "quic" and "auto"
    Builds,        \* of "same", "badtoken", "badcert" and "other"
    QuicBind,      \* whether the server was started with --quic-bind
    MaxClients,    \* --max-clients
    MaxPlanes,     \* bound: data planes tried, over all viewers
    MaxCrashes,    \* bound: crashes of the server
    None, Dead     \* no one; the owner of a file left by a crash

Viewers == 1 .. NumViewers
Conns == Viewers \X {"quic", "view", "input"}

ASSUME SessionsAssumption ==
    /\ NumViewers \in Nat /\ None \notin Conns /\ Dead \notin Conns
    /\ Modes \subseteq {"tcp", "quic", "auto"}
    /\ Builds \subseteq {"same", "badtoken", "badcert", "other"}
    /\ QuicBind \in BOOLEAN
    /\ MaxClients \in Nat /\ MaxPlanes \in Nat /\ MaxCrashes \in Nat

VARIABLES
    mode,        \* DataPlaneMode of a viewer
    build,       \* a viewer's protocol version, token and certificate pin
    net,         \* where a viewer is: "new", "quic", "tcp", "told" or "over"
    c,           \* the client's end of a connection
    s,           \* the server's end: a thread or task
    up, down,    \* what a connection carries
    active,      \* the server's count of TCP connections
    slot,        \* INPUT_SENDER: the session input is forwarded to
    sock, lock,  \* who made the socket file and the lock file at the path
    listening,   \* sessions whose ListeningSocket is alive
    raced,       \* a socket was bound while another session was about to unlink
    crashes

clientVars == <<mode, build, net, c>>
fileVars == <<sock, lock, listening, raced>>
vars == <<clientVars, s, up, down, active, slot, fileVars, crashes>>

Tcp(x) == x[2] # "quic"
Step(x, to) == s' = [s EXCEPT ![x] = to]

-----------------------------------------------------------------------------
(* The client.                                                             *)

\* The connections a viewer opens.
Opening(p, n) == IF n = "quic" THEN {<<p, "quic">>} ELSE {<<p, "view">>, <<p, "input">>}

Enter(p, n) ==
    /\ net' = [net EXCEPT ![p] = n]
    /\ c' = [x \in Conns |-> IF x \in Opening(p, n) THEN "connect" ELSE c[x]]

Init ==
    /\ mode = [p \in Viewers |-> "tcp"] /\ build = [p \in Viewers |-> "same"]
    /\ net = [p \in Viewers |-> "new"]
    /\ c = [x \in Conns |-> "off"] /\ s = [x \in Conns |-> "off"]
    /\ up = [x \in Conns |-> <<>>] /\ down = [x \in Conns |-> <<>>]
    /\ active = 0 /\ slot = None /\ sock = None /\ lock = None
    /\ listening = {} /\ raced = FALSE /\ crashes = 0

\* spawn_view_network.  A viewer of mode "auto" without an address or a token
\* for QUIC is one of mode "tcp", one of mode "quic" does not start.
FirstPlane(m) == IF m = "tcp" THEN "tcp" ELSE "quic"

\* How many data planes a viewer of mode m may try.
Planes(m) == IF m = "auto" THEN 2 ELSE 1

\* view_with_transport.
Begin(p, m, b) ==
    /\ net[p] = "new" /\ (m = "tcp" => b \in {"same", "other"})
    /\ \A o \in 1 .. p - 1 : net[o] = "over" /\ Planes(mode[o]) + Planes(m) <= MaxPlanes
    /\ mode' = [mode EXCEPT ![p] = m] /\ build' = [build EXCEPT ![p] = b]
    /\ Enter(p, FirstPlane(m))
    /\ UNCHANGED <<s, up, down, active, slot, fileVars, crashes>>

\* Someone listens at the address.
Listens(x) == Tcp(x) \/ QuicBind

\* PinnedServerVerification: the certificate is the one the client was given.
Trusted(x) == Tcp(x) \/ build[x[1]] # "badcert"

\* Both ends write their prelude before they read the other's.
Hello == <<"prelude", "hello">>

\* The connection is made, or refused or too slow.
Connect(x) ==
    /\ c[x] = "connect"
    /\ \/ /\ Listens(x) /\ Trusted(x)
          /\ c' = [c EXCEPT ![x] = "hello"] /\ s' = [s EXCEPT ![x] = "accept"]
          /\ up' = [up EXCEPT ![x] = Hello]
       \/ c' = [c EXCEPT ![x] = "failed"] /\ UNCHANGED <<s, up>>
    /\ UNCHANGED <<mode, build, net, down, active, slot, fileVars, crashes>>

\* What is written once the Welcome is there.
Auth(p) == <<IF build[p] = "badtoken" THEN "badauth" ELSE "auth">>
Request(x) ==
    CASE x[2] = "quic" -> Auth(x[1]) \o <<"request">>
      [] x[2] = "view" -> <<"request">>
      [] x[2] = "input" -> <<>>

\* read_frame for the Welcome: a refusal ends the handshake.  A connection
\* may break after n of the messages that follow.
ClientWelcome(x, n) ==
    /\ c[x] = "hello" /\ down[x] # <<>>
    /\ down' = [down EXCEPT ![x] = Tail(@)]
    /\ \/ /\ Head(down[x]) = "welcome"
          /\ c' = [c EXCEPT ![x] = IF n = Len(Request(x)) THEN "up" ELSE "failed"]
          /\ up' = [up EXCEPT ![x] = IF s[x] = "done" THEN <<>>
                                     ELSE SubSeq(Request(x), 1, n)]
       \/ /\ Head(down[x]) # "welcome" /\ n = 0
          /\ c' = [c EXCEPT ![x] = "failed"] /\ UNCHANGED up
    /\ UNCHANGED <<mode, build, net, s, active, slot, fileVars, crashes>>

\* A read or write fails: the server closed, the handshake timed out, the
\* connection was lost.  A TCP view that is up is only lost with the server:
\* the thread vbox-tcp-view-read keeps the stream when the session has ended.
ClientFails(x) ==
    /\ \/ c[x] = "hello"
       \/ c[x] = "up" /\ (x[2] = "quic" \/ s[x] = "done")
    /\ c' = [c EXCEPT ![x] = "failed"] /\ down' = [down EXCEPT ![x] = <<>>]
    /\ UNCHANGED <<mode, build, net, s, up, active, slot, fileVars, crashes>>

\* Mutant: only QuicOnly reacts.
QuicFailsSilently(p) ==
    /\ net[p] = "quic" /\ c[<<p, "quic">>] = "failed" /\ mode[p] = "quic"
    /\ net' = [net EXCEPT ![p] = "told"]
    /\ UNCHANGED <<mode, build, c, s, up, down, active, slot, fileVars, crashes>>

\* The QUIC attempt failed: Auto opens the gate of the tee and goes on with
\* TCP, QuicOnly reports ViewerEvent::Disconnected.
QuicFails(p) ==
    /\ net[p] = "quic" /\ c[<<p, "quic">>] = "failed"
    /\ \/ mode[p] = "auto" /\ Enter(p, "tcp")
       \/ mode[p] = "quic" /\ net' = [net EXCEPT ![p] = "told"] /\ UNCHANGED c
    /\ UNCHANGED <<mode, build, s, up, down, active, slot, fileVars, crashes>>

\* The thread of the view reports ViewerEvent::Disconnected; the thread of
\* the input connection only prints.
ViewFails(p) ==
    /\ net[p] = "tcp" /\ c[<<p, "view">>] = "failed"
    /\ net' = [net EXCEPT ![p] = "told"]
    /\ UNCHANGED <<mode, build, c, s, up, down, active, slot, fileVars, crashes>>

\* The end of input_network: the channel is closed and a Goodbye written, if
\* the process lives long enough.
Bye(x) == IF x[2] = "input" /\ c[x] = "up" /\ s[x] # "done"
          THEN {<<>>, <<"goodbye">>} ELSE {<<>>}

\* The user closes the viewer, or it was told: the process exits.
ViewerExits(p) ==
    /\ net[p] \in {"quic", "tcp", "told"}
    /\ net' = [net EXCEPT ![p] = "over"]
    /\ c' = [x \in Conns |-> IF x[1] = p /\ c[x] # "off" THEN "closed" ELSE c[x]]
    /\ down' = [x \in Conns |-> IF x[1] = p THEN <<>> ELSE down[x]]
    /\ \E bye \in Bye(<<p, "input">>) : up' = [up EXCEPT ![<<p, "input">>] = @ \o bye]
    /\ UNCHANGED <<mode, build, s, active, slot, fileVars, crashes>>

-----------------------------------------------------------------------------
(* The server: connections.                                                *)

\* Mutant: an early return of handle skips the count.
LeaveUncounted(x) ==
    /\ s' = [s EXCEPT ![x] = IF x[2] = "view" /\ s[x] \notin {"hello", "serve"}
                             THEN "deaf" ELSE "done"]
    /\ active' = IF Tcp(x) /\ s[x] = "drop" THEN active - 1 ELSE active

\* The end of a connection's thread or task.  The reader of a TCP view lives
\* on: it times out, and reads again.
Leave(x) ==
    /\ s' = [s EXCEPT ![x] = IF x[2] = "view" /\ s[x] \notin {"hello", "serve"}
                             THEN "deaf" ELSE "done"]
    /\ active' = IF Tcp(x) THEN active - 1 ELSE active

\* Mutant: the reader takes the end of the stream for a timeout.
ReaderNeverEnds(x) ==
    /\ s[x] = "deaf" /\ c[x] = "off"
    /\ s' = [s EXCEPT ![x] = "done"]
    /\ UNCHANGED <<clientVars, up, down, active, slot, fileVars, crashes>>

\* vbox-tcp-view-read sees the client's end.
ReaderEnds(x) ==
    /\ s[x] = "deaf" /\ c[x] \in {"failed", "closed"}
    /\ s' = [s EXCEPT ![x] = "done"]
    /\ UNCHANGED <<clientVars, up, down, active, slot, fileVars, crashes>>

\* What a client that is gone is not sent.
Reply(x, msg) == IF c[x] \in {"failed", "closed"} THEN <<>> ELSE <<msg>>

\* decide_accept.
Admits(x) == Tcp(x) => active + 1 <= MaxClients

\* The accept loop beyond the limit: a Goodbye, which a reset may overtake.
Refuse(x) ==
    /\ s[x] = "accept" /\ ~ Admits(x)
    /\ s' = [s EXCEPT ![x] = "done"] /\ up' = [up EXCEPT ![x] = <<>>]
    /\ \E reply \in {<<>>, Reply(x, "goodbye")} : down' = [down EXCEPT ![x] = reply]
    /\ UNCHANGED <<clientVars, active, slot, fileVars, crashes>>

\* read_prelude: a peer of another protocol version is left.
Compatible(x) == build[x[1]] # "other"

\* The accept loop counts a TCP connection before its thread has read anything.
Accept(x) ==
    /\ s[x] = "accept" /\ Admits(x) /\ Step(x, "hello")
    /\ active' = IF Tcp(x) THEN active + 1 ELSE active
    /\ UNCHANGED <<clientVars, up, down, slot, fileVars, crashes>>

\* The thread or task of a connection up to its Welcome; the connection may
\* break before the Hello is read.
Welcome(x) ==
    /\ s[x] = "hello" /\ up' = [up EXCEPT ![x] = <<>>]
    /\ \/ /\ Compatible(x) /\ Step(x, IF Tcp(x) THEN "serve" ELSE "auth")
          /\ down' = [down EXCEPT ![x] = Reply(x, "welcome")] /\ UNCHANGED active
       \/ /\ ~ Compatible(x) \/ c[x] \in {"failed", "closed"}
          /\ Leave(x) /\ UNCHANGED down
    /\ UNCHANGED <<clientVars, slot, fileVars, crashes>>

\* The peer is gone and everything it wrote is read.
Eof(x) == up[x] = <<>> /\ c[x] \in {"failed", "closed"}

\* DataPlaneAuth, of a QUIC connection.
ServerAuth(x) ==
    /\ s[x] = "auth"
    /\ \/ /\ up[x] # <<>> /\ Head(up[x]) = "auth"
          /\ up' = [up EXCEPT ![x] = Tail(@)]
          /\ s' = [s EXCEPT ![x] = "serve"] /\ UNCHANGED <<down, active>>
       \/ /\ up[x] # <<>> /\ Head(up[x]) = "badauth"
          /\ up' = [up EXCEPT ![x] = <<>>]
          /\ Leave(x) /\ down' = [down EXCEPT ![x] = Reply(x, "error")]
       \/ Eof(x) /\ Leave(x) /\ UNCHANGED <<up, down>>
    /\ UNCHANGED <<clientVars, slot, fileVars, crashes>>

\* decide_handle_action.  Input, clipboard and volume messages, which go to
\* the session in the slot or are dropped, are in Input and Clipboard.
Decision(msg) == CASE msg = "request" -> "StartView" [] msg = "goodbye" -> "Close"

\* The loop of handle, and the first message after a DataPlaneAuth.
Serve(x) ==
    /\ s[x] = "serve"
    /\ \/ /\ up[x] # <<>> /\ up' = [up EXCEPT ![x] = Tail(@)]
          /\ \/ Decision(Head(up[x])) = "StartView" /\ Step(x, "bind") /\ UNCHANGED active
             \/ Decision(Head(up[x])) = "Close" /\ Leave(x)
       \/ Eof(x) /\ Leave(x) /\ UNCHANGED up
    /\ UNCHANGED <<clientVars, down, slot, fileVars, crashes>>

-----------------------------------------------------------------------------
(* The server: view sessions (wayland_session::run).                       *)

Unmoved == UNCHANGED <<clientVars, up, down, crashes>>

\* ListeningSocket::bind makes both files anew.
Take(x) ==
    /\ sock' = x /\ lock' = x /\ listening' = listening \cup {x}
    /\ raced' = (raced \/ \E y \in Conns \ {x} : s[y] \in {"unlink", "drop"})

\* The first attempt of bind_wayland_socket: a lock file someone holds, and
\* a file without an owner too, may be in its way.
Bind(x) ==
    /\ s[x] = "bind"
    /\ \/ lock \notin listening /\ Take(x) /\ Step(x, "bound")
       \/ lock # None /\ Step(x, "probe") /\ UNCHANGED fileVars
    /\ UNCHANGED <<active, slot>> /\ Unmoved

\* Mutant: leftovers are removed without asking.
ListenerActiveNot == FALSE

\* is_listener_active: does someone answer at the path?
ListenerActive == sock \in listening

\* Mutant: the input is registered before the socket is bound, so that a
\* session that cannot start drops the registration.
ProbeUnregisters(x) ==
    /\ s[x] = "probe"
    /\ IF ListenerActive THEN Leave(x) /\ slot' = None
       ELSE Step(x, "unlink") /\ UNCHANGED <<active, slot>>
    /\ UNCHANGED fileVars /\ Unmoved

Probe(x) ==
    /\ s[x] = "probe"
    /\ IF ListenerActive THEN Leave(x) ELSE Step(x, "unlink") /\ UNCHANGED active
    /\ UNCHANGED <<slot, fileVars>> /\ Unmoved

\* The leftovers are unlinked and the socket bound, if not at once then in
\* one of the attempts that follow, or in none.
Unlink(x) ==
    /\ s[x] = "unlink"
    /\ \/ Take(x) /\ Step(x, "bound") /\ UNCHANGED active
       \/ sock' = None /\ lock' = None /\ Leave(x) /\ UNCHANGED <<listening, raced>>
    /\ UNCHANGED slot /\ Unmoved

\* InputRegistration::new, and the compositor loop begins.
Register(x) ==
    /\ s[x] = "bound"
    /\ slot' = x /\ Step(x, "run")
    /\ UNCHANGED <<active, fileVars>> /\ Unmoved

\* The loop sees that the viewer is gone, or a Wayland call fails.
RunEnds(x) ==
    /\ s[x] = "run"
    /\ Step(x, "end")
    /\ UNCHANGED <<active, slot, fileVars>> /\ Unmoved

\* The locals of run are dropped, last declared first: the registration,
Unregister(x) ==
    /\ s[x] = "end"
    /\ slot' = None /\ Step(x, "cleanup")
    /\ UNCHANGED <<active, fileVars>> /\ Unmoved

\* SocketCleanup, which unlinks whatever is at the paths,
Cleanup(x) ==
    /\ s[x] = "cleanup"
    /\ sock' = None /\ lock' = None /\ Step(x, "drop")
    /\ UNCHANGED <<active, slot, listening, raced>> /\ Unmoved

\* and the ListeningSocket, which does so again.
DropListener(x) ==
    /\ s[x] = "drop"
    /\ sock' = None /\ lock' = None /\ listening' = listening \ {x}
    /\ Leave(x)
    /\ UNCHANGED <<slot, raced>> /\ Unmoved

\* The server process dies and is started again: the files stay.
Crash ==
    /\ crashes < MaxCrashes /\ crashes' = crashes + 1
    /\ s' = [x \in Conns |-> IF s[x] = "off" THEN "off" ELSE "done"]
    /\ active' = 0 /\ slot' = None /\ listening' = {}
    /\ sock' = IF sock = None THEN None ELSE Dead
    /\ lock' = IF lock = None THEN None ELSE Dead
    /\ up' = [x \in Conns |-> <<>>] /\ down' = [x \in Conns |-> <<>>]
    /\ UNCHANGED <<clientVars, raced>>

Handshake(x) ==
    \/ Connect(x)
    \/ \E n \in 0 .. Len(Request(x)) : ClientWelcome(x, n)

Viewer(p) == QuicFails(p) \/ ViewFails(p) \/ (net[p] = "told" /\ ViewerExits(p))

Connection(x) == Refuse(x) \/ Accept(x) \/ Welcome(x) \/ ServerAuth(x) \/ Serve(x) \/ ReaderEnds(x)

Session(x) ==
    \/ Bind(x) \/ Probe(x) \/ Unlink(x) \/ Register(x)
    \/ (c[x] \in {"failed", "closed"} /\ RunEnds(x))
    \/ Unregister(x) \/ Cleanup(x) \/ DropListener(x)

Next ==
    \/ \E p \in Viewers, m \in Modes, b \in Builds : Begin(p, m, b)
    \/ \E x \in Conns : Handshake(x) \/ ClientFails(x)
    \/ \E p \in Viewers : Viewer(p) \/ ViewerExits(p)
    \/ \E x \in Conns : Connection(x) \/ Session(x) \/ RunEnds(x)
    \/ Crash

Spec == Init /\ [][Next]_vars

Progress ==
    \/ \E p \in Viewers : Viewer(p)
    \/ \E x \in Conns :
          Handshake(x) \/ (s[x] = "done" /\ ClientFails(x)) \/ Connection(x) \/ Session(x)

\* Threads and tasks run, a handshake that makes no progress times out, and a
\* client sees that its connection was closed.  The other steps are finitely
\* many, so fairness of every thread implies this.
FairSpec == Spec /\ WF_vars(Progress)

-----------------------------------------------------------------------------
TypeOK ==
    /\ mode \in [Viewers -> {"tcp", "quic", "auto"}]
    /\ build \in [Viewers -> {"same", "badtoken", "badcert", "other"}]
    /\ net \in [Viewers -> {"new", "quic", "tcp", "told", "over"}]
    /\ c \in [Conns -> {"off", "connect", "hello", "up", "failed", "closed"}]
    /\ s \in [Conns -> {"off", "accept", "hello", "auth", "serve", "bind", "probe", "unlink",
                        "bound", "run", "end", "cleanup", "drop", "deaf", "done"}]
    /\ active \in 0 .. MaxClients
    /\ slot \in Conns \cup {None} /\ {sock, lock} \subseteq Conns \cup {None, Dead}
    /\ listening \subseteq Conns
    /\ raced \in BOOLEAN /\ crashes \in 0 .. MaxCrashes

\* The accept loop's count is the number of TCP threads, from before their
\* handshake and on every way out of handle and run, so that max_clients never refuses a viewer for nothing.
CountAgrees ==
    active = Cardinality({x \in Conns : Tcp(x) /\ s[x] \notin {"off", "accept", "deaf", "done"}})

Running == {x \in Conns : s[x] = "run"}

\* A session that runs owns the socket name: apps reach it, and no second
\* compositor runs under that name.  Excused are the two windows socket.rs
\* leaves open, between probing and unlinking and between the two unlinks.
OwnsName == raced \/ \A x \in Running : sock = x /\ lock = x

\* A session that runs gets the input: one that ends or fails to start cannot
\* take the slot away from it.
InputReachesView == raced \/ \A x \in Running : slot = x

\* A viewer that starts gets a session or is told that it has none, or it is
\* a TCP viewer whose session ended, which nobody tells.
ViewerSettles ==
    \A p \in Viewers :
        (net[p] \in {"quic", "tcp"})
            ~> \/ net[p] \in {"told", "over"}
               \/ \E x \in Conns : x[1] = p /\ s[x] \in {"run", "deaf"}

\* Everything the server did for a viewer is wound up when the viewer is gone.
SessionsEnd ==
    \A p \in Viewers :
        net[p] = "over" ~> \A x \in Conns : x[1] = p => s[x] \in {"off", "done"}

=============================================================================
