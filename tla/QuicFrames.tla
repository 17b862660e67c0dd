----------------------------- MODULE QuicFrames -----------------------------
(***************************************************************************)
(* A view session over QUIC: server data_plane/quic_listener.rs (from the  *)
(* ViewRequest on), client data_plane/quic.rs (view_network_async and the  *)
(* assembler) and the datagrams of proto data_plane.rs.                    *)
(*                                                                         *)
(* Tiles go as datagrams, which arrive in any order or never; the events   *)
(* of a window go on a stream of its own, all else on the main stream.     *)
(* Streams are ordered, but not among each other.  A datagram lost is one  *)
(* that is never read.  A message is named by its place in log.            *)
(***************************************************************************)
EXTENDS Integers, Sequences, FiniteSets, FiniteSetsExt, Functions

CONSTANTS
    Windows,        \* window ids, numbers each used once
    Lens,           \* bytes of a tile
    PayloadLimit,   \* bytes of a datagram's payload
    MaxFrame,       \* MAX_FRAME_BYTES
    MaxPending,     \* MAX_PENDING_FRAMES
    MaxChunks,      \* MAX_CHUNKS_PER_FRAME
    MaxUni,         \* streams the peer lets be open at a time
    MaxSent         \* bound: messages the compositor sends

ASSUME QuicAssumption ==
    /\ Windows \subseteq Nat \ {0} /\ Lens \subseteq Nat
    /\ PayloadLimit \in Nat \ {0} /\ MaxPending \in Nat \ {0}
    /\ {MaxFrame, MaxChunks, MaxUni, MaxSent} \subseteq Nat

VARIABLES
    window,            \* the compositor's windows: "new", "live" or "gone"
    log,               \* what the compositor sent
    queue,             \* outbound_rx and async_out_rx: numbers in log
    writer,            \* the writer task: "run" or "done"
    frame_seq,
    channel_streams,   \* the stream of a window, 0 for none
    inbound,           \* inbound_rx
    disconnected,
    session,           \* "run", "ended" (the compositor returned) or "closed"
    conn,              \* the connection: "open" or "closed"
    streams,           \* streams to the client; the first is the main one
    datagrams,         \* in flight
    up,                \* the stream to the server
    viewer,            \* the event loop behind the proxy: "open" or "closed"
    farewell,          \* the client's writer has said goodbye
    pending,           \* FrameTileDatagramAssembler.pending
    last, shown        \* what reached the viewer: see ViewStream

compositorVars == <<window, log, session, inbound>>
serverVars == <<queue, writer, frame_seq, channel_streams, disconnected>>
netVars == <<conn, streams, datagrams, up>>
clientVars == <<viewer, farewell, pending, last, shown>>
vars == <<compositorVars, serverVars, netVars, clientVars>>

\* Where a message belongs: a window, the main stream or the tiles.
Main == 0
TileChannel == -1
Channels == Windows \cup {Main}

Event(w, what) == [chan |-> w, win |-> w, what |-> what, len |-> 0]
Tile(w, len) == [chan |-> TileChannel, win |-> w, what |-> "tile", len |-> len]
Other == [chan |-> Main, win |-> Main, what |-> "other", len |-> 0]
Messages ==
    {Event(w, what) : w \in Windows, what \in {"created", "changed", "destroyed"}}
        \cup {Tile(w, len) : w \in Windows, len \in Lens} \cup {Other}

-----------------------------------------------------------------------------
(* Tiles as datagrams.                                                     *)

ChunkCount(len) == IF len = 0 THEN 1 ELSE (len + PayloadLimit - 1) \div PayloadLimit

\* The bytes of chunk i: the last one takes what is left.
ChunkSize(len, i) == IF len - i * PayloadLimit < PayloadLimit
                     THEN len - i * PayloadLimit ELSE PayloadLimit

\* FrameTileHeader: the rectangle stands for the tile's size.
Header(m) == [id |-> m.win, len |-> m.len]

\* frame_tile_datagrams: the chunks of message n sent as frame seq.  content
\* names the message whose bytes a chunk carries.
FrameTileDatagrams(n, seq) ==
    LET m == log[n]
    IN {[channel |-> m.win, seq |-> seq, index |-> i, count |-> ChunkCount(m.len),
         total |-> m.len, header |-> Header(m), size |-> ChunkSize(m.len, i),
         content |-> n] : i \in 0 .. (ChunkCount(m.len) - 1)}

\* FrameTileDatagramAssembler::push.
Acceptable(c) ==
    /\ c.count # 0 /\ c.count <= MaxChunks /\ c.index < c.count
    /\ c.total <= MaxFrame

\* Mutant: frames are told apart by their window alone.
KeyOfWindow(c) == <<c.channel, 0>>

Key(c) == <<c.channel, c.seq>>

NewSlot(c) == [header |-> c.header, total |-> c.total,
               chunks |-> [i \in 0 .. (c.count - 1) |-> 0], received |-> 0]

\* Mutant: the limit is off by one.
RoomForOneMore(c) ==
    IF Key(c) \notin DOMAIN pending /\ Cardinality(DOMAIN pending) > MaxPending
    THEN <<>> ELSE pending

\* The table is emptied when a new frame would make it too large.
Room(c) ==
    IF Key(c) \notin DOMAIN pending /\ Cardinality(DOMAIN pending) >= MaxPending
    THEN <<>> ELSE pending

Slot(c) == IF Key(c) \in DOMAIN Room(c) THEN Room(c)[Key(c)] ELSE NewSlot(c)

Fits(c) ==
    /\ Slot(c).total = c.total /\ Slot(c).header = c.header
    /\ Cardinality(DOMAIN Slot(c).chunks) = c.count

Filled(c) ==
    [Slot(c) EXCEPT !.chunks[c.index] = c.content, !.received = @ + c.size]

Complete(slot) == \A i \in DOMAIN slot.chunks : slot.chunks[i] # 0

Forget(c) == Restrict(Room(c), DOMAIN Room(c) \ {Key(c)})
Keep(c, slot) == [k \in DOMAIN Room(c) \cup {Key(c)} |->
                     IF k = Key(c) THEN slot ELSE Room(c)[k]]

\* The table after push.
Pushed(c) ==
    CASE ~ Acceptable(c) -> pending
      [] Acceptable(c) /\ ~ Fits(c) -> Forget(c)
      [] Acceptable(c) /\ Fits(c) /\ Slot(c).chunks[c.index] # 0 -> Keep(c, Slot(c))
      [] OTHER -> IF Filled(c).received > c.total \/ Complete(Filled(c))
                  THEN Forget(c) ELSE Keep(c, Filled(c))

\* The messages whose bytes make up the tile push returns, {} for None.
Returned(c) ==
    IF /\ Acceptable(c) /\ Fits(c) /\ Slot(c).chunks[c.index] = 0
       /\ Filled(c).received = c.total /\ Complete(Filled(c))
    THEN Range(Filled(c).chunks)
    ELSE {}

-----------------------------------------------------------------------------
(* The server.                                                             *)

Init ==
    /\ window = [w \in Windows |-> "new"] /\ log = <<>>
    /\ queue = <<>> /\ writer = "run" /\ frame_seq = 0
    /\ channel_streams = [w \in Windows |-> 0]
    /\ inbound = <<>> /\ disconnected = FALSE /\ session = "run"
    /\ conn = "open" /\ streams = <<[msgs |-> <<>>, ready |-> TRUE, state |-> "open"]>>
    /\ datagrams = {} /\ up = <<>>
    /\ viewer = "open" /\ farewell = FALSE /\ pending = <<>>
    /\ last = [c \in Channels |-> 0] /\ shown = [n \in 0 .. MaxSent |-> 0]

\* The connection closes: nothing in flight arrives any more, and the tasks
\* of the client end with what they hold.
Cut ==
    /\ conn' = "closed" /\ datagrams' = {} /\ up' = <<>> /\ pending' = <<>>
    /\ streams' = [s \in DOMAIN streams |-> [streams[s] EXCEPT !.msgs = <<>>]]

\* The writer ends: its receiver and its streams are dropped.
WriterEnds ==
    /\ writer' = "done" /\ queue' = <<>>
    /\ channel_streams' = [w \in Windows |-> 0]

\* What the compositor may say next (Compositor, Toplevels).
Sayable ==
    LET live == {w \in Windows : window[w] = "live"}
        new == {w \in Windows : window[w] = "new"}
    IN {Event(w, "created") : w \in {v \in new : v = Min(new)}}
       \cup {Event(w, what) : w \in live, what \in {"changed", "destroyed"}}
       \cup {Tile(w, len) : w \in live, len \in Lens} \cup {Other}

\* WaylandIo::send and the bridge.  What the compositor says after the
\* writer ended is dropped, or fails and ends the session, which the flag the
\* writer set does too.
Compose(m) ==
    /\ session = "run" /\ ~ disconnected /\ Len(log) < MaxSent
    /\ log' = Append(log, m)
    /\ window' = CASE m.what = "created" -> [window EXCEPT ![m.win] = "live"]
                   [] m.what = "destroyed" -> [window EXCEPT ![m.win] = "gone"]
                   [] OTHER -> window
    /\ queue' = Append(queue, Len(log) + 1)
    /\ UNCHANGED <<session, inbound, writer, frame_seq, channel_streams, disconnected,
                   netVars, clientVars>>

\* The checks at the top of the compositor loop and on a Goodbye.
CompositorLoop ==
    /\ session = "run" /\ (disconnected \/ inbound # <<>>)
    /\ inbound' = IF disconnected THEN inbound ELSE Tail(inbound)
    /\ session' = IF disconnected \/ Head(inbound) = "goodbye" THEN "ended" ELSE "run"
    /\ UNCHANGED <<window, log, serverVars, netVars, clientVars>>

\* handle_connection after the compositor: the tasks are aborted and with
\* the last handle the connection closes.
Abort ==
    /\ session = "ended"
    /\ session' = "closed" /\ disconnected' = TRUE /\ WriterEnds
    /\ inbound' = <<>> /\ Cut
    /\ UNCHANGED <<window, log, frame_seq, viewer, farewell, last, shown>>

\* The reader task.
ServerReads ==
    /\ session = "run" /\ ~ disconnected
    /\ \/ /\ conn = "open" /\ up # <<>> /\ Head(up) # "end"
          /\ inbound' = Append(inbound, Head(up)) /\ up' = Tail(up)
          /\ UNCHANGED disconnected
       \/ /\ conn = "closed" \/ (up # <<>> /\ Head(up) = "end")
          /\ disconnected' = TRUE
          /\ UNCHANGED <<inbound, up>>
    /\ UNCHANGED <<window, log, session, queue, writer, frame_seq,
                   channel_streams, conn, streams, datagrams, clientVars>>

\* encode_frame refuses a frame over MAX_FRAME_BYTES.
Encodable(n) == log[n].len <= MaxFrame

Wrote == queue' = Tail(queue) /\ UNCHANGED <<writer, disconnected>>

\* Streams of the peer's allowance in use: open, or with something to read.
Used == {s \in 2 .. Len(streams) :
            streams[s].state = "open" \/ streams[s].msgs # <<>>}

Put(ss, s, n) == [ss EXCEPT ![s].msgs = Append(@, n)]

\* The stream of a window, opened with prelude and DataPlaneChannel (0) when
\* it has none.
Opened(w) ==
    IF channel_streams[w] # 0 THEN streams
    ELSE Append(streams, [msgs |-> <<0>>, ready |-> FALSE, state |-> "open"])
ChannelOf(w) ==
    IF channel_streams[w] # 0 THEN channel_streams[w] ELSE Len(streams) + 1

\* write_channel_frame is at its open_uni, waiting for the allowance.
MayOpen(w) ==
    channel_streams[w] # 0 \/ conn = "closed" \/ Cardinality(Used) < MaxUni

\* Mutant: the stream is forgotten and stays open.
FinishNot(ss, s) == ss

\* close_channel_stream, and the drop of a stream: it is finished.
Finish(ss, s) == IF s # 0 /\ ss[s].state = "open"
                 THEN [ss EXCEPT ![s].state = "finished"] ELSE ss

\* write_frame on the main stream; a failure ends the writer.
WriteMain(n, ss) ==
    IF conn = "open" /\ Encodable(n)
    THEN streams' = Put(ss, 1, n) /\ Wrote
    ELSE streams' = ss /\ WriterEnds /\ disconnected' = TRUE

\* write_channel_frame, and the main stream when it fails; closing finishes
\* the channel behind the message.
WriteChannel(n, closing) ==
    LET w == log[n].win
        ok == /\ conn = "open" /\ Encodable(n)
              /\ Opened(w)[ChannelOf(w)].state = "open"
    IN /\ MayOpen(w)
       /\ IF ok
          THEN /\ streams' = LET ss == Put(Opened(w), ChannelOf(w), n)
                             IN IF closing THEN Finish(ss, ChannelOf(w)) ELSE ss
               /\ channel_streams' = [channel_streams EXCEPT
                                          ![w] = IF closing THEN 0 ELSE ChannelOf(w)]
               /\ Wrote
          ELSE /\ WriteMain(n, IF conn = "open" THEN Finish(Opened(w), ChannelOf(w))
                               ELSE streams)
               /\ writer' = "run" =>
                      channel_streams' = [channel_streams EXCEPT ![w] = 0]

WriterTakes(n) ==
    /\ writer = "run" /\ queue # <<>> /\ n = Head(queue)
    /\ UNCHANGED <<compositorVars, conn, up, clientVars>>

\* send_frame_tile_datagrams, which fails after k of them when k is not all:
\* no support, a shrunken limit, a lost connection.
SendFrameTileDatagrams(n, seq, k) ==
    /\ conn = "closed" => k = 0
    /\ datagrams' = datagrams \cup {c \in FrameTileDatagrams(n, seq) : c.index < k}

WriteTile(n, k) ==
    /\ WriterTakes(n) /\ log[n].what = "tile"
    /\ frame_seq' = frame_seq + 1
    /\ SendFrameTileDatagrams(n, frame_seq + 1, k)
    /\ IF k = ChunkCount(log[n].len)
       THEN Wrote /\ UNCHANGED <<streams, channel_streams>>
       ELSE WriteChannel(n, FALSE)

WriteWindowEvent(n) ==
    /\ WriterTakes(n) /\ log[n].chan \in Windows
    /\ WriteChannel(n, log[n].what = "destroyed")
    /\ UNCHANGED <<frame_seq, datagrams>>

WriteOther(n) ==
    /\ WriterTakes(n) /\ log[n].chan = Main
    /\ WriteMain(n, streams)
    /\ writer' = "run" => UNCHANGED channel_streams
    /\ UNCHANGED <<frame_seq, datagrams>>

\* The compositor is gone and everything is written.
WriterDrains ==
    /\ writer = "run" /\ queue = <<>> /\ session = "ended"
    /\ WriterEnds /\ disconnected' = TRUE
    /\ UNCHANGED <<compositorVars, frame_seq, netVars, clientVars>>

-----------------------------------------------------------------------------
(* The network and the client.                                             *)

\* The connection dies: the peer vanishes, or nothing moved for the idle time.
ConnectionLost ==
    /\ conn = "open" /\ Cut
    /\ UNCHANGED <<compositorVars, serverVars, viewer, farewell, last, shown>>

\* The datagram reader, with the viewer there and without.
ReadDatagram(c) ==
    /\ conn = "open" /\ c \in datagrams
    /\ IF Returned(c) # {} /\ viewer = "closed" THEN Cut /\ UNCHANGED shown
       ELSE /\ pending' = Pushed(c)
            /\ datagrams' = datagrams \ {c}
            /\ shown' = IF Returned(c) = {} THEN shown
                        ELSE [shown EXCEPT ![IF Cardinality(Returned(c)) = 1
                                             THEN Max(Returned(c)) ELSE 0] = @ + 1]
            /\ UNCHANGED <<conn, streams, up>>
    /\ UNCHANGED <<compositorVars, serverVars, viewer, farewell, last>>

\* proxy.send_event
Hand(n) ==
    IF log[n].what = "tile"
    THEN shown' = [shown EXCEPT ![n] = @ + 1] /\ UNCHANGED last
    ELSE last' = [last EXCEPT ![log[n].chan] = n] /\ UNCHANGED shown

\* read_channel_stream: the header comes first, then what it carries.
ReadChannel(s) ==
    /\ conn = "open" /\ s \in 2 .. Len(streams)
    /\ streams[s].state # "stopped" /\ streams[s].msgs # <<>>
    /\ LET n == Head(streams[s].msgs)
           stop == IF streams[s].ready THEN viewer = "closed" ELSE n # 0
       IN /\ streams' = [streams EXCEPT ![s] =
                 [msgs |-> IF stop THEN <<>> ELSE Tail(@.msgs), ready |-> TRUE,
                  state |-> IF stop THEN "stopped" ELSE @.state]]
          /\ IF stop \/ n = 0 THEN UNCHANGED <<last, shown>> ELSE Hand(n)
    /\ UNCHANGED <<compositorVars, serverVars, conn, datagrams, up, viewer,
                   farewell, pending>>

\* The loop of view_network_async on the main stream.
ReadMain ==
    /\ conn = "open" /\ streams[1].msgs # <<>>
    /\ IF viewer = "closed" THEN Cut /\ UNCHANGED <<last, shown>>
       ELSE /\ streams' = [streams EXCEPT ![1].msgs = Tail(@)]
            /\ Hand(Head(streams[1].msgs))
            /\ UNCHANGED <<conn, datagrams, up, pending>>
    /\ UNCHANGED <<compositorVars, serverVars, viewer, farewell>>

\* The outbound bridge and the writer, which carry the input (Input): with
\* the viewer's sender dropped the writer says goodbye and ends.
ClientWriterEnds ==
    /\ viewer = "closed" /\ conn = "open" /\ ~ farewell
    /\ farewell' = TRUE /\ up' = up \o <<"goodbye", "end">>
    /\ UNCHANGED <<compositorVars, serverVars, conn, streams, datagrams, viewer, pending, last, shown>>

ViewerCloses ==
    /\ viewer = "open" /\ viewer' = "closed"
    /\ UNCHANGED <<compositorVars, serverVars, netVars, farewell, pending, last,
                   shown>>

Writer ==
    \/ \E n \in DOMAIN log :
          \/ \E k \in 0 .. ChunkCount(log[n].len) : WriteTile(n, k)
          \/ WriteWindowEvent(n)
          \/ WriteOther(n)
    \/ WriterDrains

ClientReaders == ReadMain \/ \E s \in DOMAIN streams : ReadChannel(s)

Compositor == CompositorLoop \/ Abort

Next ==
    \/ \E m \in Sayable : Compose(m)
    \/ Compositor \/ ServerReads \/ Writer
    \/ ConnectionLost \/ ViewerCloses
    \/ \E c \in datagrams : ReadDatagram(c)
    \/ ClientReaders \/ ClientWriterEnds

\* Threads and tasks run; nobody has to write, and no datagram must arrive.
Fairness ==
    /\ WF_vars(Compositor) /\ WF_vars(ServerReads) /\ WF_vars(Writer)
    /\ WF_vars(ClientReaders) /\ WF_vars(ClientWriterEnds)

Spec == Init /\ [][Next]_vars /\ Fairness

-----------------------------------------------------------------------------
TypeOK ==
    /\ window \in [Windows -> {"new", "live", "gone"}]
    /\ \A n \in DOMAIN log : log[n] \in Messages
    /\ \A i \in DOMAIN queue : queue[i] \in DOMAIN log
    /\ writer \in {"run", "done"} /\ frame_seq \in 0 .. MaxSent
    /\ channel_streams \in [Windows -> 0 .. Len(streams)]
    /\ \A i \in DOMAIN inbound : inbound[i] \in {"goodbye"}
    /\ \A i \in DOMAIN up : up[i] \in {"goodbye", "end"}
    /\ {disconnected, farewell} \subseteq BOOLEAN
    /\ session \in {"run", "ended", "closed"} /\ conn \in {"open", "closed"}
    /\ \A s \in DOMAIN streams : streams[s].state \in {"open", "finished", "stopped"}
    /\ viewer \in {"open", "closed"}
    /\ last \in [Channels -> 0 .. Len(log)]

\* push keeps no more than MAX_PENDING_FRAMES frames, each incomplete, within
\* its length and made of the bytes of one tile.
AssemblerSound ==
    /\ Cardinality(DOMAIN pending) <= MaxPending
    /\ \A k \in DOMAIN pending :
          LET slot == pending[k] IN
          /\ ~ Complete(slot) /\ slot.received <= slot.total
          /\ Cardinality(Range(slot.chunks) \ {0}) = 1

\* A view session over QUIC keeps the promises of ViewStream.
View == INSTANCE ViewStream WITH Tiles <- TileChannel
Delivers == View!Spec

\* There are more windows than streams: the writer waits at open_uni for the
\* stream of a window whose end is behind it in the queue.
Crowded == Cardinality({w \in Windows : window[w] = "live"}) > MaxUni

\* While there are no more windows than the peer lets streams be open, a
\* window event or another message that was sent reaches the viewer, unless
\* the connection or the viewer goes: no wait for a stream is for ever.
Behind == \E n \in DOMAIN log : log[n].what # "tile" /\ last[log[n].chan] < n
EventsArrive == []~ Crowded => (Behind ~> (~ Behind \/ conn = "closed" \/ viewer = "closed"))

=============================================================================
