-------------------------- MODULE QuicFramesProofs --------------------------
(***************************************************************************)
(* A view session over QUIC keeps the promises of ViewStream, and the      *)
(* assembler is sound, for any windows, tile lengths, payload limit, table *)
(* size and number of messages.                                            *)
(*                                                                         *)
(* The argument for the ordered channels: a message that is written goes   *)
(* behind all earlier ones of its window, because the window's stream is   *)
(* the one channel_streams names, or there is nothing left to read and the *)
(* window is new.  The argument for the tiles: the frame number a chunk    *)
(* carries names one message, a chunk is in flight or in the table but not *)
(* both, and a tile that went on a stream is missing a chunk for ever.     *)
(***************************************************************************)
EXTENDS QuicFrames, TLAPS, FiniteSetTheorems

-----------------------------------------------------------------------------
(* Types and the server's queue.                                           *)

States == {"open", "finished", "stopped"}
Streams == [msgs : Seq(Nat), ready : BOOLEAN, state : States]

Types ==
    /\ window \in [Windows -> {"new", "live", "gone"}]
    /\ log \in Seq(Messages) /\ Len(log) <= MaxSent
    /\ queue \in Seq(Nat) /\ frame_seq \in Nat
    /\ channel_streams \in [Windows -> Nat]
    /\ streams \in Seq(Streams) /\ streams # <<>>
    /\ last \in [Channels -> Nat] /\ shown \in [0 .. MaxSent -> Nat]
    /\ viewer \in {"open", "closed"} /\ conn \in {"open", "closed"}

\* The queue is the end of the log; what is before it is written, or dropped
\* with the writer.
Written == Len(log) - Len(queue)
QueueIsSuffix ==
    /\ Len(queue) <= Len(log)
    /\ \A i \in 1 .. Len(queue) : queue[i] = Written + i

\* A window that is destroyed is not heard of again.
LogOrder ==
    \A n \in 1 .. Len(log) : log[n].what = "destroyed" =>
        /\ window[log[n].win] = "gone"
        /\ \A m \in (n + 1) .. Len(log) : log[m].win # log[n].win

-----------------------------------------------------------------------------
(* The streams, while somebody reads them.                                 *)

Live == viewer = "open" /\ conn = "open"

In(q, n) == \E i \in 1 .. Len(q) : q[i] = n
Increasing(q) == \A i, j \in 1 .. Len(q) : i < j => q[i] < q[j]
On(s, n) == In(streams[s].msgs, n)

\* Streams carry messages that were written, in the order of the log; the
\* main stream those of no window.
StreamsOrdered ==
    \A s \in 1 .. Len(streams) :
        /\ Increasing(streams[s].msgs)
        /\ \A n \in Nat : On(s, n) => n <= Written
        /\ \A n \in Nat \ {0} : On(s, n) => (s = 1 <=> log[n].chan = Main)
        /\ s = 1 => ~ On(s, 0)
        /\ s # 1 /\ ~ streams[s].ready =>
              streams[s].msgs # <<>> /\ Head(streams[s].msgs) = 0

OneStream ==
    \A s, t \in 1 .. Len(streams), n \in Nat \ {0} : On(s, n) /\ On(t, n) => s = t

\* The stream channel_streams names is open, is one window's, and nothing of
\* the window is on another.
ChannelsNamed ==
    \A w \in Windows : channel_streams[w] # 0 =>
        /\ channel_streams[w] \in 2 .. Len(streams)
        /\ streams[channel_streams[w]].state = "open"
        /\ \A v \in Windows : channel_streams[v] = channel_streams[w] => v = w
        /\ \A t \in 2 .. Len(streams), n \in Nat \ {0} :
              On(t, n) /\ log[n].win = w => t = channel_streams[w]

\* A window without a stream has nothing to be read, or nothing to be written.
ChannelsUnnamed ==
    \A w \in Windows : channel_streams[w] = 0 =>
        \/ \A t \in 2 .. Len(streams), n \in Nat \ {0} : On(t, n) => log[n].win # w
        \/ /\ window[w] = "gone"
           /\ \A n \in (Written + 1) .. Len(log) : log[n].win # w

\* The messages of a channel between the last read and one on a stream are on
\* that stream too.
NoGap ==
    \A s \in 1 .. Len(streams), n \in Nat \ {0} :
        On(s, n) /\ log[n].what # "tile" =>
            /\ n > last[log[n].chan]
            /\ \A k \in 1 .. (n - 1) :
                  log[k].chan = log[n].chan /\ k > last[log[n].chan] => On(s, k)

\* What is read was written.
ReadIsWritten == \A ch \in Channels : last[ch] <= Written

\* What the writer wrote is read or on a stream.
AllWritten ==
    \A k \in 1 .. Written :
        log[k].what # "tile" /\ k > last[log[k].chan] =>
            \E s \in 1 .. Len(streams) : On(s, k)

StreamInv ==
    /\ Live => StreamsOrdered /\ OneStream /\ NoGap /\ ReadIsWritten
    /\ Live /\ writer = "run" => ChannelsNamed /\ ChannelsUnnamed /\ AllWritten

-----------------------------------------------------------------------------
(* The tiles.                                                              *)

\* Chunk i of message n is in flight, or in the table.
InFlight(n, i) == \E c \in datagrams : c.content = n /\ c.index = i
InTable(n, i) ==
    \E k \in DOMAIN pending : i \in DOMAIN pending[k].chunks /\ pending[k].chunks[i] = n
AtLarge(n, i) == InFlight(n, i) \/ InTable(n, i)

\* A slot of the table: part of the chunks of message n.
SlotType(n) ==
    [header : {Header(log[n])}, total : {log[n].len},
     chunks : [0 .. (ChunkCount(log[n].len) - 1) -> {0, n}], received : Int]
SlotOf(slot, n) ==
    /\ slot \in SlotType(n) /\ slot.received <= slot.total
    /\ ~ Complete(slot) /\ \E i \in DOMAIN slot.chunks : slot.chunks[i] = n

IsTile(n) == n \in 1 .. Written /\ log[n].what = "tile"

\* What is in flight and in the table was made from the tiles written.
ChunksMade ==
    /\ \A c \in datagrams :
          /\ IsTile(c.content) /\ c.seq \in 1 .. frame_seq
          /\ c \in FrameTileDatagrams(c.content, c.seq)
    /\ \A k \in DOMAIN pending : \E n \in Nat :
          /\ IsTile(n) /\ SlotOf(pending[k], n)
          /\ k[1] = log[n].win /\ k[2] \in 1 .. frame_seq /\ k = <<k[1], k[2]>>

\* The frames and messages of what is at large name each other.
FramesDistinct ==
    /\ \A c, d \in datagrams : c.seq = d.seq <=> c.content = d.content
    /\ \A c \in datagrams, k \in DOMAIN pending :
          c.seq = k[2] <=> \E i \in DOMAIN pending[k].chunks : pending[k].chunks[i] = c.content
    /\ \A k, l \in DOMAIN pending, n \in Nat \ {0} :
          /\ \E i \in DOMAIN pending[k].chunks : pending[k].chunks[i] = n
          /\ \E i \in DOMAIN pending[l].chunks : pending[l].chunks[i] = n
          => k = l

\* No chunk is both in flight and in the table.
ChunkOnce ==
    \A c \in datagrams, k \in DOMAIN pending :
        k = Key(c) => pending[k].chunks[c.index] = 0

TableBounded == IsFiniteSet(DOMAIN pending) /\ Cardinality(DOMAIN pending) <= MaxPending

\* A tile that was shown, or is on a stream and was not shown, lacks a chunk.
Missing(n) == \E i \in 0 .. (ChunkCount(log[n].len) - 1) : ~ AtLarge(n, i)
ShownOnce ==
    /\ \A n \in 1 .. MaxSent : shown[n] # 0 => IsTile(n) /\ Missing(n)
    /\ Live => \A s \in 1 .. Len(streams), n \in 1 .. Written :
                  On(s, n) /\ IsTile(n) => shown[n] = 0 /\ Missing(n)

TileInv == ChunksMade /\ FramesDistinct /\ ChunkOnce /\ TableBounded /\ ShownOnce

IndInv == Types /\ QueueIsSuffix /\ LogOrder /\ StreamInv /\ TileInv

-----------------------------------------------------------------------------
(* The operators.                                                          *)

\* What the kinds of messages are.
LEMMA MessageFacts ==
    ASSUME NEW m \in Messages
    PROVE  /\ m.win \in Channels /\ m.len \in Nat
           /\ m.what \in {"created", "changed", "destroyed", "tile", "other"}
           /\ m.what = "tile" => m.chan = TileChannel /\ m.win \in Windows
           /\ m.what # "tile" => m.chan \in Channels /\ m.len = 0 /\ m.win = m.chan
           /\ m.chan = Main <=> m.what = "other"
           /\ m.chan \in Windows => m.what # "tile"
  BY QuicAssumption DEF Messages, Event, Tile, Other, Channels, Main, TileChannel

\* Records of streams.
LEMMA StreamRecords ==
    ASSUME NEW r \in Streams
    PROVE  /\ r.msgs \in Seq(Nat) /\ r.ready \in BOOLEAN /\ r.state \in States
           /\ \A q \in Seq(Nat) :
                 /\ [r EXCEPT !.msgs = q] \in Streams
                 /\ [r EXCEPT !.msgs = q].msgs = q
                 /\ [r EXCEPT !.msgs = q].ready = r.ready
                 /\ [r EXCEPT !.msgs = q].state = r.state
           /\ [r EXCEPT !.state = "finished"] \in Streams
           /\ [r EXCEPT !.state = "finished"].msgs = r.msgs
           /\ [r EXCEPT !.state = "finished"].ready = r.ready
  BY DEF Streams, States

\* Writing to the end of a stream.
LEMMA AppendFacts ==
    ASSUME NEW q \in Seq(Nat), NEW n \in Nat
    PROVE  /\ Append(q, n) \in Seq(Nat)
           /\ \A m \in Nat : In(Append(q, n), m) <=> In(q, m) \/ m = n
           /\ Increasing(q) /\ (\A m \in Nat : In(q, m) => m < n)
                 => Increasing(Append(q, n))
           /\ q # <<>> => Head(Append(q, n)) = Head(q)
           /\ Append(q, n) # <<>>
  <1>1. /\ Append(q, n) \in Seq(Nat) /\ Len(Append(q, n)) = Len(q) + 1
        /\ \A i \in 1 .. Len(q) : Append(q, n)[i] = q[i] /\ q[i] \in Nat
        /\ Append(q, n)[Len(q) + 1] = n /\ Len(q) \in Nat
    OBVIOUS
  <1>2. ASSUME NEW m \in Nat PROVE In(Append(q, n), m) <=> In(q, m) \/ m = n
    <2>1. In(Append(q, n), m) => In(q, m) \/ m = n
      BY <1>1 DEF In
    <2>2. In(q, m) => In(Append(q, n), m)
      BY <1>1 DEF In
    <2>3. In(Append(q, n), n)
      BY <1>1 DEF In
    <2> QED
      BY <2>1, <2>2, <2>3
  <1>3. ASSUME Increasing(q), \A m \in Nat : In(q, m) => m < n
        PROVE  Increasing(Append(q, n))
    <2>1. \A i \in 1 .. Len(q) : q[i] < n
      BY <1>1, <1>3 DEF In
    <2>2. ASSUME NEW i \in 1 .. Len(Append(q, n)), NEW j \in 1 .. Len(Append(q, n)), i < j
          PROVE  Append(q, n)[i] < Append(q, n)[j]
      <3>1. i \in 1 .. Len(q) /\ (j \in 1 .. Len(q) \/ j = Len(q) + 1)
        BY <1>1, <2>2
      <3> QED
        BY <1>1, <1>3, <2>1, <2>2, <3>1 DEF Increasing
    <2> QED
      BY <2>2 DEF Increasing
  <1>4. q # <<>> => Head(Append(q, n)) = Head(q)
    BY <1>1
  <1>5. Append(q, n) # <<>>
    OBVIOUS
  <1> QED
    BY <1>1, <1>2, <1>3, <1>4, <1>5

\* Reading the next message of a stream.
LEMMA TailFacts ==
    ASSUME NEW q \in Seq(Nat), q # <<>>, Increasing(q)
    PROVE  /\ Tail(q) \in Seq(Nat) /\ Increasing(Tail(q))
           /\ Head(q) \in Nat /\ In(q, Head(q))
           /\ \A m \in Nat : In(q, m) => m >= Head(q)
           /\ \A m \in Nat : In(Tail(q), m) <=> In(q, m) /\ m # Head(q)
  <1>1. /\ Tail(q) \in Seq(Nat) /\ Len(Tail(q)) = Len(q) - 1 /\ Len(q) \in Nat \ {0}
        /\ \A i \in 1 .. (Len(q) - 1) : Tail(q)[i] = q[i + 1]
        /\ \A i \in 1 .. Len(q) : q[i] \in Nat
        /\ Head(q) = q[1]
    OBVIOUS
  <1>2. Increasing(Tail(q))
    BY <1>1 DEF Increasing
  <1>3. \A i \in 2 .. Len(q) : q[1] < q[i]
    BY <1>1 DEF Increasing
  <1>4. In(q, Head(q))
    BY <1>1 DEF In
  <1>5. \A m \in Nat : In(q, m) => m >= Head(q)
    BY <1>1, <1>3 DEF In
  <1>6. ASSUME NEW m \in Nat PROVE In(Tail(q), m) <=> In(q, m) /\ m # Head(q)
    <2>1. ASSUME In(Tail(q), m) PROVE In(q, m) /\ m # Head(q)
      <3>1. PICK i \in 1 .. (Len(q) - 1) : q[i + 1] = m
        BY <1>1, <2>1 DEF In
      <3>2. i + 1 \in 2 .. Len(q)
        BY <1>1
      <3> QED
        BY <1>1, <1>3, <3>1, <3>2 DEF In
    <2>2. ASSUME In(q, m), m # Head(q) PROVE In(Tail(q), m)
      <3>1. PICK i \in 1 .. Len(q) : q[i] = m
        BY <2>2 DEF In
      <3>2. i # 1
        BY <1>1, <2>2, <3>1
      <3>3. i - 1 \in 1 .. (Len(q) - 1) /\ Tail(q)[i - 1] = q[i]
        BY <1>1, <3>2
      <3> QED
        BY <1>1, <3>1, <3>3 DEF In
    <2> QED
      BY <2>1, <2>2
  <1> QED
    BY <1>1, <1>2, <1>4, <1>5, <1>6

\* A tile has a chunk at least.
LEMMA ChunkFacts ==
    ASSUME NEW len \in Nat
    PROVE  /\ ChunkCount(len) \in Nat \ {0}
           /\ \A i \in Nat : ChunkSize(len, i) \in Int
  <1>1. PayloadLimit \in Nat /\ PayloadLimit >= 1
    BY QuicAssumption
  <1>2. ASSUME len # 0 PROVE (len + PayloadLimit - 1) \div PayloadLimit \in Nat \ {0}
    <2> DEFINE a == len + PayloadLimit - 1
               d == a \div PayloadLimit
    <2>1. a \in Int /\ a >= PayloadLimit
      BY <1>1, <1>2
    <2>2. d \in Int /\ PayloadLimit * d <= a /\ a < PayloadLimit * (d + 1)
      BY <1>1, <2>1
    <2>3. d >= 1
      BY <1>1, <2>1, <2>2
    <2> QED
      BY <2>2, <2>3
  <1>3. \A i \in Nat : ChunkSize(len, i) \in Int
    BY <1>1 DEF ChunkSize
  <1> QED
    BY <1>2, <1>3 DEF ChunkCount

-----------------------------------------------------------------------------
(* Steps that leave the streams and the chunks alone, or lose them.        *)

\* The log only grows.
Extends == /\ Len(log) <= Len(log') /\ \A n \in 1 .. Len(log) : log'[n] = log[n]
           /\ Written <= Written' /\ Written' <= Len(log')

\* Nothing comes up on a stream that was not on one.
StreamsShrink ==
    Live' => /\ Live
             /\ \A s \in 1 .. Len(streams'), n \in 1 .. Written' :
                   On(s, n)' /\ IsTile(n)' =>
                       n <= Written /\ \E t \in 1 .. Len(streams) : On(t, n)

\* Lengths are numbers, and what is written is in the log.
Lengths ==
    /\ Len(log) \in Nat /\ Len(queue) \in Nat /\ Written \in Nat
    /\ Written <= Len(log) /\ Len(log) <= MaxSent /\ MaxSent \in Nat
    /\ Len(streams) \in Nat /\ Len(streams) >= 1
    /\ \A n \in 1 .. Len(log) : log[n] \in Messages
    /\ \A s \in 1 .. Len(streams) : streams[s] \in Streams
    /\ queue # <<>> => Written + 1 <= Len(log) /\ Head(queue) = Written + 1

\* They follow from the types and the order of the queue.
LEMMA LengthFacts == Types /\ QueueIsSuffix => Lengths
  <1> SUFFICES ASSUME Types, QueueIsSuffix PROVE Lengths
    OBVIOUS
  <1>1. MaxSent \in Nat
    BY QuicAssumption
  <1>2. Len(log) \in Nat /\ Len(queue) \in Nat /\ Len(streams) \in Nat
    BY DEF Types
  <1>3. Len(streams) >= 1
    BY <1>2 DEF Types
  <1>4. Written \in Nat /\ Written <= Len(log)
    BY <1>2 DEF QueueIsSuffix, Written
  <1>5. ASSUME queue # <<>> PROVE Written + 1 <= Len(log) /\ Head(queue) = Written + 1
    <2>1. Len(queue) >= 1 /\ Head(queue) = queue[1]
      BY <1>2, <1>5 DEF Types
    <2> QED
      BY <1>2, <2>1 DEF QueueIsSuffix, Written
  <1> QED
    BY <1>1, <1>2, <1>3, <1>4, <1>5 DEF Types, Lengths

\* The same in the next state.
LEMMA NextLengths == Types' /\ QueueIsSuffix' => Lengths'
  BY LengthFacts, PTL

\* A tile that was written stays one.
LEMMA TilesStay ==
    ASSUME Types, QueueIsSuffix, Extends, Types', QueueIsSuffix'
    PROVE  /\ \A n : IsTile(n) => IsTile(n)' /\ log'[n] = log[n] /\ n \in Nat \ {0}
           /\ \A n \in 1 .. Written : IsTile(n)' => IsTile(n)
  <1>1. Len(log) \in Nat /\ Written \in Nat /\ Written <= Len(log)
    BY LengthFacts DEF Lengths
  <1>2. Len(log)' \in Nat /\ Written' \in Nat
    BY NextLengths DEF Lengths
  <1> QED
    BY <1>1, <1>2 DEF Extends, IsTile

\* A chunk that is missing is made by nobody.
LEMMA MissingStays ==
    ASSUME Types, QueueIsSuffix, Types', QueueIsSuffix', Extends, NEW n, IsTile(n), Missing(n),
           \A i \in Nat : AtLarge(n, i)' => AtLarge(n, i)
    PROVE  Missing(n)'
  <1>1. n \in 1 .. Written /\ log'[n] = log[n] /\ log[n] \in Messages
    BY TilesStay, LengthFacts DEF IsTile, Lengths
  <1>2. log[n].len \in Nat
    BY <1>1, MessageFacts
  <1>3. ChunkCount(log[n].len) \in Nat
    BY <1>2, ChunkFacts
  <1>4. ChunkCount(log[n].len)' = ChunkCount(log[n].len)
    BY <1>1 DEF ChunkCount
  <1>5. PICK i \in 0 .. (ChunkCount(log[n].len) - 1) : ~ AtLarge(n, i)
    BY DEF Missing
  <1>6. ~ AtLarge(n, i)' /\ i \in 0 .. (ChunkCount(log[n].len)' - 1)
    BY <1>3, <1>4, <1>5
  <1> QED
    BY <1>6 DEF Missing

\* Chunks that are lost leave what was shown shown.
LEMMA ShownFrame ==
    ASSUME Types, QueueIsSuffix, Types', QueueIsSuffix', ShownOnce, Extends,
           StreamsShrink, shown' = shown,
           \A n \in 1 .. Written, i \in Nat : AtLarge(n, i)' => AtLarge(n, i)
    PROVE  ShownOnce'
  <1>1. /\ \A n : IsTile(n) => IsTile(n)' /\ log'[n] = log[n] /\ n \in Nat \ {0}
        /\ \A n \in 1 .. Written : IsTile(n)' => IsTile(n)
    BY TilesStay
  <1>2. ASSUME NEW n, IsTile(n), Missing(n) PROVE Missing(n)'
    <2>1. n \in 1 .. Written
      BY <1>2 DEF IsTile
    <2> QED
      BY <1>2, <2>1, MissingStays
  <1>3. ASSUME NEW n \in 1 .. MaxSent, shown'[n] # 0 PROVE IsTile(n)' /\ Missing(n)'
    BY <1>1, <1>2, <1>3 DEF ShownOnce
  <1>4. ASSUME Live', NEW s \in 1 .. Len(streams'), NEW n \in 1 .. Written',
               On(s, n)', IsTile(n)'
        PROVE  shown'[n] = 0 /\ Missing(n)'
    <2>1. Written \in Nat /\ Written' \in Nat
      BY LengthFacts, NextLengths DEF Lengths
    <2>2. n \in 1 .. Written /\ Live /\ \E t \in 1 .. Len(streams) : On(t, n)
      BY <1>4, <2>1 DEF StreamsShrink
    <2>3. IsTile(n)
      BY <1>1, <1>4, <2>2
    <2> QED
      BY <1>2, <2>2, <2>3 DEF ShownOnce
  <1> QED
    BY <1>3, <1>4 DEF ShownOnce

\* Neither the chunks nor what was shown change.
LEMMA TileFrame ==
    ASSUME Types, QueueIsSuffix, Types', QueueIsSuffix', TileInv, Extends, StreamsShrink,
           UNCHANGED <<datagrams, pending, shown, frame_seq>>
    PROVE  TileInv'
  <1>1. /\ \A n : IsTile(n) => IsTile(n)' /\ log'[n] = log[n] /\ n \in Nat \ {0}
        /\ \A n \in 1 .. Written : IsTile(n)' => IsTile(n)
    BY TilesStay
  <1>2. ChunksMade'
    <2>1. ASSUME NEW c \in datagrams
          PROVE  /\ IsTile(c.content)' /\ c.seq \in 1 .. frame_seq'
                 /\ (c \in FrameTileDatagrams(c.content, c.seq))'
      BY <1>1 DEF TileInv, ChunksMade, FrameTileDatagrams
    <2>2. ASSUME NEW k \in DOMAIN pending, NEW n \in Nat, IsTile(n), SlotOf(pending[k], n),
                 k[1] = log[n].win
          PROVE  IsTile(n)' /\ SlotOf(pending[k], n)' /\ k[1] = log'[n].win
      BY <1>1, <2>2 DEF SlotOf, SlotType, Complete
    <2> QED
      BY <2>1, <2>2 DEF TileInv, ChunksMade
  <1>3. FramesDistinct' /\ ChunkOnce' /\ TableBounded'
    BY DEF TileInv, FramesDistinct, ChunkOnce, TableBounded, Key
  <1>4. ShownOnce'
    BY ShownFrame DEF TileInv, AtLarge, InFlight, InTable
  <1> QED
    BY <1>2, <1>3, <1>4 DEF TileInv

\* The streams are left alone, and the log may grow by what no window that is
\* gone says.
LEMMA StreamFrame ==
    ASSUME Types, QueueIsSuffix, Types', QueueIsSuffix', StreamInv, Extends, Live' => Live,
           UNCHANGED <<streams, last>>,
           writer' = "run" =>
              /\ writer = "run" /\ channel_streams' = channel_streams /\ Written' = Written
              /\ \A w \in Windows : window[w] = "gone" =>
                    /\ window'[w] = "gone"
                    /\ \A n \in (Len(log) + 1) .. Len(log') : log'[n].win # w
    PROVE  StreamInv'
  <1> SUFFICES ASSUME Live' PROVE StreamInv'
    BY DEF StreamInv
  <1>1. StreamsOrdered /\ OneStream /\ NoGap /\ ReadIsWritten
    BY DEF StreamInv
  <1>2. /\ Len(log) \in Nat /\ Written \in Nat /\ Written <= Len(log)
        /\ Len(log)' \in Nat /\ Written' \in Nat /\ Written' <= Len(log)'
        /\ Len(streams) \in Nat
    BY LengthFacts, NextLengths DEF Lengths
  <1>3. \A s, n : On(s, n)' <=> On(s, n)
    BY DEF On
  <1>4. \A s \in 1 .. Len(streams), n \in Nat \ {0} :
           On(s, n) => n \in 1 .. Written /\ log'[n] = log[n]
    BY <1>1, <1>2 DEF StreamsOrdered, Extends
  <1>5. StreamsOrdered'
    <2>1. \A s \in 1 .. Len(streams), n \in Nat : On(s, n) => n <= Written'
      BY <1>1, <1>2 DEF StreamsOrdered, Extends
    <2> QED
      BY <1>1, <1>3, <1>4, <2>1 DEF StreamsOrdered
  <1>6. OneStream'
    BY <1>1, <1>3 DEF OneStream
  <1>7. NoGap'
    <2>1. ASSUME NEW s \in 1 .. Len(streams), NEW n \in Nat \ {0}, On(s, n),
                 log'[n].what # "tile"
          PROVE  /\ n > last'[log'[n].chan]
                 /\ \A k \in 1 .. (n - 1) :
                       log'[k].chan = log'[n].chan /\ k > last'[log'[n].chan] => On(s, k)
      <3>1. n \in 1 .. Written /\ log'[n] = log[n]
        BY <1>4, <2>1
      <3>2. \A k \in 1 .. (n - 1) : log'[k] = log[k]
        BY <1>2, <3>1 DEF Extends
      <3> QED
        BY <1>1, <2>1, <3>1, <3>2 DEF NoGap
    <2> QED
      BY <1>3, <2>1 DEF NoGap
  <1>8. ASSUME writer' = "run" PROVE ChannelsNamed' /\ ChannelsUnnamed' /\ AllWritten'
    <2>1. ChannelsNamed /\ ChannelsUnnamed /\ AllWritten
      BY <1>8 DEF StreamInv
    <2>2. ChannelsNamed'
      BY <1>3, <1>4, <1>8, <2>1 DEF ChannelsNamed
    <2>3. ChannelsUnnamed'
      <3>1. ASSUME NEW w \in Windows, window[w] = "gone",
                   \A n \in (Written + 1) .. Len(log) : log[n].win # w
            PROVE  /\ window'[w] = "gone"
                   /\ \A n \in (Written' + 1) .. Len(log') : log'[n].win # w
        <4>1. ASSUME NEW n \in (Written' + 1) .. Len(log') PROVE log'[n].win # w
          <5>1. CASE n <= Len(log)
            BY <1>2, <1>8, <3>1, <4>1, <5>1 DEF Extends
          <5>2. CASE n > Len(log)
            BY <1>2, <1>8, <3>1, <4>1, <5>2
          <5> QED
            BY <1>2, <5>1, <5>2
        <4> QED
          BY <1>8, <3>1, <4>1
      <3> QED
        BY <1>3, <1>4, <1>8, <2>1, <3>1 DEF ChannelsUnnamed
    <2>4. AllWritten'
      BY <1>2, <1>3, <1>8, <2>1 DEF AllWritten, Extends
    <2> QED
      BY <2>2, <2>3, <2>4
  <1>9. ReadIsWritten'
    <2>1. last \in [Channels -> Nat]
      BY DEF Types
    <2> QED
      BY <1>1, <1>2, <2>1 DEF ReadIsWritten, Extends
  <1> QED
    BY <1>5, <1>6, <1>7, <1>8, <1>9 DEF StreamInv

\* Steps outside of what the invariant is about.
LEMMA Stutter ==
    ASSUME IndInv,
           UNCHANGED <<window, log, queue, frame_seq, channel_streams, streams, last, shown,
                       conn, writer, datagrams, pending>>,
           viewer' = viewer \/ viewer' = "closed"
    PROVE  IndInv'
  <1>1. Types' /\ QueueIsSuffix' /\ LogOrder'
    BY DEF IndInv, Types, QueueIsSuffix, LogOrder, Written
  <1>2. Written' = Written /\ (Live' => Live)
    BY DEF Written, Live
  <1>3. Extends
    BY <1>1, <1>2, LengthFacts DEF Extends, IndInv, Lengths
  <1>4. Len(log) \in Nat
    BY LengthFacts DEF IndInv, Lengths
  <1>5. StreamInv'
    BY <1>1, <1>2, <1>3, <1>4, StreamFrame DEF IndInv
  <1>6. StreamsShrink
    BY <1>2, LengthFacts DEF StreamsShrink, On, IndInv, Lengths
  <1>7. TileInv'
    BY <1>1, <1>3, <1>6, TileFrame DEF IndInv
  <1> QED
    BY <1>1, <1>5, <1>7 DEF IndInv

\* The compositor speaks of windows it has not destroyed.
LEMMA SayableFacts ==
    ASSUME NEW m \in Sayable
    PROVE  /\ m \in Messages /\ (m.chan # Main => m.win \in Windows /\ window[m.win] # "gone")
           /\ (m.chan = Main => m.win = Main)
  <1>1. \/ \E w \in Windows : window[w] = "new" /\ m = Event(w, "created")
        \/ \E w \in Windows, what \in {"changed", "destroyed"} :
              window[w] = "live" /\ m = Event(w, what)
        \/ \E w \in Windows, len \in Lens : window[w] = "live" /\ m = Tile(w, len)
        \/ m = Other
    <2> DEFINE live == {w \in Windows : window[w] = "live"}
               new == {w \in Windows : window[w] = "new"}
               first == {v \in new : v = Min(new)}
               created == {Event(w, "created") : w \in first}
               events == {Event(w, what) : w \in live, what \in {"changed", "destroyed"}}
               tiles == {Tile(w, len) : w \in live, len \in Lens}
    <2>1. m \in created \cup events \cup tiles \cup {Other}
      BY DEF Sayable
    <2>2. CASE m \in created
      <3> HIDE DEF first
      <3>1. PICK w \in first : m = Event(w, "created")
        BY <2>2
      <3>2. w \in Windows /\ window[w] = "new"
        BY <3>1 DEF first
      <3> QED
        BY <3>1, <3>2
    <2>3. CASE m \in events
      BY <2>3
    <2>4. CASE m \in tiles
      BY <2>4
    <2> HIDE DEF created, events, tiles
    <2> QED
      BY <2>1, <2>2, <2>3, <2>4
  <1>2. CASE \E w \in Windows : window[w] = "new" /\ m = Event(w, "created")
    BY <1>2, QuicAssumption DEF Messages, Event, Main
  <1>3. CASE \E w \in Windows, what \in {"changed", "destroyed"} :
                window[w] = "live" /\ m = Event(w, what)
    BY <1>3, QuicAssumption DEF Messages, Event, Main
  <1>4. CASE \E w \in Windows, len \in Lens : window[w] = "live" /\ m = Tile(w, len)
    BY <1>4 DEF Messages, Tile, Main, TileChannel
  <1>5. CASE m = Other
    BY <1>5 DEF Messages, Other, Main
  <1> QED
    BY <1>1, <1>2, <1>3, <1>4, <1>5

\* WaylandIo::send: the message is put behind the log and the queue.
LEMMA ComposeKeeps ==
    ASSUME IndInv, NEW m \in Sayable, Compose(m)
    PROVE  IndInv'
  <1>1. /\ m \in Messages /\ (m.chan # Main => m.win \in Windows /\ window[m.win] # "gone")
        /\ (m.chan = Main => m.win = Main)
    BY SayableFacts
  <1>2. /\ Len(log) \in Nat /\ Len(queue) \in Nat /\ Written \in Nat
        /\ Written <= Len(log) /\ MaxSent \in Nat
    BY LengthFacts DEF IndInv, Lengths
  <1>3. /\ log' = Append(log, m) /\ Len(log) < MaxSent
        /\ queue' = Append(queue, Len(log) + 1)
        /\ UNCHANGED <<frame_seq, channel_streams, streams, last, shown, viewer, conn,
                       writer, datagrams, pending>>
    <2>1. /\ log' = Append(log, m) /\ Len(log) < MaxSent
          /\ queue' = Append(queue, Len(log) + 1)
          /\ UNCHANGED <<session, inbound, writer, frame_seq, channel_streams, disconnected,
                         netVars, clientVars>>
      BY Zenon DEF Compose
    <2> QED
      BY <2>1 DEF netVars, clientVars
  <1>4. /\ Len(log') = Len(log) + 1 /\ log'[Len(log) + 1] = m
        /\ \A n \in 1 .. Len(log) : log'[n] = log[n]
        /\ log' \in Seq(Messages)
    BY <1>1, <1>3 DEF IndInv, Types
  <1>5. /\ Len(queue') = Len(queue) + 1 /\ queue'[Len(queue) + 1] = Len(log) + 1
        /\ \A i \in 1 .. Len(queue) : queue'[i] = queue[i]
        /\ queue' \in Seq(Nat)
    BY <1>2, <1>3 DEF IndInv, Types
  <1>6. /\ window' \in [Windows -> {"new", "live", "gone"}]
        /\ \A w \in Windows : window[w] = "gone" => w # m.win /\ window'[w] = "gone"
        /\ m.what = "destroyed" => window'[m.win] = "gone"
    <2>1. m.what \in {"created", "destroyed"} => m.chan # Main
      BY <1>1, MessageFacts
    <2>2. \A w \in Windows : window[w] = "gone" => w # m.win
      BY <1>1, QuicAssumption DEF Main
    <2>3. window \in [Windows -> {"new", "live", "gone"}]
      BY DEF IndInv, Types
    <2>4. CASE m.what = "created"
      BY <1>1, <2>1, <2>2, <2>3, <2>4 DEF Compose
    <2>5. CASE m.what = "destroyed"
      BY <1>1, <2>1, <2>2, <2>3, <2>5 DEF Compose
    <2>6. CASE m.what \notin {"created", "destroyed"}
      BY <2>2, <2>3, <2>6 DEF Compose
    <2> QED
      BY <2>4, <2>5, <2>6
  <1>7. Types'
    BY <1>2, <1>3, <1>4, <1>5, <1>6 DEF IndInv, Types
  <1>8. Written' = Written
    BY <1>2, <1>4, <1>5 DEF Written
  <1>9. QueueIsSuffix'
    <2>1. \A i \in 1 .. Len(queue) : queue[i] = Written + i
      BY DEF IndInv, QueueIsSuffix
    <2>2. Len(queue) + Written = Len(log) /\ Len(queue') <= Len(log')
      BY <1>2, <1>4, <1>5 DEF Written
    <2>3. ASSUME NEW i \in 1 .. Len(queue') PROVE queue'[i] = Written' + i
      <3>1. i \in 1 .. Len(queue) \/ i = Len(queue) + 1
        BY <1>2, <1>5
      <3>2. CASE i \in 1 .. Len(queue)
        BY <1>5, <1>8, <2>1, <3>2
      <3>3. CASE i = Len(queue) + 1
        BY <1>2, <1>5, <1>8, <2>2, <3>3
      <3> QED
        BY <3>1, <3>2, <3>3
    <2> QED
      BY <2>2, <2>3 DEF QueueIsSuffix
  <1>10. Extends
    BY <1>2, <1>4, <1>8 DEF Extends
  <1>11. LogOrder'
    <2>1. ASSUME NEW n \in 1 .. Len(log'), log'[n].what = "destroyed"
          PROVE  /\ window'[log'[n].win] = "gone"
                 /\ \A k \in (n + 1) .. Len(log') : log'[k].win # log'[n].win
      <3>1. CASE n = Len(log) + 1
        BY <1>2, <1>4, <1>6, <2>1, <3>1
      <3>2. CASE n \in 1 .. Len(log)
        <4>1. log[n] \in Messages /\ log[n].what = "destroyed" /\ log'[n] = log[n]
          BY <1>4, <2>1, <3>2, LengthFacts DEF IndInv, Lengths
        <4>2. log[n].win \in Windows
          BY <4>1, MessageFacts DEF Channels
        <4>3. /\ window[log[n].win] = "gone"
              /\ \A k \in (n + 1) .. Len(log) : log[k].win # log[n].win
          BY <3>2, <4>1 DEF IndInv, LogOrder
        <4>4. window'[log[n].win] = "gone" /\ m.win # log[n].win
          BY <1>6, <4>2, <4>3
        <4> QED
          BY <1>2, <1>4, <3>2, <4>1, <4>3, <4>4
      <3> QED
        BY <1>2, <1>4, <3>1, <3>2
    <2> QED
      BY <2>1 DEF LogOrder
  <1>12. Live' => Live
    BY <1>3 DEF Live
  <1>13. StreamInv'
    BY <1>2, <1>3, <1>4, <1>6, <1>7, <1>8, <1>9, <1>10, <1>12, StreamFrame DEF IndInv
  <1>14. StreamsShrink
    BY <1>2, <1>3, <1>8, <1>12 DEF StreamsShrink, On
  <1>15. TileInv'
    BY <1>3, <1>7, <1>9, <1>10, <1>14, TileFrame DEF IndInv
  <1> QED
    BY <1>7, <1>9, <1>11, <1>13, <1>15 DEF IndInv

\* The connection closes, with the writer or not: nothing is left to arrive.
LEMMA CutKeeps ==
    ASSUME IndInv, Cut, UNCHANGED <<window, log, frame_seq, viewer, last, shown>>,
           WriterEnds \/ UNCHANGED <<queue, channel_streams>>
    PROVE  IndInv'
  <1>1. /\ Len(log) \in Nat /\ Written \in Nat /\ Written <= Len(log)
        /\ Len(streams) \in Nat /\ Len(streams) >= 1
        /\ \A s \in 1 .. Len(streams) : streams[s] \in Streams
    BY LengthFacts DEF IndInv, Lengths
  <1>2. streams' \in Seq(Streams) /\ Len(streams') = Len(streams) /\ streams' # <<>>
    <2>1. DOMAIN streams = 1 .. Len(streams)
      BY DEF IndInv, Types
    <2>2. ASSUME NEW s \in 1 .. Len(streams)
          PROVE  [streams[s] EXCEPT !.msgs = <<>>] \in Streams
      <3>1. streams[s] \in Streams /\ <<>> \in Seq(Nat)
        BY <1>1
      <3> QED
        BY <3>1, StreamRecords
    <2>3. streams' = [s \in 1 .. Len(streams) |-> [streams[s] EXCEPT !.msgs = <<>>]]
      BY <2>1 DEF Cut
    <2> QED
      BY <1>1, <2>2, <2>3
  <1>3. queue' = <<>> \/ queue' = queue
    BY DEF WriterEnds
  <1>4. Types'
    <2>1. queue' \in Seq(Nat)
      <3>1. <<>> \in Seq(Nat) /\ queue \in Seq(Nat)
        BY DEF IndInv, Types
      <3> QED
        BY <1>3, <3>1
    <2>2. channel_streams' \in [Windows -> Nat]
      BY DEF IndInv, Types, WriterEnds
    <2> QED
      BY <1>2, <2>1, <2>2 DEF IndInv, Types, Cut
  <1>5. QueueIsSuffix'
    BY <1>1, <1>3 DEF IndInv, QueueIsSuffix, Written
  <1>6. Extends
    BY <1>1, <1>3 DEF Extends, Written
  <1>7. ~ Live'
    BY DEF Cut, Live
  <1>8. LogOrder' /\ StreamInv' /\ StreamsShrink
    BY <1>7 DEF IndInv, LogOrder, StreamInv, StreamsShrink
  <1>9. datagrams' = {} /\ DOMAIN pending' = {}
    BY DEF Cut
  <1>10. ShownOnce'
    BY <1>4, <1>5, <1>6, <1>8, <1>9, ShownFrame
       DEF IndInv, TileInv, AtLarge, InFlight, InTable
  <1>11. TableBounded'
    BY <1>9, FS_EmptySet, QuicAssumption DEF TableBounded
  <1>12. ChunksMade' /\ FramesDistinct' /\ ChunkOnce'
    BY <1>9 DEF ChunksMade, FramesDistinct, ChunkOnce
  <1> QED
    BY <1>4, <1>5, <1>8, <1>10, <1>11, <1>12 DEF IndInv, TileInv

\* The compositor is gone and everything is written.
LEMMA WriterDrainsKeeps ==
    ASSUME IndInv, WriterDrains
    PROVE  IndInv'
  <1>1. /\ UNCHANGED <<window, log, queue, frame_seq, streams, last, shown, viewer, conn,
                       datagrams, pending>>
        /\ writer' = "done" /\ channel_streams' = [w \in Windows |-> 0]
    BY DEF WriterDrains, WriterEnds, compositorVars, netVars, clientVars
  <1>2. Types' /\ QueueIsSuffix' /\ LogOrder'
    BY <1>1 DEF IndInv, Types, QueueIsSuffix, LogOrder, Written
  <1>3. Written' = Written /\ (Live' => Live)
    BY <1>1 DEF Written, Live
  <1>4. Extends
    BY <1>1, <1>3, LengthFacts DEF Extends, IndInv, Lengths
  <1>5. StreamInv'
    BY <1>1, <1>2, <1>3, <1>4, StreamFrame DEF IndInv
  <1>6. StreamsShrink
    BY <1>1, <1>3, LengthFacts DEF StreamsShrink, On, IndInv, Lengths
  <1>7. TileInv'
    BY <1>1, <1>2, <1>4, <1>6, TileFrame DEF IndInv
  <1> QED
    BY <1>2, <1>5, <1>7 DEF IndInv

-----------------------------------------------------------------------------
(* The client reads.                                                       *)

ViewStep == [View!Next]_<<log, last, shown>>

\* Reading the next message of a stream.
Reads(s) ==
    /\ Live /\ s \in 1 .. Len(streams) /\ streams[s].msgs # <<>>
    /\ \E r \in Streams :
          /\ streams' = [streams EXCEPT ![s] = r]
          /\ r.msgs = Tail(streams[s].msgs) /\ r.state = streams[s].state
          /\ s # 1 => r.ready
    /\ LET n == Head(streams[s].msgs)
       IN IF n = 0 THEN UNCHANGED <<last, shown>> ELSE Hand(n)
    /\ UNCHANGED <<window, log, queue, writer, frame_seq, channel_streams, viewer, conn,
                   datagrams, pending>>

\* The streams after a read.
LEMMA ReadsStreams ==
    ASSUME IndInv, NEW s, Reads(s), NEW n, n = Head(streams[s].msgs)
    PROVE  /\ Types' /\ QueueIsSuffix' /\ LogOrder'
           /\ n \in 0 .. Written /\ On(s, n) /\ (n # 0 => log[n] \in Messages)
           /\ \A m \in Nat : On(s, m) => m >= n
           /\ Len(streams') = Len(streams)
           /\ \A t \in 1 .. Len(streams), m \in Nat :
                 On(t, m)' <=> On(t, m) /\ ~ (t = s /\ m = n)
           /\ \A t \in 1 .. Len(streams) :
                 /\ Increasing(streams'[t].msgs) /\ streams'[t].state = streams[t].state
                 /\ t # s => streams'[t] = streams[t]
           /\ s # 1 => streams'[s].ready
  <1> USE DEF Reads
  <1>1. PICK r \in Streams :
            /\ streams' = [streams EXCEPT ![s] = r]
            /\ r.msgs = Tail(streams[s].msgs) /\ r.state = streams[s].state
            /\ s # 1 => r.ready
    OBVIOUS
  <1>2. /\ streams \in Seq(Streams) /\ Len(streams) \in Nat
        /\ \A t \in 1 .. Len(streams) : streams[t] \in Streams /\ streams[t].msgs \in Seq(Nat)
    <2>1. streams \in Seq(Streams)
      BY DEF IndInv, Types
    <2>2. Len(streams) \in Nat /\ \A t \in 1 .. Len(streams) : streams[t] \in Streams
      BY <2>1
    <2> QED
      BY <2>1, <2>2, StreamRecords
  <1>3. /\ streams' \in Seq(Streams) /\ Len(streams') = Len(streams) /\ streams' # <<>>
        /\ \A t \in 1 .. Len(streams) : streams'[t] = IF t = s THEN r ELSE streams[t]
    BY <1>1, <1>2
  <1>4. StreamsOrdered
    BY DEF IndInv, StreamInv
  <1>5. \A t \in 1 .. Len(streams) : Increasing(streams[t].msgs)
    BY <1>4 DEF StreamsOrdered
  <1>6. /\ Tail(streams[s].msgs) \in Seq(Nat) /\ Increasing(Tail(streams[s].msgs))
        /\ n \in Nat /\ In(streams[s].msgs, n)
        /\ \A m \in Nat : In(streams[s].msgs, m) => m >= n
        /\ \A m \in Nat : In(Tail(streams[s].msgs), m) <=> In(streams[s].msgs, m) /\ m # n
    BY <1>2, <1>5, TailFacts
  <1>7. \A t \in 1 .. Len(streams), m \in Nat :
           On(t, m)' <=> On(t, m) /\ ~ (t = s /\ m = n)
    BY <1>1, <1>3, <1>6 DEF On
  <1>8. n \in 0 .. Written /\ On(s, n)
    <2>1. On(s, n)
      BY <1>6 DEF On
    <2>2. n <= Written
      BY <1>4, <1>6, <2>1 DEF StreamsOrdered
    <2> QED
      BY <1>6, <2>1, <2>2, LengthFacts DEF IndInv, Lengths
  <1>9. n # 0 => log[n] \in Messages
    BY <1>8, LengthFacts DEF IndInv, Lengths
  <1>10. last' \in [Channels -> Nat] /\ shown' \in [0 .. MaxSent -> Nat]
    <2>1. CASE n = 0
      BY <2>1 DEF IndInv, Types
    <2>2. CASE n # 0 /\ log[n].what = "tile"
      BY <1>6, <2>2 DEF Hand, IndInv, Types
    <2>3. CASE n # 0 /\ log[n].what # "tile"
      BY <1>6, <2>3 DEF Hand, IndInv, Types
    <2> QED
      BY <2>1, <2>2, <2>3
  <1>11. Types' /\ QueueIsSuffix' /\ LogOrder'
    BY <1>3, <1>10 DEF IndInv, Types, QueueIsSuffix, LogOrder, Written
  <1>12. \A m \in Nat : On(s, m) => m >= n
    BY <1>6 DEF On
  <1>13. \A t \in 1 .. Len(streams) :
             /\ Increasing(streams'[t].msgs) /\ streams'[t].state = streams[t].state
             /\ t # s => streams'[t] = streams[t]
    BY <1>1, <1>3, <1>5, <1>6
  <1>14. s # 1 => streams'[s].ready
    BY <1>1, <1>3
  <1> QED
    BY <1>3, <1>7, <1>8, <1>9, <1>11, <1>12, <1>13, <1>14

\* A message that is read is the next one of its channel, and those behind it
\* stay in order.
LEMMA ReadsKeepsStreams ==
    ASSUME IndInv, NEW s, Reads(s)
    PROVE  StreamInv'
  <1> DEFINE n == Head(streams[s].msgs)
  <1>1. /\ Types' /\ QueueIsSuffix' /\ LogOrder'
        /\ n \in 0 .. Written /\ On(s, n) /\ (n # 0 => log[n] \in Messages)
        /\ \A m \in Nat : On(s, m) => m >= n
        /\ Len(streams') = Len(streams)
        /\ \A t \in 1 .. Len(streams), m \in Nat :
              On(t, m)' <=> On(t, m) /\ ~ (t = s /\ m = n)
        /\ \A t \in 1 .. Len(streams) :
              /\ Increasing(streams'[t].msgs) /\ streams'[t].state = streams[t].state
              /\ t # s => streams'[t] = streams[t]
        /\ s # 1 => streams'[s].ready
    BY ReadsStreams
  <1>2. /\ UNCHANGED <<window, log, queue, writer, channel_streams>>
        /\ Live /\ s \in 1 .. Len(streams)
    BY DEF Reads
  <1>3. IF n = 0 THEN UNCHANGED <<last, shown>> ELSE Hand(n)
    BY DEF Reads
  <1>4. StreamsOrdered /\ OneStream /\ NoGap /\ ReadIsWritten
    BY <1>2 DEF IndInv, StreamInv
  <1>5. Written' = Written /\ Written \in Nat /\ Written <= Len(log) /\ Len(streams) \in Nat
        /\ Len(log) \in Nat
    BY <1>2, LengthFacts DEF IndInv, Lengths, Written
  <1>6. \A m \in 1 .. Len(log) : log[m] \in Messages
    BY LengthFacts DEF IndInv, Lengths
  <1>7. last \in [Channels -> Nat]
    BY DEF IndInv, Types
  <1> HIDE DEF n
  <1>8. \/ last' = last /\ (n # 0 => log[n].what = "tile")
        \/ /\ n # 0 /\ log[n].what # "tile" /\ log[n].chan \in Channels
           /\ last' = [last EXCEPT ![log[n].chan] = n] /\ n > last[log[n].chan]
    <2>1. CASE n = 0
      BY <1>3, <2>1
    <2>2. CASE n # 0 /\ log[n].what = "tile"
      BY <1>3, <2>2 DEF Hand
    <2>3. CASE n # 0 /\ log[n].what # "tile"
      <3>1. log[n].chan \in Channels
        BY <1>1, <2>3, MessageFacts
      <3>2. n > last[log[n].chan]
        BY <1>1, <1>2, <1>4, <1>5, <2>3 DEF NoGap
      <3> QED
        BY <1>3, <2>3, <3>1, <3>2 DEF Hand
    <2> QED
      BY <2>1, <2>2, <2>3
  <1>9. ASSUME NEW k \in 1 .. Written, log[k].what # "tile", k > last'[log[k].chan]
        PROVE  k > last[log[k].chan] /\ k # n
    <2>1. log[k].chan \in Channels
      BY <1>5, <1>6, <1>9, MessageFacts
    <2>2. CASE last' = last /\ (n # 0 => log[n].what = "tile")
      BY <1>9, <2>2
    <2>3. CASE /\ n # 0 /\ log[n].what # "tile" /\ log[n].chan \in Channels
               /\ last' = [last EXCEPT ![log[n].chan] = n] /\ n > last[log[n].chan]
      <3>1. CASE log[k].chan = log[n].chan
        <4>1. k > n
          BY <1>7, <1>9, <2>1, <2>3, <3>1
        <4>2. last[log[k].chan] \in Nat /\ n \in Nat
          BY <1>1, <1>7, <2>1
        <4> QED
          BY <2>3, <3>1, <4>1, <4>2
      <3>2. CASE log[k].chan # log[n].chan
        BY <1>7, <1>9, <2>1, <2>3, <3>2
      <3> QED
        BY <3>1, <3>2
    <2> QED
      BY <1>8, <2>2, <2>3
  <1>10. StreamsOrdered'
    BY <1>1, <1>2, <1>4, <1>5 DEF StreamsOrdered
  <1>11. OneStream'
    BY <1>1, <1>4 DEF OneStream
  <1>12. NoGap'
    <2>1. ASSUME NEW t \in 1 .. Len(streams), NEW m \in Nat \ {0}, On(t, m)',
                 log[m].what # "tile"
          PROVE  /\ m > last'[log[m].chan]
                 /\ \A k \in 1 .. (m - 1) :
                       log[k].chan = log[m].chan /\ k > last'[log[m].chan] => On(t, k)'
      <3>1. On(t, m) /\ ~ (t = s /\ m = n)
        BY <1>1, <2>1
      <3>2. /\ m > last[log[m].chan]
            /\ \A k \in 1 .. (m - 1) :
                  log[k].chan = log[m].chan /\ k > last[log[m].chan] => On(t, k)
        BY <1>4, <2>1, <3>1 DEF NoGap
      <3>3. m \in 1 .. Written /\ log[m] \in Messages
        BY <1>4, <1>5, <1>6, <3>1 DEF StreamsOrdered
      <3>4. log[m].chan \in Channels
        BY <2>1, <3>3, MessageFacts
      <3>5. m > last'[log[m].chan]
        <4>1. CASE last' = last
          BY <3>2, <4>1
        <4>2. CASE /\ n # 0 /\ log[n].what # "tile" /\ log[n].chan \in Channels
                   /\ last' = [last EXCEPT ![log[n].chan] = n] /\ n > last[log[n].chan]
          <5>1. CASE log[m].chan = log[n].chan
            <6>1. m # n
              BY <1>1, <1>2, <1>4, <2>1, <3>1 DEF OneStream
            <6>2. ASSUME m < n PROVE FALSE
              <7>1. m \in 1 .. (n - 1)
                BY <1>1, <3>3, <6>2
              <7>2. On(s, m)
                BY <1>1, <1>2, <1>4, <3>2, <4>2, <5>1, <7>1 DEF NoGap
              <7> QED
                BY <1>1, <3>3, <6>2, <7>2
            <6> QED
              BY <1>1, <1>7, <3>3, <3>4, <4>2, <5>1, <6>1, <6>2
          <5>2. CASE log[m].chan # log[n].chan
            BY <1>7, <3>2, <3>4, <4>2, <5>2
          <5> QED
            BY <5>1, <5>2
        <4> QED
          BY <1>8, <4>1, <4>2
      <3>6. ASSUME NEW k \in 1 .. (m - 1), log[k].chan = log[m].chan,
                   k > last'[log[m].chan]
            PROVE  On(t, k)'
        <4>1. k \in 1 .. Written /\ k \in Nat /\ log[k] \in Messages
          BY <1>5, <1>6, <3>3
        <4>2. log[k].what # "tile"
          BY <3>4, <3>6, <4>1, MessageFacts, QuicAssumption DEF Channels, Main, TileChannel
        <4>3. k > last[log[m].chan] /\ k # n
          BY <1>9, <3>6, <4>1, <4>2
        <4> QED
          BY <1>1, <3>2, <3>6, <4>1, <4>3
      <3> QED
        BY <3>5, <3>6
    <2> QED
      BY <1>1, <1>2, <2>1 DEF NoGap
  <1>13. ASSUME writer' = "run" PROVE ChannelsNamed' /\ ChannelsUnnamed' /\ AllWritten'
    <2>1. ChannelsNamed /\ ChannelsUnnamed /\ AllWritten
      BY <1>2, <1>13 DEF IndInv, StreamInv
    <2>2. ChannelsNamed'
      BY <1>1, <1>2, <1>5, <2>1 DEF ChannelsNamed
    <2>3. ChannelsUnnamed'
      BY <1>1, <1>2, <1>5, <2>1 DEF ChannelsUnnamed
    <2>4. AllWritten'
      <3>1. ASSUME NEW k \in 1 .. Written, log[k].what # "tile", k > last'[log[k].chan]
            PROVE  \E t \in 1 .. Len(streams) : On(t, k)'
        <4>1. PICK t \in 1 .. Len(streams) : On(t, k)
          BY <1>9, <2>1, <3>1 DEF AllWritten
        <4>2. k # n /\ k \in Nat
          BY <1>9, <3>1
        <4> QED
          BY <1>1, <4>1, <4>2
      <3> QED
        BY <1>1, <1>2, <1>5, <3>1 DEF AllWritten
    <2> QED
      BY <2>2, <2>3, <2>4
  <1>14. ReadIsWritten'
    BY <1>1, <1>4, <1>5, <1>7, <1>8 DEF ReadIsWritten
  <1> QED
    BY <1>10, <1>11, <1>12, <1>13, <1>14 DEF StreamInv

\* A tile that comes on a stream was not shown before and never will be again:
\* its datagrams lack a chunk.
LEMMA ReadsKeepsTiles ==
    ASSUME IndInv, NEW s, Reads(s)
    PROVE  TileInv'
  <1> DEFINE n == Head(streams[s].msgs)
  <1>1. /\ Types' /\ QueueIsSuffix'
        /\ n \in 0 .. Written /\ On(s, n) /\ (n # 0 => log[n] \in Messages)
        /\ Len(streams') = Len(streams)
        /\ \A t \in 1 .. Len(streams), m \in Nat :
              On(t, m)' <=> On(t, m) /\ ~ (t = s /\ m = n)
    BY ReadsStreams
  <1>2. /\ UNCHANGED <<log, queue, frame_seq, viewer, conn, datagrams, pending>>
        /\ Live /\ s \in 1 .. Len(streams)
    BY DEF Reads
  <1>3. IF n = 0 THEN UNCHANGED <<last, shown>> ELSE Hand(n)
    BY DEF Reads
  <1>4. /\ Written' = Written /\ Written \in Nat /\ Written <= Len(log)
        /\ Len(log) \in Nat /\ Len(log) <= MaxSent /\ MaxSent \in Nat
    BY <1>2, LengthFacts DEF IndInv, Lengths, Written
  <1> HIDE DEF n
  <1>5. Extends
    BY <1>2, <1>4 DEF Extends
  <1>6. StreamsShrink
    BY <1>1, <1>2, <1>4 DEF StreamsShrink
  <1>7. CASE shown' = shown
    BY <1>1, <1>2, <1>5, <1>6, <1>7, TileFrame DEF IndInv
  <1>8. CASE n # 0 /\ log[n].what = "tile" /\ shown' = [shown EXCEPT ![n] = @ + 1]
    <2>1. IsTile(n) /\ n \in 1 .. MaxSent
      BY <1>1, <1>4, <1>8 DEF IsTile
    <2>2. \A m : (IsTile(m)' <=> IsTile(m)) /\ (Missing(m)' <=> Missing(m))
      BY <1>2, <1>4 DEF IsTile, Missing, AtLarge, InFlight, InTable
    <2>3. OneStream /\ ShownOnce
      BY <1>2 DEF IndInv, StreamInv, TileInv
    <2>4. Missing(n)
      BY <1>1, <1>2, <1>4, <2>1, <2>3 DEF ShownOnce
    <2>5. \A m \in 1 .. MaxSent : m # n => shown'[m] = shown[m]
      BY <1>8 DEF IndInv, Types
    <2>6. \A m \in 1 .. MaxSent : shown'[m] # 0 => IsTile(m)' /\ Missing(m)'
      BY <2>1, <2>2, <2>3, <2>4, <2>5 DEF ShownOnce
    <2>7. ASSUME NEW t \in 1 .. Len(streams), NEW m \in 1 .. Written, On(t, m)', IsTile(m)'
          PROVE  shown'[m] = 0 /\ Missing(m)'
      <3>1. On(t, m) /\ ~ (t = s /\ m = n) /\ IsTile(m)
        BY <1>1, <1>4, <2>2, <2>7
      <3>2. m # n
        BY <1>1, <1>2, <1>4, <2>3, <3>1 DEF OneStream
      <3>3. m \in 1 .. MaxSent
        BY <1>4
      <3> QED
        BY <1>2, <2>2, <2>3, <2>5, <3>1, <3>2, <3>3 DEF ShownOnce
    <2>8. ShownOnce'
      BY <1>1, <1>4, <2>6, <2>7 DEF ShownOnce
    <2>9. ChunksMade'
      BY <1>2, <1>4 DEF IndInv, TileInv, ChunksMade, IsTile, FrameTileDatagrams, SlotOf,
                        SlotType, Complete
    <2>10. FramesDistinct' /\ ChunkOnce' /\ TableBounded'
      BY <1>2 DEF IndInv, TileInv, FramesDistinct, ChunkOnce, TableBounded, Key
    <2> QED
      BY <2>8, <2>9, <2>10 DEF TileInv
  <1> QED
    BY <1>3, <1>7, <1>8 DEF Hand

\* What is read is the next message of its channel, or a tile for the first
\* time.
LEMMA ReadsShows ==
    ASSUME IndInv, NEW s, Reads(s)
    PROVE  ViewStep
  <1> DEFINE n == Head(streams[s].msgs)
  <1>1. /\ n \in 0 .. Written /\ On(s, n) /\ (n # 0 => log[n] \in Messages)
        /\ \A m \in Nat : On(s, m) => m >= n
    BY ReadsStreams
  <1>2. log' = log /\ Live /\ s \in 1 .. Len(streams)
    BY DEF Reads
  <1>3. IF n = 0 THEN UNCHANGED <<last, shown>> ELSE Hand(n)
    BY DEF Reads
  <1>4. /\ Written \in Nat /\ Written <= Len(log) /\ Len(log) \in Nat
        /\ Len(log) <= MaxSent /\ MaxSent \in Nat
    BY LengthFacts DEF IndInv, Lengths, Written
  <1>5. DOMAIN log = 1 .. Len(log) /\ last \in [Channels -> Nat]
        /\ shown \in [0 .. MaxSent -> Nat]
    BY DEF IndInv, Types
  <1> HIDE DEF n
  <1>6. CASE n = 0
    BY <1>2, <1>3, <1>6 DEF ViewStep
  <1>7. CASE n # 0 /\ log[n].what = "tile"
    <2>1. IsTile(n) /\ n \in DOMAIN log /\ log[n].chan = TileChannel
      BY <1>1, <1>4, <1>5, <1>7, MessageFacts DEF IsTile
    <2>2. shown[n] = 0
      BY <1>1, <1>2, <1>4, <1>7, <2>1 DEF IndInv, TileInv, ShownOnce
    <2>3. shown' = [shown EXCEPT ![n] = 1] /\ last' = last
      BY <1>3, <1>7, <2>2 DEF Hand
    <2>4. View!Show(n)
      BY <1>2, <2>1, <2>2, <2>3 DEF View!Show
    <2> QED
      BY <2>1, <2>4 DEF ViewStep, View!Next
  <1>8. CASE n # 0 /\ log[n].what # "tile"
    <2>1. n \in DOMAIN log /\ log[n].chan \in Channels /\ n \in Nat \ {0}
      BY <1>1, <1>4, <1>5, <1>8, MessageFacts
    <2>2. last' = [last EXCEPT ![log[n].chan] = n] /\ shown' = shown
      BY <1>3, <1>8 DEF Hand
    <2>3. /\ n > last[log[n].chan]
          /\ \A k \in 1 .. (n - 1) :
                log[k].chan = log[n].chan /\ k > last[log[n].chan] => On(s, k)
      BY <1>1, <1>2, <1>8, <2>1 DEF IndInv, StreamInv, NoGap
    <2>4. last[log[n].chan] \in Nat
      BY <1>5, <2>1
    <2>5. \A k \in (last[log[n].chan] + 1) .. (n - 1) : log[k].chan # log[n].chan
      BY <1>1, <2>1, <2>3, <2>4
    <2>6. View!Deliver(log[n].chan)
      BY <1>2, <2>1, <2>2, <2>3, <2>5 DEF View!Deliver
    <2> QED
      BY <2>1, <2>6 DEF ViewStep, View!Next
  <1> QED
    BY <1>6, <1>7, <1>8

\* Reading a stream while the viewer is there.
LEMMA ReadsKeeps ==
    ASSUME IndInv, NEW s, Reads(s)
    PROVE  IndInv' /\ ViewStep
  BY ReadsStreams, ReadsKeepsStreams, ReadsKeepsTiles, ReadsShows DEF IndInv

\* The loop of view_network_async: with the viewer closed it cuts the
\* connection.
LEMMA ReadMainKeeps ==
    ASSUME IndInv, ReadMain
    PROVE  IndInv' /\ ViewStep
  <1>1. UNCHANGED <<window, log, queue, writer, frame_seq, channel_streams, viewer>>
    BY DEF ReadMain, compositorVars, serverVars
  <1>2. CASE viewer = "closed"
    BY <1>1, <1>2, CutKeeps DEF ReadMain, ViewStep
  <1>3. CASE viewer # "closed"
    <2> DEFINE q == Tail(streams[1].msgs)
               r == [streams[1] EXCEPT !.msgs = q]
    <2>1. /\ streams' = [streams EXCEPT ![1] = r]
          /\ Hand(Head(streams[1].msgs)) /\ UNCHANGED <<conn, datagrams, pending>>
          /\ conn = "open" /\ streams[1].msgs # <<>>
      BY <1>3 DEF ReadMain
    <2>2. 1 \in 1 .. Len(streams) /\ streams[1] \in Streams
      BY LengthFacts DEF IndInv, Lengths
    <2>3. Live
      BY <1>3, <2>1 DEF IndInv, Types, Live
    <2>4. streams[1].msgs \in Seq(Nat)
      BY <2>2, StreamRecords
    <2>5. q \in Seq(Nat)
      BY <2>1, <2>4
    <2> HIDE DEF q
    <2>6. r \in Streams /\ r.msgs = q /\ r.state = streams[1].state
      BY <2>2, <2>5, StreamRecords
    <2> HIDE DEF r
    <2>7. Head(streams[1].msgs) # 0
      <3>1. StreamsOrdered
        BY <2>3 DEF IndInv, StreamInv
      <3>2. Increasing(streams[1].msgs) /\ ~ On(1, 0)
        BY <2>2, <3>1 DEF StreamsOrdered
      <3>3. In(streams[1].msgs, Head(streams[1].msgs))
        BY <2>1, <2>4, <3>2, TailFacts
      <3> QED
        BY <3>2, <3>3 DEF On
    <2>8. Reads(1)
      BY <1>1, <2>1, <2>2, <2>3, <2>6, <2>7 DEF Reads, q
    <2> QED
      BY <2>8, ReadsKeeps
  <1> QED
    BY <1>2, <1>3

\* read_channel_stream: with the viewer closed it stops the stream, and hands
\* nothing over.
LEMMA ReadChannelKeeps ==
    ASSUME IndInv, NEW s, ReadChannel(s)
    PROVE  IndInv' /\ ViewStep
  <1> DEFINE n == Head(streams[s].msgs)
             stop == IF streams[s].ready THEN viewer = "closed" ELSE n # 0
             r == [msgs |-> IF stop THEN <<>> ELSE Tail(streams[s].msgs), ready |-> TRUE,
                   state |-> IF stop THEN "stopped" ELSE streams[s].state]
  <1>1. /\ conn = "open" /\ s \in 2 .. Len(streams) /\ streams[s].msgs # <<>>
        /\ streams' = [streams EXCEPT ![s] = r]
        /\ IF stop \/ n = 0 THEN UNCHANGED <<last, shown>> ELSE Hand(n)
        /\ UNCHANGED <<window, log, queue, writer, frame_seq, channel_streams, viewer,
                       conn, datagrams, pending>>
    BY DEF ReadChannel, compositorVars, serverVars
  <1>2. s \in 1 .. Len(streams) /\ s # 1 /\ Len(streams) \in Nat /\ streams[s] \in Streams
    BY <1>1, LengthFacts DEF IndInv, Lengths
  <1>3. /\ streams[s].msgs \in Seq(Nat) /\ streams[s].state \in States
        /\ streams[s].ready \in BOOLEAN
    BY <1>2, StreamRecords
  <1>4. <<>> \in Seq(Nat) /\ Tail(streams[s].msgs) \in Seq(Nat)
    BY <1>1, <1>3
  <1>5. r \in Streams
    BY <1>3, <1>4 DEF Streams, States
  <1>6. CASE viewer = "open"
    <2>1. Live
      BY <1>1, <1>6 DEF Live
    <2>2. ~ stop
      BY <1>2, <1>3, <1>6, <2>1 DEF IndInv, StreamInv, StreamsOrdered
    <2>3. r.msgs = Tail(streams[s].msgs) /\ r.state = streams[s].state /\ r.ready
      BY <2>2
    <2>4. IF n = 0 THEN UNCHANGED <<last, shown>> ELSE Hand(n)
      BY <1>1, <2>2
    <2> HIDE DEF r
    <2>5. Reads(s)
      BY <1>1, <1>2, <1>5, <2>1, <2>3, <2>4 DEF Reads
    <2> QED
      BY <2>5, ReadsKeeps
  <1>7. CASE viewer = "closed"
    <2>1. stop \/ n = 0
      BY <1>7
    <2>2. UNCHANGED <<last, shown>>
      BY <1>1, <2>1
    <2> HIDE DEF r, n, stop
    <2>3. streams \in Seq(Streams)
      BY DEF IndInv, Types
    <2>4. streams' \in Seq(Streams) /\ Len(streams') = Len(streams) /\ streams' # <<>>
      BY <1>1, <1>2, <1>5, <2>3
    <2>5. Types' /\ QueueIsSuffix' /\ LogOrder'
      BY <1>1, <2>2, <2>4 DEF IndInv, Types, QueueIsSuffix, LogOrder, Written
    <2>6. ~ Live' /\ Written' = Written
      BY <1>1, <1>7 DEF Live, Written
    <2>7. StreamInv' /\ StreamsShrink
      BY <2>6 DEF StreamInv, StreamsShrink
    <2>8. Extends
      BY <1>1, <2>6, LengthFacts DEF Extends, IndInv, Lengths
    <2>9. TileInv'
      BY <1>1, <2>2, <2>5, <2>7, <2>8, TileFrame DEF IndInv
    <2> QED
      BY <1>1, <2>2, <2>5, <2>7, <2>9 DEF IndInv, ViewStep
  <1> QED
    BY <1>6, <1>7 DEF IndInv, Types

-----------------------------------------------------------------------------
(* The server writes.                                                      *)

\* Appending to a stream, if it is there.
LEMMA PutFacts ==
    ASSUME NEW ss \in Seq(Streams), NEW s \in Nat, NEW n \in Nat
    PROVE  /\ Put(ss, s, n) \in Seq(Streams) /\ Len(Put(ss, s, n)) = Len(ss)
           /\ \A t \in 1 .. Len(ss) :
                 /\ Put(ss, s, n)[t].msgs =
                       IF t = s THEN Append(ss[t].msgs, n) ELSE ss[t].msgs
                 /\ Put(ss, s, n)[t].ready = ss[t].ready
                 /\ Put(ss, s, n)[t].state = ss[t].state
  <1>1. Len(ss) \in Nat /\ \A t \in 1 .. Len(ss) : ss[t] \in Streams
    OBVIOUS
  <1>2. CASE s \in 1 .. Len(ss)
    <2> DEFINE r == [ss[s] EXCEPT !.msgs = Append(ss[s].msgs, n)]
    <2>1. Put(ss, s, n) = [ss EXCEPT ![s] = r]
      BY DEF Put
    <2>2. ss[s] \in Streams
      BY <1>1, <1>2
    <2>3. Append(ss[s].msgs, n) \in Seq(Nat)
      BY <2>2, StreamRecords, AppendFacts
    <2>4. /\ r \in Streams /\ r.msgs = Append(ss[s].msgs, n)
          /\ r.ready = ss[s].ready /\ r.state = ss[s].state
      BY <2>2, <2>3, StreamRecords
    <2> HIDE DEF r
    <2>5. /\ [ss EXCEPT ![s] = r] \in Seq(Streams) /\ Len([ss EXCEPT ![s] = r]) = Len(ss)
          /\ \A t \in 1 .. Len(ss) : [ss EXCEPT ![s] = r][t] = IF t = s THEN r ELSE ss[t]
      BY <1>1, <1>2, <2>4
    <2> QED
      BY <2>1, <2>4, <2>5
  <1>3. CASE s \notin 1 .. Len(ss)
    <2>1. Put(ss, s, n) = ss
      BY <1>3 DEF Put
    <2> QED
      BY <1>3, <2>1
  <1> QED
    BY <1>2, <1>3

\* Finishing a stream takes nothing from it.
LEMMA FinishFacts ==
    ASSUME NEW ss \in Seq(Streams), NEW s \in Nat
    PROVE  /\ Finish(ss, s) \in Seq(Streams) /\ Len(Finish(ss, s)) = Len(ss)
           /\ \A t \in 1 .. Len(ss) :
                 /\ Finish(ss, s)[t].msgs = ss[t].msgs
                 /\ Finish(ss, s)[t].ready = ss[t].ready
                 /\ t # s => Finish(ss, s)[t] = ss[t]
  <1>1. Len(ss) \in Nat /\ \A t \in 1 .. Len(ss) : ss[t] \in Streams
    OBVIOUS
  <1>2. CASE Finish(ss, s) = [ss EXCEPT ![s].state = "finished"] /\ s \in 1 .. Len(ss)
    <2> DEFINE r == [ss[s] EXCEPT !.state = "finished"]
    <2>1. Finish(ss, s) = [ss EXCEPT ![s] = r]
      BY <1>2
    <2>2. ss[s] \in Streams
      BY <1>1, <1>2
    <2>3. r \in Streams /\ r.msgs = ss[s].msgs /\ r.ready = ss[s].ready
      BY <2>2, StreamRecords
    <2> HIDE DEF r
    <2>4. /\ [ss EXCEPT ![s] = r] \in Seq(Streams) /\ Len([ss EXCEPT ![s] = r]) = Len(ss)
          /\ \A t \in 1 .. Len(ss) : [ss EXCEPT ![s] = r][t] = IF t = s THEN r ELSE ss[t]
      BY <1>1, <1>2, <2>3
    <2> QED
      BY <2>1, <2>3, <2>4
  <1>3. CASE Finish(ss, s) = ss
    BY <1>3
  <1>4. ASSUME s \notin 1 .. Len(ss) PROVE [ss EXCEPT ![s].state = "finished"] = ss
    BY <1>4
  <1> QED
    BY <1>2, <1>3, <1>4 DEF Finish

\* The stream of a window after write_channel_frame has seen to it.
LEMMA OpenedFacts ==
    ASSUME Types, NEW w \in Windows
    PROVE  /\ Opened(w) \in Seq(Streams) /\ ChannelOf(w) \in Nat
           /\ Len(Opened(w)) = IF channel_streams[w] # 0 THEN Len(streams) ELSE Len(streams) + 1
           /\ \A t \in 1 .. Len(streams) : Opened(w)[t] = streams[t]
           /\ channel_streams[w] = 0 =>
                 /\ ChannelOf(w) = Len(streams) + 1
                 /\ Opened(w)[Len(streams) + 1].msgs = <<0>>
                 /\ Opened(w)[Len(streams) + 1].state = "open"
           /\ channel_streams[w] # 0 => ChannelOf(w) = channel_streams[w]
  <1>1. streams \in Seq(Streams) /\ Len(streams) \in Nat /\ channel_streams[w] \in Nat
    BY DEF Types
  <1>2. CASE channel_streams[w] # 0
    BY <1>1, <1>2 DEF Opened, ChannelOf
  <1>3. CASE channel_streams[w] = 0
    <2> DEFINE r == [msgs |-> <<0>>, ready |-> FALSE, state |-> "open"]
    <2>1. <<0>> \in Seq(Nat)
      OBVIOUS
    <2>2. r \in Streams /\ r.msgs = <<0>> /\ r.state = "open"
      BY <2>1 DEF Streams, States
    <2>3. Opened(w) = Append(streams, r) /\ ChannelOf(w) = Len(streams) + 1
      BY <1>3 DEF Opened, ChannelOf
    <2> HIDE DEF r
    <2> QED
      BY <1>1, <1>3, <2>2, <2>3
  <1> QED
    BY <1>2, <1>3

\* The streams after the writer put message n on stream s, on none for 0; a
\* stream may have been opened.
After(s, n) ==
    /\ streams' \in Seq(Streams) /\ Len(streams') \in {Len(streams), Len(streams) + 1}
    /\ s \in 0 .. Len(streams')
    /\ \A t \in 1 .. Len(streams) :
          /\ streams'[t].msgs = IF t = s THEN Append(streams[t].msgs, n) ELSE streams[t].msgs
          /\ streams'[t].ready = streams[t].ready
    /\ Len(streams') = Len(streams) + 1 =>
          streams'[Len(streams) + 1].msgs =
              IF s = Len(streams) + 1 THEN Append(<<0>>, n) ELSE <<0>>

Added(t, m, s, n) ==
    \/ t <= Len(streams) /\ On(t, m)
    \/ t = s /\ m = n
    \/ t = Len(streams) + 1 /\ m = 0

\* What is on the streams then, and that it is in order.
LEMMA AfterFacts ==
    ASSUME Types, QueueIsSuffix, StreamsOrdered, NEW s, NEW n \in Nat, n = Written + 1,
           After(s, n)
    PROVE  \A t \in 1 .. Len(streams') :
              /\ \A m \in Nat : On(t, m)' <=> Added(t, m, s, n)
              /\ Increasing(streams'[t].msgs)
              /\ t # 1 /\ ~ streams'[t].ready =>
                    streams'[t].msgs # <<>> /\ Head(streams'[t].msgs) = 0
  <1> SUFFICES ASSUME NEW t \in 1 .. Len(streams')
               PROVE  /\ \A m \in Nat : On(t, m)' <=> Added(t, m, s, n)
                      /\ Increasing(streams'[t].msgs)
                      /\ t # 1 /\ ~ streams'[t].ready =>
                            streams'[t].msgs # <<>> /\ Head(streams'[t].msgs) = 0
    OBVIOUS
  <1>1. /\ Len(streams) \in Nat /\ Len(streams) >= 1 /\ Written \in Nat
        /\ \A u \in 1 .. Len(streams) : streams[u] \in Streams
    BY LengthFacts DEF Lengths
  <1>2. \A m \in Nat : On(t, m)' <=> In(streams'[t].msgs, m)
    BY DEF On
  <1>3. CASE t \in 1 .. Len(streams)
    <2> DEFINE q == streams[t].msgs
    <2>1. q \in Seq(Nat)
      BY <1>1, <1>3, StreamRecords
    <2>2. /\ Increasing(q) /\ \A m \in Nat : In(q, m) => m < n
          /\ t # 1 /\ ~ streams[t].ready => q # <<>> /\ Head(q) = 0
      BY <1>1, <1>3 DEF StreamsOrdered, On
    <2>3. streams'[t].ready = streams[t].ready
      BY <1>3 DEF After
    <2>4. \A m \in Nat : On(t, m) <=> In(q, m)
      BY DEF On
    <2> HIDE DEF q
    <2>5. CASE t = s
      <3>1. streams'[t].msgs = Append(q, n)
        BY <1>3, <2>5 DEF After, q
      <3>2. /\ \A m \in Nat : In(Append(q, n), m) <=> In(q, m) \/ m = n
            /\ Increasing(Append(q, n)) /\ Append(q, n) # <<>>
            /\ q # <<>> => Head(Append(q, n)) = Head(q)
        BY <2>1, <2>2, AppendFacts
      <3>3. \A m \in Nat : On(t, m)' <=> Added(t, m, s, n)
        BY <1>1, <1>2, <1>3, <2>4, <2>5, <3>1, <3>2 DEF Added
      <3> QED
        BY <2>2, <2>3, <3>1, <3>2, <3>3
    <2>6. CASE t # s
      <3>1. streams'[t].msgs = q
        BY <1>3, <2>6 DEF After, q
      <3>2. \A m \in Nat : On(t, m)' <=> Added(t, m, s, n)
        BY <1>1, <1>2, <1>3, <2>4, <2>6, <3>1 DEF Added
      <3> QED
        BY <2>2, <2>3, <3>1, <3>2
    <2> QED
      BY <2>5, <2>6
  <1>4. CASE t = Len(streams) + 1 /\ Len(streams') = Len(streams) + 1
    <2>1. <<0>> \in Seq(Nat) /\ Increasing(<<0>>) /\ Head(<<0>>) = 0 /\ <<0>> # <<>>
      BY DEF Increasing
    <2>2. \A m \in Nat : In(<<0>>, m) <=> m = 0
      BY DEF In
    <2>3. ~ (t <= Len(streams))
      BY <1>1, <1>4
    <2>4. CASE t = s
      <3>1. streams'[t].msgs = Append(<<0>>, n)
        BY <1>4, <2>4 DEF After
      <3>2. \A m \in Nat : In(<<0>>, m) => m < n
        BY <1>1, <2>2
      <3>3. /\ \A m \in Nat : In(Append(<<0>>, n), m) <=> In(<<0>>, m) \/ m = n
            /\ Increasing(Append(<<0>>, n)) /\ Append(<<0>>, n) # <<>>
            /\ Head(Append(<<0>>, n)) = Head(<<0>>)
        BY <2>1, <3>2, AppendFacts
      <3>4. \A m \in Nat : On(t, m)' <=> Added(t, m, s, n)
        BY <1>2, <1>4, <2>2, <2>3, <2>4, <3>1, <3>3 DEF Added
      <3> QED
        BY <2>1, <3>1, <3>3, <3>4
    <2>5. CASE t # s
      <3>1. streams'[t].msgs = <<0>>
        BY <1>4, <2>5 DEF After
      <3>2. \A m \in Nat : On(t, m)' <=> Added(t, m, s, n)
        BY <1>2, <1>4, <2>2, <2>3, <2>5, <3>1 DEF Added
      <3> QED
        BY <2>1, <3>1, <3>2
    <2> QED
      BY <2>4, <2>5
  <1> QED
    BY <1>1, <1>3, <1>4 DEF After

\* A message put behind the others of its channel leaves no gap.
LEMMA AfterOrdered ==
    ASSUME IndInv, Live, NEW s, NEW n \in Nat, n = Written + 1, n <= Len(log), After(s, n),
           UNCHANGED <<log, last>>, Written' \in Nat, Written <= Written',
           s # 0 => n <= Written' /\ (s = 1 <=> log[n].chan = Main),
           s # 0 /\ log[n].what # "tile" =>
              \A k \in 1 .. Written :
                 log[k].chan = log[n].chan /\ k > last[log[n].chan] =>
                    s <= Len(streams) /\ On(s, k)
    PROVE  StreamsOrdered' /\ OneStream' /\ NoGap' /\ ReadIsWritten'
  <1>1. StreamsOrdered /\ OneStream /\ NoGap /\ ReadIsWritten
    BY DEF IndInv, StreamInv
  <1>2. /\ Len(streams) \in Nat /\ Len(streams) >= 1 /\ Written \in Nat
        /\ Len(log) \in Nat /\ \A m \in 1 .. Len(log) : log[m] \in Messages
    BY LengthFacts DEF IndInv, Lengths
  <1>3. \A t \in 1 .. Len(streams') :
           /\ \A m \in Nat : On(t, m)' <=> Added(t, m, s, n)
           /\ Increasing(streams'[t].msgs)
           /\ t # 1 /\ ~ streams'[t].ready =>
                 streams'[t].msgs # <<>> /\ Head(streams'[t].msgs) = 0
    BY <1>1, AfterFacts DEF IndInv
  <1>4. Len(streams') \in {Len(streams), Len(streams) + 1} /\ s \in 0 .. Len(streams')
    BY DEF After
  <1>5. \A t \in 1 .. Len(streams'), m \in Nat :
           t <= Len(streams) => t \in 1 .. Len(streams) /\ (On(t, m) => m <= Written)
    BY <1>1, <1>2, <1>4 DEF StreamsOrdered
  <1>6. StreamsOrdered'
    <2>1. ASSUME NEW t \in 1 .. Len(streams'), NEW m \in Nat, On(t, m)'
          PROVE  m <= Written'
      <3>1. Added(t, m, s, n)
        BY <1>3, <2>1
      <3> QED
        BY <1>2, <1>4, <1>5, <3>1 DEF Added
    <2>2. ASSUME NEW t \in 1 .. Len(streams'), NEW m \in Nat \ {0}, On(t, m)'
          PROVE  t = 1 <=> log[m].chan = Main
      <3>1. Added(t, m, s, n)
        BY <1>3, <2>2
      <3>2. CASE t <= Len(streams) /\ On(t, m)
        BY <1>1, <1>5, <3>2 DEF StreamsOrdered
      <3>3. CASE t = s /\ m = n
        BY <1>4, <3>3
      <3> QED
        BY <3>1, <3>2, <3>3 DEF Added
    <2>3. ~ On(1, 0)'
      <3>1. 1 \in 1 .. Len(streams') /\ 0 \in Nat
        BY <1>2, <1>4
      <3>2. ~ Added(1, 0, s, n)
        BY <1>1, <1>2 DEF Added, StreamsOrdered
      <3> QED
        BY <1>3, <3>1, <3>2
    <2> QED
      BY <1>3, <2>1, <2>2, <2>3 DEF StreamsOrdered
  <1>7. OneStream'
    <2>1. ASSUME NEW t \in 1 .. Len(streams'), NEW u \in 1 .. Len(streams'),
                 NEW m \in Nat \ {0}, On(t, m)', On(u, m)'
          PROVE  t = u
      <3>1. Added(t, m, s, n) /\ Added(u, m, s, n)
        BY <1>3, <2>1
      <3>2. CASE m = n
        BY <1>2, <1>5, <3>1, <3>2 DEF Added
      <3>3. CASE m # n
        BY <1>1, <1>5, <3>1, <3>3 DEF Added, OneStream
      <3> QED
        BY <3>2, <3>3
    <2> QED
      BY <2>1 DEF OneStream
  <1>8. NoGap'
    <2>1. ASSUME NEW t \in 1 .. Len(streams'), NEW m \in Nat \ {0}, On(t, m)',
                 log[m].what # "tile"
          PROVE  /\ m > last[log[m].chan]
                 /\ \A k \in 1 .. (m - 1) :
                       log[k].chan = log[m].chan /\ k > last[log[m].chan] => On(t, k)'
      <3>1. Added(t, m, s, n)
        BY <1>3, <2>1
      <3>2. CASE t <= Len(streams) /\ On(t, m)
        <4>1. /\ m > last[log[m].chan]
              /\ \A k \in 1 .. (m - 1) :
                    log[k].chan = log[m].chan /\ k > last[log[m].chan] => On(t, k)
          BY <1>1, <1>5, <2>1, <3>2 DEF NoGap
        <4>2. \A k \in Nat : On(t, k) => On(t, k)'
          BY <1>3, <3>2 DEF Added
        <4> QED
          BY <4>1, <4>2
      <3>3. CASE t = s /\ m = n
        <4>1. log[n].chan \in Channels
          BY <1>2, <2>1, <3>3, MessageFacts
        <4>2. last[log[n].chan] <= Written /\ last[log[n].chan] \in Nat
          BY <1>1, <4>1 DEF ReadIsWritten, IndInv, Types
        <4>3. n > last[log[n].chan]
          BY <1>2, <4>2
        <4>4. ASSUME NEW k \in 1 .. (n - 1), log[k].chan = log[n].chan,
                     k > last[log[n].chan]
              PROVE  On(s, k)'
          <5>1. k \in 1 .. Written /\ k \in Nat
            BY <1>2
          <5>2. s <= Len(streams) /\ On(s, k)
            BY <2>1, <3>3, <4>4, <5>1
          <5> QED
            BY <1>3, <3>3, <5>1, <5>2 DEF Added
        <4> QED
          BY <3>3, <4>3, <4>4
      <3> QED
        BY <3>1, <3>2, <3>3 DEF Added
    <2> QED
      BY <2>1 DEF NoGap
  <1>9. ReadIsWritten'
    <2>1. last \in [Channels -> Nat]
      BY DEF IndInv, Types
    <2> QED
      BY <1>1, <1>2, <2>1 DEF ReadIsWritten
  <1> QED
    BY <1>6, <1>7, <1>8, <1>9

\* What the writer's step does to the rest, however the write ends.
LEMMA TakesFacts ==
    ASSUME IndInv, NEW n, WriterTakes(n), queue' = Tail(queue) \/ queue' = <<>>,
           frame_seq' \in Nat, channel_streams' \in [Windows -> Nat],
           streams' \in Seq(Streams), streams' # <<>>
    PROVE  /\ Types' /\ QueueIsSuffix' /\ LogOrder' /\ Extends
           /\ n = Written + 1 /\ n \in 1 .. Len(log) /\ n \in Nat \ {0}
           /\ log[n] \in Messages /\ writer = "run"
           /\ n <= Written' /\ (queue' = Tail(queue) => Written' = n)
           /\ UNCHANGED <<window, log, viewer, conn, last, shown, pending>>
  <1>1. /\ writer = "run" /\ queue # <<>> /\ n = Head(queue)
        /\ UNCHANGED <<window, log, viewer, conn, last, shown, pending>>
    BY DEF WriterTakes, compositorVars, clientVars
  <1>2. /\ Len(log) \in Nat /\ Len(queue) \in Nat /\ Written \in Nat /\ Written <= Len(log)
        /\ Written + 1 <= Len(log) /\ n = Written + 1
        /\ \A m \in 1 .. Len(log) : log[m] \in Messages
    BY <1>1, LengthFacts DEF IndInv, Lengths
  <1>3. queue \in Seq(Nat) /\ Tail(queue) \in Seq(Nat) /\ <<>> \in Seq(Nat)
    BY <1>1 DEF IndInv, Types
  <1>4. /\ Len(Tail(queue)) = Len(queue) - 1
        /\ \A i \in 1 .. (Len(queue) - 1) : Tail(queue)[i] = queue[i + 1]
    BY <1>1, <1>3
  <1>5. Types' /\ LogOrder'
    BY <1>1, <1>3 DEF IndInv, Types, LogOrder
  <1>6. CASE queue' = Tail(queue)
    <2>1. Written' = Written + 1
      BY <1>1, <1>2, <1>4, <1>6 DEF Written
    <2>2. Len(queue') <= Len(log') /\ Len(queue') = Len(queue) - 1
      BY <1>1, <1>2, <1>4, <1>6 DEF IndInv, QueueIsSuffix
    <2>3. ASSUME NEW i \in 1 .. (Len(queue) - 1) PROVE queue'[i] = Written' + i
      <3>1. queue'[i] = queue[i + 1] /\ i + 1 \in 1 .. Len(queue)
        BY <1>2, <1>4, <1>6
      <3>2. queue[i + 1] = Written + (i + 1)
        BY <3>1 DEF IndInv, QueueIsSuffix
      <3> QED
        BY <1>2, <2>1, <3>1, <3>2
    <2>4. QueueIsSuffix'
      BY <2>2, <2>3 DEF QueueIsSuffix
    <2>5. Extends
      BY <1>1, <1>2, <2>1 DEF Extends
    <2> QED
      BY <1>1, <1>2, <1>5, <2>1, <2>4, <2>5
  <1>7. CASE queue' = <<>>
    <2>1. Written' = Len(log) /\ Len(queue') = 0
      BY <1>1, <1>2, <1>7 DEF Written
    <2>2. QueueIsSuffix' /\ Extends
      BY <1>1, <1>2, <2>1 DEF QueueIsSuffix, Extends
    <2>3. queue' = Tail(queue) => Written' = n
      <3>1. SUFFICES ASSUME queue' = Tail(queue) PROVE Written' = n
        OBVIOUS
      <3>2. Len(queue) = 1
        BY <1>2, <1>4, <2>1, <3>1
      <3>3. Written = Len(log) - 1
        BY <3>2 DEF Written
      <3>4. n = Len(log)
        BY <1>2, <3>3
      <3> QED
        BY <2>1, <3>4
    <2>4. n <= Written' /\ n \in 1 .. Len(log) /\ n \in Nat \ {0} /\ log[n] \in Messages
      BY <1>2, <2>1
    <2> QED
      BY <1>1, <1>2, <1>5, <2>2, <2>3, <2>4
  <1> QED
    BY <1>6, <1>7

\* Message n went on stream s, or as datagrams for 0.  The stream is the main
\* one or the one of the message's window, which then keeps it or is destroyed.
Puts(s, n) ==
    /\ After(s, n) /\ queue' = Tail(queue)
    /\ \A v \in Windows : v # log[n].win \/ s = 0 => channel_streams'[v] = channel_streams[v]
    /\ \A t \in 1 .. Len(streams) : t # s => streams'[t].state = streams[t].state
    /\ s = 0 => log[n].what = "tile"
    /\ s = 1 => log[n].chan = Main
    /\ s > 1 => LET w == log[n].win IN
          /\ w \in Windows /\ s = ChannelOf(w)
          /\ \/ channel_streams'[w] = s /\ streams'[s].state = "open"
             \/ channel_streams'[w] = 0 /\ log[n].what = "destroyed"

\* A message goes behind the others of its channel.
LEMMA PutsOrdered ==
    ASSUME IndInv, Live, NEW n, WriterTakes(n), NEW s, Puts(s, n), frame_seq' \in Nat,
           channel_streams' \in [Windows -> Nat]
    PROVE  StreamsOrdered' /\ OneStream' /\ NoGap' /\ ReadIsWritten'
  <1>1. streams' \in Seq(Streams) /\ Len(streams') \in {Len(streams), Len(streams) + 1}
    BY DEF Puts, After
  <1>2. /\ Len(streams) \in Nat /\ Len(streams) >= 1 /\ Written \in Nat /\ Len(log) \in Nat
        /\ Written <= Len(log) /\ \A m \in 1 .. Len(log) : log[m] \in Messages
    BY LengthFacts DEF IndInv, Lengths
  <1>3. streams' # <<>>
    BY <1>1, <1>2
  <1>4. /\ n = Written + 1 /\ n \in 1 .. Len(log) /\ log[n] \in Messages
        /\ n \in Nat \ {0} /\ Written' = n /\ writer = "run" /\ log' = log /\ last' = last
    BY <1>1, <1>3, TakesFacts DEF Puts
  <1>5. s \in Nat /\ s \in 0 .. Len(streams')
    BY <1>1, <1>2 DEF Puts, After
  <1>6. /\ StreamsOrdered /\ ChannelsNamed /\ ChannelsUnnamed /\ AllWritten
    BY <1>4 DEF IndInv, StreamInv
  <1>7. s # 0 => (s = 1 <=> log[n].chan = Main)
    <2>1. ASSUME s > 1 PROVE log[n].chan # Main
      <3>1. log[n].win \in Windows
        BY <2>1 DEF Puts
      <3> QED
        BY <1>4, <3>1, MessageFacts, QuicAssumption DEF Main, TileChannel
    <2> QED
      BY <1>5, <2>1 DEF Puts
  <1>8. ASSUME s # 0, log[n].what # "tile", NEW k \in 1 .. Written,
               log[k].chan = log[n].chan, k > last[log[n].chan]
        PROVE  s <= Len(streams) /\ On(s, k)
    <2>1. log[k] \in Messages /\ k \in Nat \ {0} /\ k \in 1 .. Len(log)
      BY <1>2
    <2>2. log[n].chan \in Channels
      BY <1>4, <1>8, MessageFacts
    <2>3. log[k].what # "tile"
      BY <1>8, <2>1, <2>2, MessageFacts, QuicAssumption DEF Channels, Main, TileChannel
    <2>4. PICK t \in 1 .. Len(streams) : On(t, k)
      BY <1>6, <1>8, <2>3 DEF AllWritten
    <2>5. t = 1 <=> log[k].chan = Main
      BY <1>6, <2>1, <2>4 DEF StreamsOrdered
    <2>6. CASE s = 1
      BY <1>2, <1>7, <1>8, <2>4, <2>5, <2>6
    <2>7. CASE s > 1
      <3> DEFINE w == log[n].win
      <3>1. w \in Windows /\ s = ChannelOf(w) /\ channel_streams[w] \in Nat
        BY <2>7 DEF Puts, IndInv, Types
      <3>2. log[k].win = w /\ t \in 2 .. Len(streams)
        BY <1>2, <1>4, <1>7, <1>8, <2>1, <2>3, <2>5, <2>7, MessageFacts
      <3>3. channel_streams[w] # 0
        <4>1. ~ \A m \in (Written + 1) .. Len(log) : log[m].win # w
          BY <1>2, <1>4
        <4> QED
          BY <1>6, <2>1, <2>4, <3>1, <3>2, <4>1 DEF ChannelsUnnamed
      <3>4. t = s
        BY <1>6, <2>1, <2>4, <3>1, <3>2, <3>3 DEF ChannelsNamed, ChannelOf
      <3> QED
        BY <1>2, <2>4, <3>4
    <2> QED
      BY <1>5, <1>8, <2>6, <2>7
  <1>9. s # 0 /\ log[n].what # "tile" =>
           \A k \in 1 .. Written :
              log[k].chan = log[n].chan /\ k > last[log[n].chan] =>
                 s <= Len(streams) /\ On(s, k)
    BY <1>8
  <1>10. /\ After(s, n) /\ n \in Nat /\ n <= Len(log) /\ Written' \in Nat
         /\ Written <= Written' /\ n <= Written'
    BY <1>2, <1>4 DEF Puts
  <1> HIDE DEF Puts
  <1> QED
    BY <1>4, <1>7, <1>9, <1>10, AfterOrdered

\* The streams named by channel_streams stay the ones of their windows.
LEMMA PutsKeepsStreams ==
    ASSUME IndInv, Live, NEW n, WriterTakes(n), NEW s, Puts(s, n), frame_seq' \in Nat,
           channel_streams' \in [Windows -> Nat]
    PROVE  StreamInv'
  <1>1. streams' \in Seq(Streams) /\ Len(streams') \in {Len(streams), Len(streams) + 1}
    BY DEF Puts, After
  <1>2. /\ Len(streams) \in Nat /\ Len(streams) >= 1 /\ Written \in Nat /\ Len(log) \in Nat
        /\ Written <= Len(log) /\ \A m \in 1 .. Len(log) : log[m] \in Messages
    BY LengthFacts DEF IndInv, Lengths
  <1>3. streams' # <<>>
    BY <1>1, <1>2
  <1>4. /\ n = Written + 1 /\ n \in 1 .. Len(log) /\ log[n] \in Messages
        /\ n \in Nat \ {0} /\ Written' = n /\ writer = "run"
        /\ UNCHANGED <<log, last, window>>
    BY <1>1, <1>3, TakesFacts DEF Puts
  <1>5. s \in Nat /\ s \in 0 .. Len(streams')
    BY <1>1, <1>2 DEF Puts, After
  <1>6. StreamsOrdered /\ ChannelsNamed /\ ChannelsUnnamed /\ AllWritten
    BY <1>4 DEF IndInv, StreamInv
  <1>7. \A t \in 1 .. Len(streams'), m \in Nat : On(t, m)' <=> Added(t, m, s, n)
    BY <1>4, <1>6, AfterFacts DEF IndInv, Puts
  <1>8. channel_streams \in [Windows -> Nat]
    BY DEF IndInv, Types
  <1> DEFINE w == log[n].win
  <1>9. s = 1 => w \notin Windows
    BY <1>4, MessageFacts, QuicAssumption DEF Puts, Main, TileChannel
  <1>10. s > 1 =>
            /\ w \in Windows /\ s = ChannelOf(w)
            /\ \/ channel_streams'[w] = s /\ streams'[s].state = "open"
               \/ channel_streams'[w] = 0 /\ log[n].what = "destroyed"
    BY DEF Puts
  <1>11. \A v \in Windows : v # w \/ s = 0 => channel_streams'[v] = channel_streams[v]
    BY DEF Puts
  <1>12. \A t \in 1 .. Len(streams) : t # s => streams'[t].state = streams[t].state
    BY DEF Puts
  <1>13. log[n].what # "tile" => s # 0
    BY DEF Puts
  <1>14. ASSUME NEW v \in Windows, channel_streams[v] # 0, channel_streams[v] = s
         PROVE  s > 1 /\ v = w
    <2>1. s \in 2 .. Len(streams)
      BY <1>6, <1>14 DEF ChannelsNamed
    <2>2. w \in Windows /\ s = ChannelOf(w) /\ s > 1
      BY <1>10, <2>1
    <2>3. channel_streams[w] = s
      BY <1>2, <2>1, <2>2 DEF ChannelOf
    <2> QED
      BY <1>6, <1>14, <2>2, <2>3 DEF ChannelsNamed
  <1>15. ASSUME NEW t \in 2 .. Len(streams), NEW m \in Nat \ {0}, On(t, m), log[m].win = w,
                s > 1
         PROVE  t = s
    <2>1. w \in Windows /\ s = ChannelOf(w)
      BY <1>10, <1>15
    <2>2. ~ \A k \in (Written + 1) .. Len(log) : log[k].win # w
      BY <1>2, <1>4
    <2>3. channel_streams[w] # 0
      BY <1>6, <1>15, <2>1, <2>2 DEF ChannelsUnnamed
    <2> QED
      BY <1>6, <1>15, <2>1, <2>3 DEF ChannelsNamed, ChannelOf
  <1>16. \A t \in 2 .. Len(streams'), m \in Nat \ {0} :
            On(t, m)' => \/ t \in 2 .. Len(streams) /\ On(t, m)
                         \/ t = s /\ m = n /\ s > 1
    <2>1. ASSUME NEW t \in 2 .. Len(streams'), NEW m \in Nat \ {0}, On(t, m)'
          PROVE  \/ t \in 2 .. Len(streams) /\ On(t, m)
                 \/ t = s /\ m = n /\ s > 1
      <3>1. Added(t, m, s, n)
        BY <1>1, <1>2, <1>7, <2>1
      <3> QED
        BY <1>1, <1>2, <3>1 DEF Added
    <2> QED
      BY <2>1
  <1> HIDE DEF w
  <1>17. ChannelsNamed'
    <2>1. ASSUME NEW v \in Windows, channel_streams'[v] # 0
          PROVE  /\ channel_streams'[v] \in 2 .. Len(streams')
                 /\ streams'[channel_streams'[v]].state = "open"
                 /\ \A u \in Windows : channel_streams'[u] = channel_streams'[v] => u = v
                 /\ \A t \in 2 .. Len(streams'), m \in Nat \ {0} :
                       On(t, m)' /\ log[m].win = v => t = channel_streams'[v]
      <3>1. CASE v = w /\ s # 0
        <4>1. s > 1 /\ channel_streams'[v] = s /\ streams'[s].state = "open"
          BY <1>5, <1>9, <1>10, <2>1, <3>1
        <4>2. s \in 2 .. Len(streams')
          BY <1>5, <4>1
        <4>3. ASSUME NEW u \in Windows, channel_streams'[u] = s PROVE u = v
          BY <1>11, <1>14, <3>1, <4>1, <4>3
        <4>4. \A t \in 2 .. Len(streams'), m \in Nat \ {0} :
                 On(t, m)' /\ log[m].win = v => t = s
          BY <1>15, <1>16, <3>1, <4>1
        <4> QED
          BY <4>1, <4>2, <4>3, <4>4
      <3>2. CASE v # w \/ s = 0
        <4> DEFINE c == channel_streams[v]
        <4>1. channel_streams'[v] = c
          BY <1>11, <3>2
        <4>2. /\ c \in 2 .. Len(streams) /\ streams[c].state = "open"
              /\ \A u \in Windows : channel_streams[u] = c => u = v
              /\ \A t \in 2 .. Len(streams), m \in Nat \ {0} :
                    On(t, m) /\ log[m].win = v => t = c
          BY <1>6, <2>1, <4>1 DEF ChannelsNamed
        <4>3. c # s
          BY <1>14, <2>1, <3>2, <4>1
        <4>4. c \in 2 .. Len(streams') /\ streams'[c].state = "open"
          BY <1>1, <1>2, <1>12, <4>2, <4>3
        <4>5. ASSUME NEW u \in Windows, channel_streams'[u] = c PROVE u = v
          <5>1. CASE u = w /\ s > 1
            BY <1>10, <2>1, <4>1, <4>3, <4>5, <5>1
          <5>2. CASE u # w \/ s = 0
            BY <1>11, <4>2, <4>5, <5>2
          <5> QED
            BY <1>5, <1>9, <5>1, <5>2
        <4>6. \A t \in 2 .. Len(streams'), m \in Nat \ {0} :
                 On(t, m)' /\ log[m].win = v => t = c
          BY <1>16, <3>2, <4>2 DEF w
        <4> QED
          BY <4>1, <4>4, <4>5, <4>6
      <3> QED
        BY <3>1, <3>2
    <2> QED
      BY <1>4, <2>1 DEF ChannelsNamed
  <1>18. ChannelsUnnamed'
    <2>1. ASSUME NEW v \in Windows, channel_streams'[v] = 0
          PROVE  \/ \A t \in 2 .. Len(streams'), m \in Nat \ {0} : On(t, m)' => log[m].win # v
                 \/ /\ window[v] = "gone"
                    /\ \A m \in (n + 1) .. Len(log) : log[m].win # v
      <3>1. CASE v = w /\ s # 0
        <4>1. log[n].what = "destroyed"
          BY <1>5, <1>9, <1>10, <2>1, <3>1
        <4> QED
          BY <1>4, <3>1, <4>1 DEF IndInv, LogOrder, w
      <3>2. CASE v # w \/ s = 0
        <4>1. \/ \A t \in 2 .. Len(streams), m \in Nat \ {0} : On(t, m) => log[m].win # v
              \/ /\ window[v] = "gone"
                 /\ \A m \in (Written + 1) .. Len(log) : log[m].win # v
          BY <1>6, <1>11, <2>1, <3>2 DEF ChannelsUnnamed
        <4>2. CASE \A t \in 2 .. Len(streams), m \in Nat \ {0} : On(t, m) => log[m].win # v
          BY <1>16, <3>2, <4>2 DEF w
        <4>3. CASE /\ window[v] = "gone"
                   /\ \A m \in (Written + 1) .. Len(log) : log[m].win # v
          BY <1>2, <1>4, <4>3
        <4> QED
          BY <4>1, <4>2, <4>3
      <3> QED
        BY <3>1, <3>2
    <2> QED
      BY <1>4, <2>1 DEF ChannelsUnnamed
  <1>19. AllWritten'
    <2>1. ASSUME NEW k \in 1 .. n, log[k].what # "tile", k > last[log[k].chan]
          PROVE  \E t \in 1 .. Len(streams') : On(t, k)'
      <3>1. CASE k = n
        <4>1. s \in 1 .. Len(streams') /\ Added(s, n, s, n)
          BY <1>5, <1>13, <2>1, <3>1 DEF Added
        <4> QED
          BY <1>4, <1>7, <3>1, <4>1
      <3>2. CASE k \in 1 .. Written
        <4>1. PICK t \in 1 .. Len(streams) : On(t, k)
          BY <1>6, <2>1, <3>2 DEF AllWritten
        <4>2. t \in 1 .. Len(streams') /\ Added(t, k, s, n)
          BY <1>1, <1>2, <4>1 DEF Added
        <4> QED
          BY <1>7, <3>2, <4>2
      <3> QED
        BY <1>2, <1>4, <3>1, <3>2
    <2> QED
      BY <1>4, <2>1 DEF AllWritten
  <1>20. StreamsOrdered' /\ OneStream' /\ NoGap' /\ ReadIsWritten'
    BY PutsOrdered
  <1> QED
    BY <1>17, <1>18, <1>19, <1>20 DEF StreamInv

\* The writer ends at a message it could not write: what is on the streams is
\* still read in order.
LEMMA DropsKeepsStreams ==
    ASSUME IndInv, Live, NEW n, WriterTakes(n), WriterEnds, After(0, n), frame_seq' \in Nat
    PROVE  StreamInv'
  <1>1. streams' \in Seq(Streams) /\ Len(streams') \in {Len(streams), Len(streams) + 1}
    BY DEF After
  <1>2. /\ Len(streams) \in Nat /\ Len(streams) >= 1 /\ Written \in Nat /\ Len(log) \in Nat
    BY LengthFacts DEF IndInv, Lengths
  <1>3. streams' # <<>> /\ channel_streams' \in [Windows -> Nat] /\ queue' = <<>>
        /\ writer' = "done"
    BY <1>1, <1>2 DEF WriterEnds
  <1>4. /\ n = Written + 1 /\ n \in 1 .. Len(log) /\ n \in Nat
        /\ UNCHANGED <<log, last>> /\ n <= Written' /\ Types' /\ QueueIsSuffix'
    BY <1>1, <1>3, TakesFacts
  <1>5. Written' \in Nat /\ Written <= Written' /\ n <= Len(log)
    BY <1>2, <1>4, NextLengths DEF Lengths
  <1>6. StreamsOrdered' /\ OneStream' /\ NoGap' /\ ReadIsWritten'
    BY <1>4, <1>5, AfterOrdered
  <1> QED
    BY <1>3, <1>6 DEF StreamInv

\* The outcomes of a write, for the streams.
Outcome(n) ==
    /\ queue' = Tail(queue) \/ queue' = <<>>
    /\ channel_streams' \in [Windows -> Nat]
    /\ streams' \in Seq(Streams) /\ streams' # <<>>
    /\ Live => (\E s : s # 0 /\ Puts(s, n)) \/ (WriterEnds /\ After(0, n))

\* write_frame on the main stream.
LEMMA MainOutcome ==
    ASSUME IndInv, NEW n, WriteOther(n)
    PROVE  Outcome(n)
  <1>1. /\ writer = "run" /\ queue # <<>> /\ n = Head(queue) /\ log[n].chan = Main
        /\ WriteMain(n, streams) /\ (writer' = "run" => UNCHANGED channel_streams)
    BY DEF WriteOther, WriterTakes
  <1>2. /\ n \in Nat \ {0} /\ log[n] \in Messages /\ Len(streams) \in Nat /\ Len(streams) >= 1
    BY <1>1, LengthFacts DEF IndInv, Lengths
  <1>3. streams \in Seq(Streams) /\ streams # <<>> /\ channel_streams \in [Windows -> Nat]
    BY DEF IndInv, Types
  <1>4. CASE streams' = Put(streams, 1, n) /\ Wrote
    <2>1. /\ streams' \in Seq(Streams) /\ Len(streams') = Len(streams)
          /\ \A t \in 1 .. Len(streams) :
                /\ streams'[t].msgs = IF t = 1 THEN Append(streams[t].msgs, n)
                                      ELSE streams[t].msgs
                /\ streams'[t].ready = streams[t].ready
                /\ streams'[t].state = streams[t].state
      BY <1>2, <1>3, <1>4, PutFacts
    <2>2. queue' = Tail(queue) /\ channel_streams' = channel_streams
      BY <1>1, <1>4 DEF Wrote
    <2>3. streams' # <<>>
      BY <1>2, <2>1
    <2>4. After(1, n)
      BY <1>2, <2>1 DEF After
    <2>5. Puts(1, n)
      BY <1>1, <2>1, <2>2, <2>4 DEF Puts
    <2> QED
      BY <1>3, <2>1, <2>2, <2>3, <2>5 DEF Outcome
  <1>5. CASE streams' = streams /\ WriterEnds
    <2>1. queue' = <<>> /\ channel_streams' \in [Windows -> Nat]
      BY <1>5 DEF WriterEnds
    <2>2. After(0, n)
      BY <1>2, <1>3, <1>5 DEF After
    <2> QED
      BY <1>3, <1>5, <2>1, <2>2 DEF Outcome
  <1> QED
    BY <1>1, <1>4, <1>5 DEF WriteMain

\* write_channel_frame.  While somebody reads, the stream of a window is open
\* and the message does not fall back to the main stream: it could overtake.
LEMMA ChannelOutcome ==
    ASSUME IndInv, NEW n, WriterTakes(n), log[n].win \in Windows, NEW closing \in BOOLEAN,
           closing => log[n].what = "destroyed", WriteChannel(n, closing)
    PROVE  Outcome(n)
  <1> DEFINE w == log[n].win
             c == ChannelOf(w)
             ss == Put(Opened(w), c, n)
             ff == Finish(Opened(w), c)
             ok == conn = "open" /\ Encodable(n) /\ Opened(w)[c].state = "open"
  <1>1. writer = "run" /\ queue # <<>> /\ n = Head(queue)
    BY DEF WriterTakes
  <1>2. n \in Nat \ {0} /\ log[n] \in Messages /\ Len(streams) \in Nat /\ Len(streams) >= 1
    BY <1>1, LengthFacts DEF IndInv, Lengths
  <1>3. streams \in Seq(Streams) /\ streams # <<>> /\ channel_streams \in [Windows -> Nat]
    BY DEF IndInv, Types
  <1>4. /\ Opened(w) \in Seq(Streams) /\ c \in Nat
        /\ Len(Opened(w)) = IF channel_streams[w] # 0 THEN Len(streams) ELSE Len(streams) + 1
        /\ \A t \in 1 .. Len(streams) : Opened(w)[t] = streams[t]
        /\ channel_streams[w] = 0 =>
              /\ c = Len(streams) + 1
              /\ Opened(w)[Len(streams) + 1].msgs = <<0>>
              /\ Opened(w)[Len(streams) + 1].state = "open"
        /\ channel_streams[w] # 0 => c = channel_streams[w]
    BY OpenedFacts DEF IndInv
  <1>5. ASSUME Live
        PROVE  /\ c \in 2 .. Len(Opened(w)) /\ Opened(w)[c].state = "open"
    <2>1. CASE channel_streams[w] = 0
      BY <1>2, <1>4, <2>1
    <2>2. CASE channel_streams[w] # 0
      <3>1. ChannelsNamed
        BY <1>1, <1>5 DEF IndInv, StreamInv
      <3>2. c \in 2 .. Len(streams) /\ streams[c].state = "open"
        BY <1>4, <2>2, <3>1 DEF ChannelsNamed
      <3> QED
        BY <1>2, <1>4, <2>2, <3>2
    <2> QED
      BY <2>1, <2>2
  <1>6. /\ ff \in Seq(Streams) /\ Len(ff) = Len(Opened(w))
        /\ \A t \in 1 .. Len(Opened(w)) :
              /\ ff[t].msgs = Opened(w)[t].msgs /\ ff[t].ready = Opened(w)[t].ready
    BY <1>4, FinishFacts
  <1>7. /\ ss \in Seq(Streams) /\ Len(ss) = Len(Opened(w))
        /\ \A t \in 1 .. Len(Opened(w)) :
              /\ ss[t].msgs = IF t = c THEN Append(Opened(w)[t].msgs, n)
                              ELSE Opened(w)[t].msgs
              /\ ss[t].ready = Opened(w)[t].ready /\ ss[t].state = Opened(w)[t].state
    BY <1>2, <1>4, PutFacts
  <1>8. /\ Finish(ss, c) \in Seq(Streams) /\ Len(Finish(ss, c)) = Len(ss)
        /\ \A t \in 1 .. Len(ss) :
              /\ Finish(ss, c)[t].msgs = ss[t].msgs /\ Finish(ss, c)[t].ready = ss[t].ready
              /\ t # c => Finish(ss, c)[t] = ss[t]
    BY <1>4, <1>7, FinishFacts
  <1>9. /\ ok => /\ streams' = IF closing THEN Finish(ss, c) ELSE ss
                 /\ channel_streams' = [channel_streams EXCEPT ![w] = IF closing THEN 0 ELSE c]
                 /\ Wrote
        /\ ~ ok => /\ WriteMain(n, IF conn = "open" THEN ff ELSE streams)
                   /\ writer' = "run" => channel_streams' = [channel_streams EXCEPT ![w] = 0]
    BY DEF WriteChannel
  <1> HIDE DEF ss, ff, c
  <1>10. CASE ok
    <2>1. queue' = Tail(queue) /\ channel_streams' \in [Windows -> Nat]
      BY <1>3, <1>4, <1>9, <1>10 DEF Wrote
    <2>2. /\ streams' \in Seq(Streams) /\ Len(streams') = Len(Opened(w))
          /\ \A t \in 1 .. Len(Opened(w)) :
                /\ streams'[t].msgs = IF t = c THEN Append(Opened(w)[t].msgs, n)
                                      ELSE Opened(w)[t].msgs
                /\ streams'[t].ready = Opened(w)[t].ready
                /\ t # c \/ ~ closing => streams'[t].state = Opened(w)[t].state
      <3>1. CASE closing
        BY <1>7, <1>8, <1>9, <1>10, <3>1
      <3>2. CASE ~ closing
        BY <1>7, <1>9, <1>10, <3>2
      <3> QED
        BY <3>1, <3>2
    <2>3. streams' # <<>>
      BY <1>2, <1>4, <2>2
    <2>4. ASSUME Live PROVE c # 0 /\ Puts(c, n)
      <3>1. c \in 2 .. Len(Opened(w)) /\ Opened(w)[c].state = "open"
        BY <1>5, <2>4
      <3>2. After(c, n)
        <4>1. Len(streams') \in {Len(streams), Len(streams) + 1} /\ c \in 0 .. Len(streams')
          BY <1>2, <1>4, <2>2, <3>1
        <4>2. \A t \in 1 .. Len(streams) :
                 /\ streams'[t].msgs = IF t = c THEN Append(streams[t].msgs, n)
                                       ELSE streams[t].msgs
                 /\ streams'[t].ready = streams[t].ready
          BY <1>2, <1>4, <2>2
        <4>3. Len(streams') = Len(streams) + 1 =>
                 streams'[Len(streams) + 1].msgs =
                     IF c = Len(streams) + 1 THEN Append(<<0>>, n) ELSE <<0>>
          BY <1>2, <1>4, <2>2
        <4> QED
          BY <2>2, <4>1, <4>2, <4>3 DEF After
      <3>3. \A v \in Windows : v # w \/ c = 0 => channel_streams'[v] = channel_streams[v]
        BY <1>3, <1>9, <1>10, <3>1
      <3>4. \A t \in 1 .. Len(streams) : t # c => streams'[t].state = streams[t].state
        BY <1>2, <1>4, <2>2
      <3>5. \/ channel_streams'[w] = c /\ streams'[c].state = "open"
            \/ channel_streams'[w] = 0 /\ log[n].what = "destroyed"
        BY <1>3, <1>9, <1>10, <2>2, <3>1
      <3> QED
        BY <2>1, <3>1, <3>2, <3>3, <3>4, <3>5 DEF Puts, c
    <2> QED
      BY <2>1, <2>2, <2>3, <2>4 DEF Outcome
  <1>11. CASE ~ ok
    <2> DEFINE tt == IF conn = "open" THEN ff ELSE streams
    <2>1. tt \in Seq(Streams) /\ Len(tt) \in Nat /\ Len(tt) >= 1
      BY <1>2, <1>3, <1>4, <1>6
    <2>2. /\ Put(tt, 1, n) \in Seq(Streams) /\ Len(Put(tt, 1, n)) = Len(tt)
      BY <1>2, <2>1, PutFacts
    <2> HIDE DEF tt
    <2>3. CASE conn = "open" /\ Encodable(n)
      <3>1. streams' = Put(tt, 1, n) /\ Wrote
        BY <1>9, <1>11, <2>3 DEF WriteMain, tt
      <3>2. queue' = Tail(queue) /\ channel_streams' = [channel_streams EXCEPT ![w] = 0]
        BY <1>1, <1>9, <1>11, <3>1 DEF Wrote
      <3>3. streams' \in Seq(Streams) /\ streams' # <<>>
        BY <2>1, <2>2, <3>1
      <3>4. ~ Live
        BY <1>5, <1>11, <2>3
      <3> QED
        BY <1>3, <3>2, <3>3, <3>4 DEF Outcome
    <2>4. CASE ~ (conn = "open" /\ Encodable(n))
      <3>1. streams' = tt /\ WriterEnds
        BY <1>9, <1>11, <2>4 DEF WriteMain, tt
      <3>2. queue' = <<>> /\ channel_streams' \in [Windows -> Nat]
        BY <3>1 DEF WriterEnds
      <3>3. streams' \in Seq(Streams) /\ streams' # <<>>
        BY <2>1, <3>1
      <3>4. ASSUME Live PROVE After(0, n)
        <4>1. streams' = ff
          BY <3>1, <3>4 DEF tt, Live
        <4>2. Len(streams') \in {Len(streams), Len(streams) + 1} /\ 0 \in 0 .. Len(streams')
          BY <1>2, <1>4, <1>6, <4>1
        <4>3. \A t \in 1 .. Len(streams) :
                 streams'[t].msgs = streams[t].msgs /\ streams'[t].ready = streams[t].ready
          BY <1>2, <1>4, <1>6, <4>1
        <4>4. Len(streams') = Len(streams) + 1 => streams'[Len(streams) + 1].msgs = <<0>>
          BY <1>2, <1>4, <1>6, <4>1
        <4> QED
          BY <1>2, <3>3, <4>2, <4>3, <4>4 DEF After
      <3> QED
        BY <3>1, <3>2, <3>3, <3>4 DEF Outcome
    <2> QED
      BY <2>3, <2>4
  <1> QED
    BY <1>10, <1>11

\* What is on a stream was there before the write, or is the message written.
LEMMA OnBefore ==
    ASSUME IndInv, Live, NEW n, WriterTakes(n), NEW s, After(s, n)
    PROVE  \A t \in 1 .. Len(streams'), m \in Nat \ {0} :
              On(t, m)' => \/ m <= Written /\ \E u \in 1 .. Len(streams) : On(u, m)
                           \/ m = n /\ s # 0
  <1>1. n \in Nat /\ n = Written + 1 /\ Len(streams) \in Nat
    BY LengthFacts DEF WriterTakes, IndInv, Lengths
  <1>2. StreamsOrdered
    BY DEF IndInv, StreamInv
  <1>3. \A t \in 1 .. Len(streams'), m \in Nat : On(t, m)' <=> Added(t, m, s, n)
    BY <1>1, <1>2, AfterFacts DEF IndInv
  <1> SUFFICES ASSUME NEW t \in 1 .. Len(streams'), NEW m \in Nat \ {0}, On(t, m)'
               PROVE  \/ m <= Written /\ \E u \in 1 .. Len(streams) : On(u, m)
                      \/ m = n /\ s # 0
    OBVIOUS
  <1>4. (t <= Len(streams) /\ On(t, m)) \/ (t = s /\ m = n)
    BY <1>3 DEF Added
  <1>5. Len(streams') \in Nat
    BY <1>1 DEF After
  <1>6. CASE t <= Len(streams) /\ On(t, m)
    <2>1. t \in 1 .. Len(streams)
      BY <1>1, <1>5, <1>6
    <2> QED
      BY <1>2, <1>6, <2>1 DEF StreamsOrdered
  <1>7. CASE t = s /\ m = n
    BY <1>5, <1>7
  <1> QED
    BY <1>4, <1>6, <1>7

\* The writes of a window's event or of another message.
LEMMA EventKeeps ==
    ASSUME IndInv, NEW n, WriterTakes(n), Outcome(n), log[n].what # "tile",
           UNCHANGED <<frame_seq, datagrams>>
    PROVE  IndInv'
  <1>1. frame_seq' \in Nat
    BY DEF IndInv, Types
  <1>2. /\ Types' /\ QueueIsSuffix' /\ LogOrder' /\ Extends
        /\ UNCHANGED <<window, log, viewer, conn, last, shown, pending>>
    BY <1>1, TakesFacts DEF Outcome
  <1>3. Live' <=> Live
    BY <1>2 DEF Live
  <1>4. Live => (\E s : s # 0 /\ Puts(s, n)) \/ (WriterEnds /\ After(0, n))
    BY DEF Outcome
  <1>5. StreamInv'
    <2>1. CASE ~ Live
      BY <1>3, <2>1 DEF StreamInv
    <2>2. CASE Live
      BY <1>1, <1>4, <2>2, PutsKeepsStreams, DropsKeepsStreams DEF Outcome
    <2> QED
      BY <2>1, <2>2
  <1>6. StreamsShrink
    <2>1. ASSUME Live', NEW t \in 1 .. Len(streams'), NEW m \in 1 .. Written', On(t, m)',
                 IsTile(m)'
          PROVE  m <= Written /\ \E u \in 1 .. Len(streams) : On(u, m)
      <3>1. Live /\ m \in Nat \ {0}
        BY <1>2, <1>3, <2>1, NextLengths DEF Lengths
      <3>2. PICK s : After(s, n)
        BY <1>4, <3>1 DEF Puts
      <3>3. m # n
        BY <1>2, <2>1 DEF IsTile
      <3> QED
        BY <2>1, <3>1, <3>2, <3>3, OnBefore
    <2> QED
      BY <1>3, <2>1 DEF StreamsShrink
  <1>7. TileInv'
    BY <1>2, <1>6, TileFrame DEF IndInv
  <1> QED
    BY <1>2, <1>5, <1>7 DEF IndInv

\* A message of no window.
LEMMA WriteOtherKeeps ==
    ASSUME IndInv, NEW n, WriteOther(n)
    PROVE  IndInv'
  <1>1. WriterTakes(n) /\ log[n].chan = Main /\ UNCHANGED <<frame_seq, datagrams>>
    BY DEF WriteOther
  <1>2. log[n] \in Messages
    BY <1>1, LengthFacts DEF WriterTakes, IndInv, Lengths
  <1>3. log[n].what # "tile"
    BY <1>1, <1>2, MessageFacts
  <1> QED
    BY <1>1, <1>3, MainOutcome, EventKeeps

\* An event of a window; its stream is finished behind the last one.
LEMMA WriteWindowEventKeeps ==
    ASSUME IndInv, NEW n, WriteWindowEvent(n)
    PROVE  IndInv'
  <1>1. /\ WriterTakes(n) /\ log[n].chan \in Windows /\ UNCHANGED <<frame_seq, datagrams>>
        /\ WriteChannel(n, log[n].what = "destroyed")
    BY DEF WriteWindowEvent
  <1>2. log[n] \in Messages
    BY <1>1, LengthFacts DEF WriterTakes, IndInv, Lengths
  <1>3. log[n].what # "tile" /\ log[n].win \in Windows
    BY <1>1, <1>2, MessageFacts
  <1>4. Outcome(n)
    BY <1>1, <1>3, ChannelOutcome
  <1> QED
    BY <1>1, <1>3, <1>4, EventKeeps

\* The chunks of a frame.
LEMMA ChunkRecords ==
    ASSUME NEW n, NEW seq, NEW c \in FrameTileDatagrams(n, seq)
    PROVE  /\ c.content = n /\ c.seq = seq /\ c.channel = log[n].win
           /\ c.count = ChunkCount(log[n].len) /\ c.index \in 0 .. (c.count - 1)
           /\ c.total = log[n].len /\ c.header = Header(log[n])
           /\ c.size = ChunkSize(log[n].len, c.index)
  BY DEF FrameTileDatagrams

\* A slot of the table holds chunks of a tile written before.
LEMMA SlotFacts ==
    ASSUME ChunksMade, NEW k \in DOMAIN pending
    PROVE  /\ k[2] \in 1 .. frame_seq
           /\ \A i \in DOMAIN pending[k].chunks :
                 pending[k].chunks[i] = 0 \/ IsTile(pending[k].chunks[i])
  BY DEF ChunksMade, SlotOf, SlotType

\* send_frame_tile_datagrams: the chunks of a new frame go out, and the tile
\* goes on a stream only if one of them did not.
LEMMA TilesSent ==
    ASSUME IndInv, Types', QueueIsSuffix', Extends, NEW n, n \in 1 .. Len(log),
           n = Written + 1, n <= Written', log[n].what = "tile",
           NEW k \in 0 .. ChunkCount(log[n].len),
           frame_seq' = frame_seq + 1,
           datagrams' = datagrams \cup {c \in FrameTileDatagrams(n, frame_seq + 1) : c.index < k},
           UNCHANGED <<log, shown, pending>>, Live' => Live,
           Live' => \A t \in 1 .. Len(streams'), m \in Nat \ {0} :
               On(t, m)' => \/ m <= Written /\ \E u \in 1 .. Len(streams) : On(u, m)
                            \/ m = n /\ k < ChunkCount(log[n].len)
    PROVE  TileInv'
  <1> DEFINE seq == frame_seq + 1
             new == {c \in FrameTileDatagrams(n, seq) : c.index < k}
             count == ChunkCount(log[n].len)
  <1>1. /\ Written \in Nat /\ Written' \in Nat /\ Len(log) \in Nat /\ frame_seq \in Nat
        /\ Len(log) <= MaxSent /\ MaxSent \in Nat
        /\ \A m \in 1 .. Len(log) : log[m] \in Messages
    BY LengthFacts, NextLengths DEF IndInv, Types, Lengths
  <1>2. n \in Nat \ {0} /\ log[n] \in Messages /\ n \in 1 .. MaxSent
    BY <1>1
  <1>3. log[n].len \in Nat
    BY <1>2, MessageFacts
  <1>4. count \in Nat \ {0}
    BY <1>3, ChunkFacts
  <1>5. ChunksMade /\ FramesDistinct /\ ChunkOnce /\ TableBounded /\ ShownOnce
    BY DEF IndInv, TileInv
  <1>6. \A m : IsTile(m) => IsTile(m)' /\ m \in Nat \ {0} /\ m <= Written /\ m # n
    BY <1>1, TilesStay DEF IndInv, IsTile
  <1>7. IsTile(n)'
    BY <1>1, <1>2 DEF IsTile
  <1>8. \A c \in new : /\ c.content = n /\ c.seq = seq /\ c.index < k
                       /\ c \in FrameTileDatagrams(n, seq) /\ Key(c)[2] = seq
    BY ChunkRecords DEF Key
  <1>9. \A c \in datagrams : IsTile(c.content) /\ c.seq \in 1 .. frame_seq
    BY <1>5 DEF ChunksMade
  <1>10. \A l \in DOMAIN pending :
            /\ l[2] \in 1 .. frame_seq
            /\ \A i \in DOMAIN pending[l].chunks : pending[l].chunks[i] # n
    BY <1>2, <1>5, <1>6, SlotFacts
  <1> HIDE DEF new, count
  <1>11. datagrams' = datagrams \cup new /\ pending' = pending /\ frame_seq' = seq
    BY DEF new
  <1>12. \A m, q : FrameTileDatagrams(m, q)' = FrameTileDatagrams(m, q)
    BY DEF FrameTileDatagrams
  <1>13. ChunksMade'
    <2>1. ASSUME NEW c \in datagrams \cup new
          PROVE  /\ IsTile(c.content)' /\ c.seq \in 1 .. seq
                 /\ c \in FrameTileDatagrams(c.content, c.seq)
      <3>1. CASE c \in datagrams
        BY <1>1, <1>5, <1>6, <3>1 DEF ChunksMade
      <3>2. CASE c \in new
        BY <1>1, <1>7, <1>8, <3>2
      <3> QED
        BY <3>1, <3>2
    <2>2. ASSUME NEW l \in DOMAIN pending, NEW m \in Nat, IsTile(m), SlotOf(pending[l], m)
          PROVE  SlotOf(pending[l], m)'
      BY <2>2 DEF SlotOf, SlotType, Complete
    <2>3. \A l \in DOMAIN pending : \E m \in Nat :
             /\ IsTile(m)' /\ SlotOf(pending[l], m)' /\ l[1] = log[m].win
             /\ l[2] \in 1 .. seq /\ l = <<l[1], l[2]>>
      BY <1>1, <1>5, <1>6, <2>2 DEF ChunksMade
    <2> QED
      BY <1>11, <1>12, <2>1, <2>3 DEF ChunksMade
  <1>14. FramesDistinct'
    <2>1. ASSUME NEW c \in datagrams \cup new, NEW d \in datagrams \cup new
          PROVE  c.seq = d.seq <=> c.content = d.content
      <3>1. CASE c \in datagrams /\ d \in datagrams
        BY <1>5, <3>1 DEF FramesDistinct
      <3>2. CASE c \in new /\ d \in new
        BY <1>8, <3>2
      <3>3. CASE c \in datagrams /\ d \in new
        BY <1>1, <1>6, <1>8, <1>9, <3>3
      <3>4. CASE c \in new /\ d \in datagrams
        BY <1>1, <1>6, <1>8, <1>9, <3>4
      <3> QED
        BY <3>1, <3>2, <3>3, <3>4
    <2>2. ASSUME NEW c \in datagrams \cup new, NEW l \in DOMAIN pending
          PROVE  c.seq = l[2] <=>
                    \E i \in DOMAIN pending[l].chunks : pending[l].chunks[i] = c.content
      <3>1. CASE c \in datagrams
        BY <1>5, <3>1 DEF FramesDistinct
      <3>2. CASE c \in new
        BY <1>1, <1>8, <1>10, <3>2
      <3> QED
        BY <3>1, <3>2
    <2> QED
      BY <1>5, <1>11, <2>1, <2>2 DEF FramesDistinct
  <1>15. ChunkOnce'
    <2>1. ASSUME NEW c \in datagrams \cup new, NEW l \in DOMAIN pending, l = Key(c)
          PROVE  pending[l].chunks[c.index] = 0
      <3>1. CASE c \in datagrams
        BY <1>5, <2>1, <3>1 DEF ChunkOnce
      <3>2. CASE c \in new
        BY <1>1, <1>8, <1>10, <2>1, <3>2
      <3> QED
        BY <3>1, <3>2
    <2> QED
      BY <1>11, <2>1 DEF ChunkOnce, Key
  <1>16. TableBounded'
    BY <1>5, <1>11 DEF TableBounded
  <1>17. ASSUME NEW m, IsTile(m), Missing(m) PROVE Missing(m)'
    <2>1. \A i \in Nat : AtLarge(m, i)' => AtLarge(m, i)
      BY <1>6, <1>8, <1>11, <1>17 DEF AtLarge, InFlight, InTable
    <2> QED
      BY <1>17, <2>1, MissingStays DEF IndInv
  <1>18. ASSUME k < count PROVE Missing(n)'
    <2>1. k \in 0 .. (count - 1)
      BY <1>4, <1>18 DEF count
    <2>2. ~ InFlight(n, k)'
      BY <1>1, <1>4, <1>6, <1>8, <1>9, <1>11, <2>1 DEF InFlight
    <2>3. ~ InTable(n, k)'
      BY <1>10, <1>11 DEF InTable
    <2>4. ~ AtLarge(n, k)'
      BY <2>2, <2>3 DEF AtLarge
    <2> QED
      BY <2>1, <2>4 DEF Missing, count
  <1>19. shown[n] = 0
    BY <1>2, <1>5, <1>6 DEF ShownOnce
  <1>20. \A m \in 1 .. MaxSent : shown'[m] # 0 => IsTile(m)' /\ Missing(m)'
    BY <1>5, <1>6, <1>17 DEF ShownOnce
  <1>21. ASSUME Live', NEW t \in 1 .. Len(streams'), NEW m \in 1 .. Written', On(t, m)',
                IsTile(m)'
         PROVE  shown'[m] = 0 /\ Missing(m)'
    <2>1. m \in Nat \ {0}
      BY <1>1
    <2>2. CASE m = n /\ k < ChunkCount(log[n].len)
      BY <1>18, <1>19, <2>2 DEF count
    <2>3. CASE m <= Written /\ \E u \in 1 .. Len(streams) : On(u, m)
      <3>1. m \in 1 .. Written /\ IsTile(m) /\ Live
        BY <1>1, <1>21, <2>1, <2>3 DEF IsTile
      <3> QED
        BY <1>5, <1>17, <2>3, <3>1 DEF ShownOnce
    <2> QED
      BY <1>21, <2>1, <2>2, <2>3
  <1>22. ShownOnce'
    BY <1>20, <1>21 DEF ShownOnce
  <1> QED
    BY <1>13, <1>14, <1>15, <1>16, <1>22 DEF TileInv

\* A tile goes as datagrams, and on a stream when not all of them could be sent.
LEMMA WriteTileKeeps ==
    ASSUME IndInv, NEW n, NEW k \in 0 .. ChunkCount(log[n].len), WriteTile(n, k)
    PROVE  IndInv'
  <1>1. /\ WriterTakes(n) /\ log[n].what = "tile" /\ frame_seq' = frame_seq + 1
        /\ datagrams' = datagrams \cup {c \in FrameTileDatagrams(n, frame_seq + 1) : c.index < k}
        /\ IF k = ChunkCount(log[n].len)
           THEN Wrote /\ UNCHANGED <<streams, channel_streams>>
           ELSE WriteChannel(n, FALSE)
    BY DEF WriteTile, SendFrameTileDatagrams
  <1>2. frame_seq' \in Nat /\ frame_seq \in Nat
    BY <1>1 DEF IndInv, Types
  <1>3. log[n] \in Messages /\ Len(streams) \in Nat
    <2>1. queue # <<>> /\ n = Head(queue)
      BY <1>1 DEF WriterTakes
    <2>2. Lengths
      BY LengthFacts DEF IndInv
    <2> QED
      BY <2>1, <2>2 DEF Lengths
  <1>4. log[n].win \in Windows /\ log[n].len \in Nat
    BY <1>1, <1>3, MessageFacts
  <1>5. ChunkCount(log[n].len) \in Nat
    BY <1>4, ChunkFacts
  <1>6. CASE k = ChunkCount(log[n].len)
    <2>1. /\ queue' = Tail(queue) /\ streams' = streams /\ channel_streams' = channel_streams
      BY <1>1, <1>6 DEF Wrote
    <2>2. /\ streams \in Seq(Streams) /\ streams # <<>> /\ channel_streams \in [Windows -> Nat]
      BY DEF IndInv, Types
    <2>3. /\ Types' /\ QueueIsSuffix' /\ LogOrder' /\ Extends /\ n = Written + 1
          /\ n \in 1 .. Len(log) /\ n <= Written'
          /\ UNCHANGED <<window, log, viewer, conn, last, shown, pending>>
      BY <1>1, <1>2, <2>1, <2>2, TakesFacts
    <2>4. Live' <=> Live
      BY <2>3 DEF Live
    <2>5. After(0, n)
      BY <1>3, <2>1, <2>2 DEF After
    <2>6. Puts(0, n)
      BY <1>1, <2>1, <2>5 DEF Puts
    <2>7. StreamInv'
      <3>1. CASE ~ Live
        BY <2>4, <3>1 DEF StreamInv
      <3>2. CASE Live
        BY <1>1, <1>2, <2>1, <2>2, <2>6, <3>2, PutsKeepsStreams
      <3> QED
        BY <3>1, <3>2
    <2>8. Live' => \A t \in 1 .. Len(streams'), m \in Nat \ {0} :
             On(t, m)' => m <= Written /\ \E u \in 1 .. Len(streams) : On(u, m)
      BY <1>1, <2>4, <2>5, OnBefore
    <2>9. TileInv'
      BY <1>1, <2>3, <2>4, <2>8, TilesSent
    <2> QED
      BY <2>3, <2>7, <2>9 DEF IndInv
  <1>7. CASE k # ChunkCount(log[n].len)
    <2>1. Outcome(n)
      BY <1>1, <1>4, <1>7, ChannelOutcome
    <2>2. /\ Types' /\ QueueIsSuffix' /\ LogOrder' /\ Extends /\ n = Written + 1
          /\ n \in 1 .. Len(log) /\ n <= Written'
          /\ UNCHANGED <<window, log, viewer, conn, last, shown, pending>>
      BY <1>1, <1>2, <2>1, TakesFacts DEF Outcome
    <2>3. Live' <=> Live
      BY <2>2 DEF Live
    <2>4. Live => (\E s : s # 0 /\ Puts(s, n)) \/ (WriterEnds /\ After(0, n))
      BY <2>1 DEF Outcome
    <2>5. StreamInv'
      <3>1. CASE ~ Live
        BY <2>3, <3>1 DEF StreamInv
      <3>2. CASE Live
        BY <1>1, <1>2, <2>1, <2>4, <3>2, PutsKeepsStreams, DropsKeepsStreams DEF Outcome
      <3> QED
        BY <3>1, <3>2
    <2>6. k < ChunkCount(log[n].len)
      BY <1>5, <1>7
    <2>7. Live' => \A t \in 1 .. Len(streams'), m \in Nat \ {0} :
             On(t, m)' => \/ m <= Written /\ \E u \in 1 .. Len(streams) : On(u, m)
                          \/ m = n /\ k < ChunkCount(log[n].len)
      <3>1. SUFFICES ASSUME Live'
                     PROVE  \A t \in 1 .. Len(streams'), m \in Nat \ {0} :
                        On(t, m)' => \/ m <= Written /\ \E u \in 1 .. Len(streams) : On(u, m)
                                     \/ m = n /\ k < ChunkCount(log[n].len)
        OBVIOUS
      <3>2. PICK s : After(s, n)
        BY <2>3, <2>4, <3>1 DEF Puts
      <3> QED
        BY <1>1, <2>3, <2>6, <3>1, <3>2, OnBefore
    <2>8. TileInv'
      BY <1>1, <2>2, <2>3, <2>7, TilesSent
    <2> QED
      BY <2>2, <2>5, <2>8 DEF IndInv
  <1> QED
    BY <1>6, <1>7

-----------------------------------------------------------------------------
(* The assembler.                                                          *)

\* A chunk filled into its slot.
LEMMA FillFacts ==
    ASSUME NEW c, NEW n, n = c.content, Slot(c) \in SlotType(n),
           c.index \in DOMAIN Slot(c).chunks, c.size \in Int
    PROVE  Filled(c) \in SlotType(n) /\ Filled(c).chunks = [Slot(c).chunks EXCEPT ![c.index] = n]
  <1> DEFINE D == 0 .. (ChunkCount(log[n].len) - 1)
             slot == Slot(c)
             i == c.index
             z == c.size
             x == [slot EXCEPT !.chunks[i] = n, !.received = @ + z]
             f == [slot.chunks EXCEPT ![i] = n]
  <1>0. Filled(c) = x
    BY Zenon DEF Filled
  <1>1. slot.chunks \in [D -> {0, n}] /\ slot.received \in Int
    BY DEF SlotType
  <1>2. i \in DOMAIN slot.chunks /\ z \in Int
    OBVIOUS
  <1>3. slot \in SlotType(n)
    OBVIOUS
  <1> HIDE DEF slot, i, z
  <1>4. f \in [D -> {0, n}]
    BY <1>1, <1>2
  <1>5. slot.received + z \in Int
    BY <1>1, <1>2
  <1>6. x = [slot EXCEPT !.chunks = f, !.received = slot.received + z]
    BY <1>3 DEF SlotType
  <1> HIDE DEF f, D, x
  <1>7. /\ x \in [header : {Header(log[n])}, total : {log[n].len}, chunks : [D -> {0, n}],
                  received : Int]
        /\ x.chunks = f
    <2>1. slot \in [header : {Header(log[n])}, total : {log[n].len},
                    chunks : [D -> {0, n}], received : Int]
      BY <1>3 DEF SlotType, D
    <2> QED
      BY <1>4, <1>5, <1>6, <2>1
  <1> QED
    BY <1>0, <1>7 DEF SlotType, D, f, slot, i

\* A chunk in flight.
LEMMA DatagramFacts ==
    ASSUME IndInv, NEW c \in datagrams, NEW n, n = c.content
    PROVE  /\ IsTile(n) /\ n \in Nat \ {0} /\ n \in 1 .. MaxSent
           /\ n \in 1 .. Len(log) /\ log[n] \in Messages
           /\ c.count = ChunkCount(log[n].len) /\ c.count \in Nat \ {0}
           /\ c.index \in 0 .. (c.count - 1) /\ c.seq \in 1 .. frame_seq
           /\ c.channel = log[n].win /\ c.total = log[n].len /\ c.header = Header(log[n])
           /\ c.size \in Int /\ c.total \in Nat
           /\ \A d \in datagrams : d.content = n /\ d.index = c.index => d = c
  <1>1. /\ Len(log) \in Nat /\ Written \in Nat /\ Written <= Len(log) /\ Len(log) <= MaxSent
        /\ MaxSent \in Nat /\ \A m \in 1 .. Len(log) : log[m] \in Messages
    BY LengthFacts DEF IndInv, Lengths
  <1>2. ChunksMade /\ FramesDistinct
    BY DEF IndInv, TileInv
  <1>3. IsTile(n) /\ c.seq \in 1 .. frame_seq /\ c \in FrameTileDatagrams(n, c.seq)
    BY <1>2 DEF ChunksMade
  <1>4. /\ n \in Nat \ {0} /\ n \in 1 .. MaxSent /\ n \in 1 .. Len(log) /\ log[n] \in Messages
    BY <1>1, <1>3 DEF IsTile
  <1>5. log[n].len \in Nat
    BY <1>4, MessageFacts
  <1>6. /\ c.count = ChunkCount(log[n].len) /\ c.index \in 0 .. (c.count - 1)
        /\ c.channel = log[n].win /\ c.total = log[n].len /\ c.header = Header(log[n])
        /\ c.size = ChunkSize(log[n].len, c.index)
    BY <1>3, ChunkRecords
  <1>7. c.count \in Nat \ {0}
    BY <1>5, <1>6, ChunkFacts
  <1>8. c.index \in Nat
    BY <1>6, <1>7
  <1>9. c.size \in Int
    BY <1>5, <1>6, <1>8, ChunkFacts
  <1>10. ASSUME NEW d \in datagrams, d.content = n, d.index = c.index PROVE d = c
    <2>1. d.seq = c.seq
      BY <1>2, <1>10 DEF FramesDistinct
    <2>2. d \in FrameTileDatagrams(n, c.seq)
      BY <1>2, <1>10, <2>1 DEF ChunksMade
    <2> QED
      BY <1>3, <1>10, <2>2 DEF FrameTileDatagrams
  <1> QED
    BY <1>3, <1>4, <1>5, <1>6, <1>7, <1>9, <1>10

\* The slot of a chunk is the one with the other chunks of its message.
LEMMA OwnerFacts ==
    ASSUME IndInv, NEW c \in datagrams, NEW n, n = c.content
    PROVE  /\ \A k \in DOMAIN pending :
                 (\E i \in DOMAIN pending[k].chunks : pending[k].chunks[i] = n) <=> k = Key(c)
           /\ Key(c) \in DOMAIN pending => SlotOf(pending[Key(c)], n)
  <1>1. n \in Nat \ {0} /\ c.channel = log[n].win
    BY DatagramFacts
  <1>2. ChunksMade /\ FramesDistinct
    BY DEF IndInv, TileInv
  <1>3. Key(c) = <<c.channel, c.seq>> /\ Key(c)[2] = c.seq
    BY DEF Key
  <1>4. ASSUME NEW k \in DOMAIN pending,
               \E i \in DOMAIN pending[k].chunks : pending[k].chunks[i] = n
        PROVE  k = Key(c) /\ SlotOf(pending[k], n)
    <2>1. PICK m \in Nat : /\ IsTile(m) /\ SlotOf(pending[k], m)
                           /\ k[1] = log[m].win /\ k = <<k[1], k[2]>>
      BY <1>2 DEF ChunksMade
    <2>2. m = n
      BY <1>1, <1>4, <2>1 DEF SlotOf, SlotType
    <2>3. c.seq = k[2]
      BY <1>2, <1>4 DEF FramesDistinct
    <2> QED
      BY <1>1, <1>3, <2>1, <2>2, <2>3
  <1>5. ASSUME Key(c) \in DOMAIN pending
        PROVE  \E i \in DOMAIN pending[Key(c)].chunks : pending[Key(c)].chunks[i] = n
    BY <1>2, <1>3, <1>5 DEF FramesDistinct
  <1> QED
    BY <1>4, <1>5

\* The slot a chunk is filled into, old or new: the chunk is not there yet.
LEMMA SlotNow ==
    ASSUME IndInv, NEW c \in datagrams, NEW n, n = c.content
    PROVE  /\ Slot(c) \in SlotType(n) /\ DOMAIN Slot(c).chunks = 0 .. (c.count - 1)
           /\ \A d \in datagrams : d.content = n => Slot(c).chunks[d.index] = 0
           /\ \A i \in 0 .. (c.count - 1) : Slot(c).chunks[i] = n => InTable(n, i)
           /\ Filled(c) \in SlotType(n)
           /\ Filled(c).chunks = [Slot(c).chunks EXCEPT ![c.index] = n]
  <1>1. /\ n \in Nat \ {0} /\ c.count = ChunkCount(log[n].len) /\ c.count \in Nat \ {0}
        /\ c.index \in 0 .. (c.count - 1) /\ c.total = log[n].len
        /\ c.header = Header(log[n]) /\ c.size \in Int
    BY DatagramFacts
  <1> DEFINE Now == /\ Slot(c) \in SlotType(n) /\ DOMAIN Slot(c).chunks = 0 .. (c.count - 1)
                    /\ \A d \in datagrams : d.content = n => Slot(c).chunks[d.index] = 0
                    /\ \A i \in 0 .. (c.count - 1) : Slot(c).chunks[i] = n => InTable(n, i)
  <1>2. ASSUME Key(c) \in DOMAIN pending PROVE Now
    <2>1. Slot(c) = pending[Key(c)]
      BY <1>2 DEF Slot, Room
    <2>2. SlotOf(pending[Key(c)], n)
      BY <1>2, OwnerFacts
    <2>3. Slot(c) \in SlotType(n)
      BY <2>1, <2>2 DEF SlotOf
    <2>4. DOMAIN Slot(c).chunks = 0 .. (c.count - 1)
      BY <1>1, <2>3 DEF SlotType
    <2>5. ASSUME NEW d \in datagrams, d.content = n PROVE Slot(c).chunks[d.index] = 0
      <3>1. FramesDistinct /\ ChunkOnce
        BY DEF IndInv, TileInv
      <3>2. d.seq = c.seq
        BY <2>5, <3>1 DEF FramesDistinct
      <3>3. d.channel = c.channel
        BY <2>5, DatagramFacts
      <3>4. Key(d) = Key(c)
        BY <3>2, <3>3 DEF Key
      <3> QED
        BY <1>2, <2>1, <3>1, <3>4 DEF ChunkOnce
    <2>6. \A i \in 0 .. (c.count - 1) : Slot(c).chunks[i] = n => InTable(n, i)
      BY <1>2, <2>1, <2>4 DEF InTable
    <2> QED
      BY <2>3, <2>4, <2>5, <2>6
  <1>3. ASSUME Key(c) \notin DOMAIN pending PROVE Now
    <2>1. Key(c) \notin DOMAIN Room(c)
      BY <1>3 DEF Room
    <2>2. Slot(c) = NewSlot(c)
      BY <2>1 DEF Slot
    <2> DEFINE f == [i \in 0 .. (c.count - 1) |-> 0]
    <2>3. f \in [0 .. (c.count - 1) -> {0, n}]
      OBVIOUS
    <2>4. Slot(c) = [header |-> c.header, total |-> c.total, chunks |-> f, received |-> 0]
      BY <2>2 DEF NewSlot
    <2> HIDE DEF f
    <2>5. Slot(c) \in SlotType(n) /\ Slot(c).chunks = f
      BY <1>1, <2>3, <2>4 DEF SlotType
    <2>6. DOMAIN f = 0 .. (c.count - 1) /\ \A i \in 0 .. (c.count - 1) : f[i] = 0
      BY DEF f
    <2>7. ASSUME NEW d \in datagrams, d.content = n PROVE Slot(c).chunks[d.index] = 0
      <3>1. d.index \in 0 .. (c.count - 1)
        BY <1>1, <2>7, DatagramFacts
      <3> QED
        BY <2>5, <2>6, <3>1
    <2>8. \A i \in 0 .. (c.count - 1) : Slot(c).chunks[i] # n
      BY <1>1, <2>5, <2>6
    <2> QED
      BY <2>5, <2>6, <2>7, <2>8
  <1>4. Slot(c) \in SlotType(n) /\ c.index \in DOMAIN Slot(c).chunks
    BY <1>1, <1>2, <1>3
  <1>5. Filled(c) \in SlotType(n) /\ Filled(c).chunks = [Slot(c).chunks EXCEPT ![c.index] = n]
    BY <1>1, <1>4, FillFacts
  <1> QED
    BY <1>2, <1>3, <1>5

\* All of the assembler's invariant but what was shown.
TableInv == ChunksMade /\ FramesDistinct /\ ChunkOnce /\ TableBounded

\* Chunks are lost, in flight or from the table.
LEMMA ShrinkKeeps ==
    ASSUME TableInv, datagrams' \subseteq datagrams, DOMAIN pending' \subseteq DOMAIN pending,
           \A k \in DOMAIN pending' : pending'[k] = pending[k],
           UNCHANGED <<log, queue, frame_seq>>
    PROVE  TableInv' /\ \A n \in Nat \ {0}, i \in Nat : AtLarge(n, i)' => AtLarge(n, i)
  <1>1. \A n : (IsTile(n)' <=> IsTile(n)) /\ SlotType(n)' = SlotType(n)
    BY DEF IsTile, Written, SlotType
  <1>2. \A n, q : FrameTileDatagrams(n, q)' = FrameTileDatagrams(n, q)
    BY DEF FrameTileDatagrams
  <1>3. ChunksMade'
    BY <1>1, <1>2 DEF TableInv, ChunksMade, SlotOf, Complete
  <1>4. FramesDistinct' /\ ChunkOnce'
    BY DEF TableInv, FramesDistinct, ChunkOnce, Key
  <1>5. TableBounded'
    <2>1. MaxPending \in Nat /\ IsFiniteSet(DOMAIN pending)
          /\ Cardinality(DOMAIN pending) <= MaxPending
      BY QuicAssumption DEF TableInv, TableBounded
    <2>2. /\ IsFiniteSet(DOMAIN pending')
          /\ Cardinality(DOMAIN pending') <= Cardinality(DOMAIN pending)
      BY <2>1, FS_Subset
    <2>3. Cardinality(DOMAIN pending') \in Nat /\ Cardinality(DOMAIN pending) \in Nat
      BY <2>1, <2>2, FS_CardinalityType
    <2> QED
      BY <2>1, <2>2, <2>3 DEF TableBounded
  <1>6. \A n \in Nat \ {0}, i \in Nat : AtLarge(n, i)' => AtLarge(n, i)
    BY DEF AtLarge, InFlight, InTable
  <1> QED
    BY <1>3, <1>4, <1>5, <1>6 DEF TableInv

\* The table with one slot more, or one slot fuller.
LEMMA FillKeeps ==
    ASSUME IndInv, NEW c \in datagrams, Filled(c).received <= c.total,
           ~ Complete(Filled(c)), pending' = Keep(c, Filled(c)), datagrams' = datagrams \ {c},
           UNCHANGED <<log, queue, frame_seq>>
    PROVE  TableInv' /\ \A n \in Nat \ {0}, i \in Nat : AtLarge(n, i)' => AtLarge(n, i)
  <1> DEFINE n == c.content
             k == Key(c)
  <1>1. /\ IsTile(n) /\ n \in Nat \ {0}
        /\ c.count = ChunkCount(log[n].len) /\ c.count \in Nat \ {0}
        /\ c.index \in 0 .. (c.count - 1) /\ c.seq \in 1 .. frame_seq
        /\ c.channel = log[n].win /\ c.total = log[n].len
        /\ \A d \in datagrams : d.content = n /\ d.index = c.index => d = c
    BY DatagramFacts
  <1>2. /\ \A l \in DOMAIN pending :
              (\E i \in DOMAIN pending[l].chunks : pending[l].chunks[i] = n) <=> l = k
    BY OwnerFacts
  <1>3. /\ DOMAIN Slot(c).chunks = 0 .. (c.count - 1)
        /\ \A d \in datagrams : d.content = n => Slot(c).chunks[d.index] = 0
        /\ \A i \in 0 .. (c.count - 1) : Slot(c).chunks[i] = n => InTable(n, i)
        /\ Filled(c) \in SlotType(n)
        /\ Filled(c).chunks = [Slot(c).chunks EXCEPT ![c.index] = n]
    BY SlotNow
  <1>4. ChunksMade /\ FramesDistinct /\ ChunkOnce /\ TableBounded
    BY DEF IndInv, TileInv
  <1>5. /\ DOMAIN Room(c) \subseteq DOMAIN pending
        /\ \A l \in DOMAIN Room(c) : Room(c)[l] = pending[l]
    BY DEF Room
  <1>6. /\ DOMAIN pending' = DOMAIN Room(c) \cup {k}
        /\ \A l \in DOMAIN pending' : pending'[l] = IF l = k THEN Filled(c) ELSE pending[l]
        /\ \A l \in DOMAIN pending' : l # k => l \in DOMAIN pending
    BY <1>5 DEF Keep
  <1>7. k = <<c.channel, c.seq>> /\ k[1] = c.channel /\ k[2] = c.seq
    BY DEF Key
  <1>8. /\ DOMAIN Filled(c).chunks = 0 .. (c.count - 1)
        /\ Filled(c).chunks[c.index] = n
        /\ \A i \in 0 .. (c.count - 1) :
              /\ Filled(c).chunks[i] \in {0, n}
              /\ i # c.index => Filled(c).chunks[i] = Slot(c).chunks[i]
    BY <1>1, <1>3 DEF SlotType
  <1>9. SlotOf(Filled(c), n)
    <2>1. Filled(c).total = c.total
      BY <1>1, <1>3 DEF SlotType
    <2> QED
      BY <1>1, <1>3, <1>8, <2>1 DEF SlotOf
  <1>10. \A m : (IsTile(m)' <=> IsTile(m)) /\ SlotType(m)' = SlotType(m)
    BY DEF IsTile, Written, SlotType
  <1>11. \A m, q : FrameTileDatagrams(m, q)' = FrameTileDatagrams(m, q)
    BY DEF FrameTileDatagrams
  <1>12. \A slot, m : SlotOf(slot, m)' <=> SlotOf(slot, m)
    BY <1>10 DEF SlotOf, Complete
  <1> HIDE DEF n, k
  <1>13. ChunksMade'
    <2>1. ASSUME NEW l \in DOMAIN pending'
          PROVE  \E m \in Nat : /\ IsTile(m) /\ SlotOf(pending'[l], m) /\ l[1] = log[m].win
                                /\ l[2] \in 1 .. frame_seq /\ l = <<l[1], l[2]>>
      <3>1. CASE l = k
        BY <1>1, <1>6, <1>7, <1>9, <3>1
      <3>2. CASE l # k
        BY <1>4, <1>6, <3>2 DEF ChunksMade
      <3> QED
        BY <3>1, <3>2
    <2>2. \A d \in datagrams' : /\ IsTile(d.content) /\ d.seq \in 1 .. frame_seq
                                /\ d \in FrameTileDatagrams(d.content, d.seq)
      BY <1>4 DEF ChunksMade
    <2> QED
      BY <1>10, <1>11, <1>12, <2>1, <2>2 DEF ChunksMade
  <1>14. FramesDistinct'
    <2>1. \A d, e \in datagrams' : d.seq = e.seq <=> d.content = e.content
      BY <1>4 DEF FramesDistinct
    <2>2. ASSUME NEW d \in datagrams', NEW l \in DOMAIN pending'
          PROVE  d.seq = l[2] <=>
                   \E i \in DOMAIN pending'[l].chunks : pending'[l].chunks[i] = d.content
      <3>1. CASE l = k
        <4>1. d.seq = c.seq <=> d.content = n
          BY <1>4 DEF FramesDistinct, n
        <4>2. d.content # 0
          BY DatagramFacts
        <4>3. (\E i \in DOMAIN Filled(c).chunks : Filled(c).chunks[i] = d.content)
                 <=> d.content = n
          BY <1>1, <1>8, <4>2
        <4> QED
          BY <1>6, <1>7, <3>1, <4>1, <4>3
      <3>2. CASE l # k
        BY <1>4, <1>6, <3>2 DEF FramesDistinct
      <3> QED
        BY <3>1, <3>2
    <2>3. ASSUME NEW l \in DOMAIN pending', NEW h \in DOMAIN pending', NEW m \in Nat \ {0},
                 \E i \in DOMAIN pending'[l].chunks : pending'[l].chunks[i] = m,
                 \E i \in DOMAIN pending'[h].chunks : pending'[h].chunks[i] = m
          PROVE  l = h
      <3>1. CASE l # k /\ h # k
        BY <1>4, <1>6, <2>3, <3>1 DEF FramesDistinct
      <3>2. CASE l = k /\ h # k
        <4>1. m = n
          BY <1>6, <1>8, <2>3, <3>2
        <4> QED
          BY <1>2, <1>6, <2>3, <3>2, <4>1
      <3>3. CASE l # k /\ h = k
        <4>1. m = n
          BY <1>6, <1>8, <2>3, <3>3
        <4> QED
          BY <1>2, <1>6, <2>3, <3>3, <4>1
      <3> QED
        BY <3>1, <3>2, <3>3
    <2> QED
      BY <2>1, <2>2, <2>3 DEF FramesDistinct
  <1>15. ChunkOnce'
    <2>1. ASSUME NEW d \in datagrams', NEW l \in DOMAIN pending', l = Key(d)
          PROVE  pending'[l].chunks[d.index] = 0
      <3>1. CASE l = k
        <4>1. d.seq = c.seq
          BY <1>7, <2>1, <3>1 DEF Key
        <4>2. d.content = n /\ d \in datagrams /\ d # c
          BY <1>4, <4>1 DEF FramesDistinct, n
        <4>3. d.index # c.index /\ Slot(c).chunks[d.index] = 0
          BY <1>1, <1>3, <4>2
        <4>4. d.index \in 0 .. (c.count - 1)
          BY <1>1, <4>2, DatagramFacts
        <4> QED
          BY <1>6, <1>8, <3>1, <4>3, <4>4
      <3>2. CASE l # k
        BY <1>4, <1>6, <2>1, <3>2 DEF ChunkOnce
      <3> QED
        BY <3>1, <3>2
    <2> QED
      BY <2>1 DEF ChunkOnce, Key
  <1>16. TableBounded'
    <2> DEFINE P == DOMAIN pending
    <2>1. MaxPending \in Nat \ {0} /\ IsFiniteSet(P) /\ Cardinality(P) <= MaxPending
      BY <1>4, QuicAssumption DEF TableBounded
    <2>2. Cardinality(P) \in Nat
      BY <2>1, FS_CardinalityType
    <2>3. CASE k \in P
      <3>1. Room(c) = pending
        BY <2>3 DEF Room, k
      <3>2. DOMAIN pending' = P
        BY <1>6, <2>3, <3>1
      <3> QED
        BY <2>1, <3>2 DEF TableBounded
    <2>4. CASE k \notin P /\ Cardinality(P) >= MaxPending
      <3>1. DOMAIN Room(c) = {}
        BY <2>4 DEF Room, k
      <3>2. DOMAIN pending' = {k}
        BY <1>6, <3>1
      <3>3. IsFiniteSet({k}) /\ Cardinality({k}) = 1
        BY FS_Singleton
      <3> QED
        BY <2>1, <3>2, <3>3 DEF TableBounded
    <2>5. CASE k \notin P /\ ~ (Cardinality(P) >= MaxPending)
      <3>1. Room(c) = pending
        BY <2>5 DEF Room
      <3>2. DOMAIN pending' = P \cup {k}
        BY <1>6, <3>1
      <3>3. IsFiniteSet(P \cup {k}) /\ Cardinality(P \cup {k}) = Cardinality(P) + 1
        BY <2>1, <2>5, FS_AddElement
      <3> QED
        BY <2>1, <2>2, <2>5, <3>2, <3>3 DEF TableBounded
    <2> QED
      BY <2>3, <2>4, <2>5
  <1>17. ASSUME NEW m \in Nat \ {0}, NEW i \in Nat, AtLarge(m, i)' PROVE AtLarge(m, i)
    <2>1. CASE InFlight(m, i)'
      BY <2>1 DEF InFlight, AtLarge
    <2>2. CASE InTable(m, i)'
      <3>1. PICK l \in DOMAIN pending' :
               i \in DOMAIN pending'[l].chunks /\ pending'[l].chunks[i] = m
        BY <2>2 DEF InTable
      <3>2. CASE l # k
        BY <1>6, <3>1, <3>2 DEF AtLarge, InTable
      <3>3. CASE l = k /\ m = n /\ i = c.index
        BY <3>3 DEF AtLarge, InFlight, n
      <3>4. CASE l = k /\ m = n /\ i # c.index
        BY <1>3, <1>6, <1>8, <3>1, <3>4 DEF AtLarge
      <3>5. CASE l = k /\ m # n
        BY <1>6, <1>8, <3>1, <3>5
      <3> QED
        BY <3>2, <3>3, <3>4, <3>5
    <2> QED
      BY <1>17, <2>1, <2>2 DEF AtLarge
  <1> QED
    BY <1>13, <1>14, <1>15, <1>16, <1>17 DEF TableInv

\* What push does with a chunk in flight: it is dropped, filled in, or the last
\* of its tile, and then the tile is whole and of one message.
LEMMA PushCases ==
    ASSUME IndInv, NEW c \in datagrams
    PROVE  \/ Returned(c) = {} /\ (Pushed(c) = pending \/ Pushed(c) = Forget(c))
           \/ /\ Returned(c) = {} /\ Pushed(c) = Keep(c, Filled(c))
              /\ Filled(c).received <= c.total /\ ~ Complete(Filled(c))
           \/ Returned(c) = {c.content} /\ Pushed(c) = Forget(c) /\ Complete(Filled(c))
  <1> DEFINE n == c.content
             F == Filled(c)
  <1>1. /\ n \in Nat \ {0} /\ c.count = ChunkCount(log[n].len) /\ c.count \in Nat \ {0}
        /\ c.total \in Nat
    BY DatagramFacts
  <1>2. Slot(c).chunks[c.index] = 0 /\ F \in SlotType(n)
    BY SlotNow
  <1>3. /\ F.received \in Int /\ DOMAIN F.chunks = 0 .. (c.count - 1)
        /\ \A i \in 0 .. (c.count - 1) : F.chunks[i] \in {0, n}
    BY <1>1, <1>2 DEF SlotType
  <1>4. Complete(F) => Range(F.chunks) = {n}
    <2>1. SUFFICES ASSUME Complete(F) PROVE Range(F.chunks) = {n}
      OBVIOUS
    <2>2. \A i \in 0 .. (c.count - 1) : F.chunks[i] = n
      BY <1>3, <2>1 DEF Complete
    <2>3. 0 \in 0 .. (c.count - 1)
      BY <1>1
    <2> QED
      BY <1>3, <2>2, <2>3 DEF Range
  <1>5. \/ ~ Acceptable(c) /\ Pushed(c) = pending
        \/ Acceptable(c) /\ ~ Fits(c) /\ Pushed(c) = Forget(c)
        \/ /\ Acceptable(c) /\ Fits(c)
           /\ Pushed(c) = IF F.received > c.total \/ Complete(F) THEN Forget(c) ELSE Keep(c, F)
    BY <1>2 DEF Pushed
  <1>6. Returned(c) = IF /\ Acceptable(c) /\ Fits(c) /\ F.received = c.total /\ Complete(F)
                      THEN Range(F.chunks) ELSE {}
    BY <1>2 DEF Returned
  <1> HIDE DEF n, F
  <1>7. CASE ~ Acceptable(c) /\ Pushed(c) = pending
    BY <1>6, <1>7
  <1>8. CASE Acceptable(c) /\ ~ Fits(c) /\ Pushed(c) = Forget(c)
    BY <1>6, <1>8
  <1>9. CASE /\ Acceptable(c) /\ Fits(c)
             /\ Pushed(c) = IF F.received > c.total \/ Complete(F) THEN Forget(c) ELSE Keep(c, F)
    <2>1. CASE Complete(F) /\ F.received = c.total
      BY <1>4, <1>6, <1>9, <2>1 DEF F, n
    <2>2. CASE Complete(F) /\ F.received # c.total
      BY <1>6, <1>9, <2>2
    <2>3. CASE ~ Complete(F)
      BY <1>1, <1>3, <1>6, <1>9, <2>3 DEF F
    <2> QED
      BY <2>1, <2>2, <2>3
  <1> QED
    BY <1>5, <1>7, <1>8, <1>9

\* A tile that is whole was not shown, is on no stream, and lacks the chunk
\* just read from now on.
LEMMA WholeTile ==
    ASSUME IndInv, NEW c \in datagrams, Complete(Filled(c)), NEW n, n = c.content
    PROVE  /\ ~ Missing(n) /\ shown[n] = 0
           /\ Live => \A s \in 1 .. Len(streams) : ~ On(s, n)
           /\ pending' = Forget(c) /\ datagrams' = datagrams \ {c} /\ log' = log
                 => Missing(n)'
  <1>1. /\ IsTile(n) /\ n \in Nat \ {0} /\ n \in 1 .. MaxSent
        /\ c.count = ChunkCount(log[n].len) /\ c.count \in Nat \ {0}
        /\ c.index \in 0 .. (c.count - 1)
        /\ \A d \in datagrams : d.content = n /\ d.index = c.index => d = c
    BY DatagramFacts
  <1>2. \A l \in DOMAIN pending :
           (\E i \in DOMAIN pending[l].chunks : pending[l].chunks[i] = n) <=> l = Key(c)
    BY OwnerFacts
  <1>3. /\ DOMAIN Slot(c).chunks = 0 .. (c.count - 1)
        /\ \A i \in 0 .. (c.count - 1) : Slot(c).chunks[i] = n => InTable(n, i)
        /\ Filled(c) \in SlotType(n)
        /\ Filled(c).chunks = [Slot(c).chunks EXCEPT ![c.index] = n]
    BY SlotNow
  <1>4. ASSUME NEW i \in 0 .. (c.count - 1) PROVE AtLarge(n, i)
    <2>1. CASE i = c.index
      BY <2>1 DEF AtLarge, InFlight
    <2>2. CASE i # c.index
      <3>1. Filled(c).chunks[i] = n
        BY <1>1, <1>3 DEF Complete, SlotType
      <3>2. Slot(c).chunks[i] = n
        BY <1>3, <2>2, <3>1
      <3> QED
        BY <1>3, <3>2 DEF AtLarge
    <2> QED
      BY <2>1, <2>2
  <1>5. ~ Missing(n)
    BY <1>1, <1>4 DEF Missing
  <1>6. ShownOnce
    BY DEF IndInv, TileInv
  <1>7. shown[n] = 0
    BY <1>1, <1>5, <1>6 DEF ShownOnce
  <1>8. Live => \A s \in 1 .. Len(streams) : ~ On(s, n)
    <2>1. n \in 1 .. Written
      BY <1>1 DEF IsTile
    <2> QED
      BY <1>1, <1>5, <1>6, <2>1 DEF ShownOnce
  <1>9. ASSUME pending' = Forget(c), datagrams' = datagrams \ {c}, log' = log
        PROVE  Missing(n)'
    <2>1. /\ \A l \in DOMAIN pending' : l \in DOMAIN pending /\ l # Key(c)
                                        /\ pending'[l] = pending[l]
      BY <1>9 DEF Forget, Restrict, Room
    <2>2. ~ InFlight(n, c.index)'
      BY <1>1, <1>9 DEF InFlight
    <2>3. ~ InTable(n, c.index)'
      BY <1>2, <2>1 DEF InTable
    <2>4. ~ AtLarge(n, c.index)'
      BY <2>2, <2>3 DEF AtLarge
    <2> QED
      BY <1>1, <1>9, <2>4 DEF Missing
  <1> QED
    BY <1>5, <1>7, <1>8, <1>9

\* The datagram reader: a tile is shown when its last chunk comes, once.
LEMMA ReadDatagramKeeps ==
    ASSUME IndInv, NEW c \in datagrams, ReadDatagram(c)
    PROVE  IndInv' /\ ViewStep
  <1> DEFINE n == c.content
  <1>1. /\ UNCHANGED <<window, log, queue, writer, frame_seq, channel_streams, viewer, last>>
    BY DEF ReadDatagram, compositorVars, serverVars
  <1>2. CASE Returned(c) # {} /\ viewer = "closed"
    <2>1. Cut /\ shown' = shown
      BY <1>2 DEF ReadDatagram
    <2> QED
      BY <1>1, <2>1, CutKeeps DEF ViewStep
  <1>3. CASE ~ (Returned(c) # {} /\ viewer = "closed")
    <2>1. /\ pending' = Pushed(c) /\ datagrams' = datagrams \ {c}
          /\ shown' = IF Returned(c) = {} THEN shown
                      ELSE [shown EXCEPT ![IF Cardinality(Returned(c)) = 1
                                           THEN Max(Returned(c)) ELSE 0] = @ + 1]
          /\ UNCHANGED <<conn, streams>>
      BY <1>3 DEF ReadDatagram
    <2>2. /\ n \in Nat \ {0} /\ n \in 1 .. MaxSent /\ IsTile(n) /\ n \in 1 .. Len(log)
          /\ log[n] \in Messages
      BY DatagramFacts
    <2>3. /\ Written \in Nat /\ Written <= Len(log) /\ Len(log) \in Nat /\ Len(streams) \in Nat
      BY LengthFacts DEF IndInv, Lengths
    <2>4. Written' = Written /\ (Live' <=> Live) /\ Extends
      BY <1>1, <2>1, <2>3 DEF Written, Live, Extends
    <2>5. shown \in [0 .. MaxSent -> Nat]
      BY DEF IndInv, Types
    <2>6. TableInv
      BY DEF IndInv, TileInv, TableInv
    <2>7. ASSUME shown' \in [0 .. MaxSent -> Nat]
          PROVE  Types' /\ QueueIsSuffix' /\ LogOrder' /\ StreamInv'
      <3>1. Types' /\ QueueIsSuffix' /\ LogOrder'
        BY <1>1, <2>1, <2>7 DEF IndInv, Types, QueueIsSuffix, LogOrder, Written
      <3> QED
        BY <1>1, <2>1, <2>3, <2>4, <3>1, StreamFrame DEF IndInv
    <2>8. ASSUME DOMAIN pending' \subseteq DOMAIN pending,
                 \A k \in DOMAIN pending' : pending'[k] = pending[k]
          PROVE  TableInv' /\ \A m \in Nat \ {0}, i \in Nat : AtLarge(m, i)' => AtLarge(m, i)
      BY <1>1, <2>1, <2>6, <2>8, ShrinkKeeps
    <2>9. ASSUME pending' = Forget(c)
          PROVE  TableInv' /\ \A m \in Nat \ {0}, i \in Nat : AtLarge(m, i)' => AtLarge(m, i)
      BY <2>8, <2>9 DEF Forget, Restrict, Room
    <2>10. StreamsShrink
      BY <2>1, <2>3, <2>4 DEF StreamsShrink, On
    <2>11. CASE Returned(c) = {}
      <3>1. shown' = shown
        BY <2>1, <2>11
      <3>2. TableInv' /\ \A m \in Nat \ {0}, i \in Nat : AtLarge(m, i)' => AtLarge(m, i)
        <4>1. CASE Pushed(c) = pending
          BY <2>1, <2>8, <4>1
        <4>2. CASE Pushed(c) = Forget(c)
          BY <2>1, <2>9, <4>2
        <4>3. CASE /\ Pushed(c) = Keep(c, Filled(c))
                   /\ Filled(c).received <= c.total /\ ~ Complete(Filled(c))
          BY <1>1, <2>1, <4>3, FillKeeps
        <4> QED
          BY <2>11, <4>1, <4>2, <4>3, PushCases
      <3>3. Types' /\ QueueIsSuffix' /\ LogOrder' /\ StreamInv'
        BY <2>5, <2>7, <3>1
      <3>4. \A m \in 1 .. Written, i \in Nat : AtLarge(m, i)' => AtLarge(m, i)
        BY <2>3, <3>2
      <3>5. ShownOnce'
        BY <2>4, <2>10, <3>1, <3>3, <3>4, ShownFrame DEF IndInv, TileInv
      <3> QED
        BY <1>1, <3>1, <3>2, <3>3, <3>5 DEF IndInv, TileInv, TableInv, ViewStep
    <2>12. CASE Returned(c) # {}
      <3>1. Returned(c) = {n} /\ Pushed(c) = Forget(c) /\ Complete(Filled(c))
        BY <2>12, PushCases
      <3> HIDE DEF n
      <3>2. Cardinality({n}) = 1 /\ Max({n}) = n
        <4>1. n >= n
          BY <2>2
        <4>2. \E x \in {n} : \A y \in {n} : x >= y
          BY <4>1
        <4>3. Max({n}) \in {n}
          BY <4>2 DEF Max
        <4>4. Cardinality({n}) = 1
          BY FS_Singleton
        <4> QED
          BY <4>3, <4>4
      <3>3. /\ ~ Missing(n) /\ shown[n] = 0 /\ Missing(n)'
            /\ Live => \A s \in 1 .. Len(streams) : ~ On(s, n)
        BY <1>1, <2>1, <3>1, WholeTile DEF n
      <3>4. shown' = [shown EXCEPT ![n] = 1]
        <4>1. {n} # {}
          OBVIOUS
        <4>2. shown' = [shown EXCEPT ![n] = shown[n] + 1]
          BY <2>1, <3>1, <3>2, <4>1
        <4> QED
          BY <3>3, <4>2
      <3>5. /\ shown' \in [0 .. MaxSent -> Nat]
            /\ \A m \in 1 .. MaxSent : m # n => shown'[m] = shown[m]
        <4>1. MaxSent \in Nat /\ n \in 0 .. MaxSent
          BY <2>2, LengthFacts DEF IndInv, Lengths
        <4>2. \A m \in 1 .. MaxSent : m \in 0 .. MaxSent
          BY <4>1
        <4> QED
          BY <2>5, <3>4, <4>1, <4>2
      <3>6. Types' /\ QueueIsSuffix' /\ LogOrder' /\ StreamInv'
        BY <2>7, <3>5
      <3>7. TableInv' /\ \A m \in Nat \ {0}, i \in Nat : AtLarge(m, i)' => AtLarge(m, i)
        BY <2>1, <2>9, <3>1
      <3>8. \A m : IsTile(m)' <=> IsTile(m)
        BY <1>1, <2>4 DEF IsTile
      <3>9. ASSUME NEW m, IsTile(m), Missing(m) PROVE Missing(m)'
        <4>1. m \in Nat \ {0}
          BY <2>3, <3>9 DEF IsTile
        <4> QED
          BY <2>4, <3>6, <3>7, <3>9, <4>1, MissingStays DEF IndInv
      <3>10. ShownOnce
        BY DEF IndInv, TileInv
      <3>11. \A m \in 1 .. MaxSent : shown'[m] # 0 => IsTile(m)' /\ Missing(m)'
        BY <2>2, <3>3, <3>5, <3>8, <3>9, <3>10 DEF ShownOnce
      <3>12. ASSUME Live, NEW s \in 1 .. Len(streams), NEW m \in 1 .. Written, On(s, m),
                    IsTile(m)
             PROVE  shown'[m] = 0 /\ Missing(m)'
        <4>1. m # n
          BY <3>3, <3>12
        <4>2. m \in 1 .. MaxSent
          BY <2>3, LengthFacts DEF IndInv, Lengths
        <4> QED
          BY <3>5, <3>9, <3>10, <3>12, <4>1, <4>2 DEF ShownOnce
      <3>13. \A s, m : On(s, m)' <=> On(s, m)
        BY <2>1 DEF On
      <3>14. ShownOnce'
        BY <2>1, <2>4, <3>8, <3>11, <3>12, <3>13 DEF ShownOnce
      <3>15. ViewStep
        <4>1. log[n].chan = TileChannel /\ n \in DOMAIN log
          BY <2>2, MessageFacts DEF IsTile, IndInv, Types
        <4>2. View!Show(n)
          BY <1>1, <3>3, <3>4, <4>1 DEF View!Show
        <4> QED
          BY <4>1, <4>2 DEF ViewStep, View!Next
      <3> QED
        BY <3>6, <3>7, <3>14, <3>15 DEF IndInv, TileInv, TableInv
    <2> QED
      BY <2>11, <2>12
  <1> QED
    BY <1>2, <1>3

-----------------------------------------------------------------------------
(* The specification.                                                      *)

\* A session begins with the main stream and nothing sent.
LEMMA InitKeeps == Init => IndInv /\ View!Init
  <1> SUFFICES ASSUME Init PROVE IndInv /\ View!Init
    OBVIOUS
  <1>0. \A x \in Streams : /\ <<x>> \in Seq(Streams) /\ <<x>> # <<>>
                            /\ Len(<<x>>) = 1 /\ <<x>>[1] = x
    OBVIOUS
  <1> USE DEF Init
  <1> DEFINE r == [msgs |-> <<>>, ready |-> TRUE, state |-> "open"]
  <1>1. <<>> \in Seq(Nat) /\ <<>> \in Seq(Messages)
    OBVIOUS
  <1>2. r \in Streams /\ r.msgs = <<>>
    BY <1>1 DEF Streams, States
  <1>3. streams = <<r>>
    OBVIOUS
  <1> HIDE DEF r
  <1>4. streams \in Seq(Streams) /\ streams # <<>> /\ Len(streams) = 1 /\ streams[1] = r
    BY <1>0, <1>2, <1>3
  <1>5. MaxSent \in Nat /\ MaxPending \in Nat \ {0}
    BY QuicAssumption
  <1>6. Len(log) = 0 /\ Len(queue) = 0 /\ Written = 0
    BY DEF Written
  <1>7. Types
    BY <1>1, <1>4, <1>5, <1>6 DEF Types
  <1>8. QueueIsSuffix /\ LogOrder
    BY <1>6 DEF QueueIsSuffix, LogOrder
  <1>9. \A s \in 1 .. Len(streams) : s = 1 /\ \A n : ~ On(s, n)
    BY <1>2, <1>4 DEF On, In
  <1>10. StreamsOrdered
    BY <1>2, <1>4, <1>9 DEF StreamsOrdered, Increasing
  <1>11. OneStream /\ NoGap /\ AllWritten /\ ChannelsUnnamed
    BY <1>6, <1>9 DEF OneStream, NoGap, AllWritten, ChannelsUnnamed
  <1>12. ReadIsWritten /\ ChannelsNamed
    BY <1>6 DEF ReadIsWritten, ChannelsNamed
  <1>13. ChunksMade /\ FramesDistinct /\ ChunkOnce
    BY DEF ChunksMade, FramesDistinct, ChunkOnce
  <1>14. TableBounded
    BY <1>5, FS_EmptySet DEF TableBounded
  <1>15. ShownOnce
    BY <1>5, <1>9 DEF ShownOnce
  <1>16. View!Init
    BY DEF View!Init
  <1> QED
    BY <1>7, <1>8, <1>10, <1>11, <1>12, <1>13, <1>14, <1>15, <1>16
       DEF IndInv, StreamInv, TileInv

\* Every step keeps the invariant, and is one of ViewStream or none.
LEMMA NextKeeps ==
    ASSUME IndInv, [Next]_vars
    PROVE  IndInv' /\ ViewStep
  <1>1. ASSUME NEW m \in Sayable, Compose(m) PROVE IndInv' /\ ViewStep
    <2>1. log' = Append(log, m) /\ UNCHANGED <<last, shown>>
      <3>1. log' = Append(log, m) /\ UNCHANGED clientVars
        BY <1>1, Zenon DEF Compose
      <3> QED
        BY <3>1 DEF clientVars
    <2>2. m \in Messages
      BY Zenon, SayableFacts DEF IndInv
    <2>3. View!Send(m)
      BY <2>1 DEF View!Send
    <2> QED
      BY <1>1, <2>2, <2>3, ComposeKeeps DEF ViewStep, View!Next
  <1>2. CASE CompositorLoop
    <2>1. UNCHANGED <<window, log, serverVars, netVars, clientVars>>
      BY <1>2, Zenon DEF CompositorLoop
    <2> QED
      BY <2>1, Stutter DEF serverVars, netVars, clientVars, ViewStep
  <1>3. CASE Abort
    BY <1>3, CutKeeps DEF Abort, ViewStep
  <1>4. CASE ServerReads
    <2>1. UNCHANGED <<window, log, queue, writer, frame_seq, channel_streams, conn, streams,
                      datagrams, clientVars>>
      BY <1>4 DEF ServerReads
    <2> QED
      BY <2>1, Stutter DEF clientVars, ViewStep
  <1>5. ASSUME NEW n, NEW k \in 0 .. ChunkCount(log[n].len), WriteTile(n, k)
        PROVE  IndInv' /\ ViewStep
    BY <1>5, WriteTileKeeps DEF WriteTile, WriterTakes, compositorVars, clientVars, ViewStep
  <1>6. ASSUME NEW n, WriteWindowEvent(n) PROVE IndInv' /\ ViewStep
    BY <1>6, WriteWindowEventKeeps
       DEF WriteWindowEvent, WriterTakes, compositorVars, clientVars, ViewStep
  <1>7. ASSUME NEW n, WriteOther(n) PROVE IndInv' /\ ViewStep
    BY <1>7, WriteOtherKeeps
       DEF WriteOther, WriterTakes, compositorVars, clientVars, ViewStep
  <1>8. CASE WriterDrains
    BY <1>8, WriterDrainsKeeps DEF WriterDrains, compositorVars, clientVars, ViewStep
  <1>9. CASE ConnectionLost
    BY <1>9, CutKeeps DEF ConnectionLost, compositorVars, serverVars, ViewStep
  <1>10. CASE ViewerCloses
    BY <1>10, Stutter DEF ViewerCloses, compositorVars, serverVars, netVars, ViewStep
  <1>11. CASE ClientWriterEnds
    BY <1>11, Stutter DEF ClientWriterEnds, compositorVars, serverVars, ViewStep
  <1>12. CASE UNCHANGED vars
    BY <1>12, Stutter
       DEF vars, compositorVars, serverVars, netVars, clientVars, ViewStep
  <1>13. CASE Writer
    BY <1>5, <1>6, <1>7, <1>8, <1>13 DEF Writer
  <1>14. CASE ClientReaders
    BY <1>14, ReadMainKeeps, ReadChannelKeeps DEF ClientReaders
  <1>15. CASE Compositor
    BY <1>2, <1>3, <1>15 DEF Compositor
  <1> QED
    BY <1>1, <1>4, <1>9, <1>10, <1>11, <1>12, <1>13, <1>14, <1>15, ReadDatagramKeeps DEF Next

\* The invariant holds in every state.
LEMMA Inductive == Spec => []IndInv
  <1>1. IndInv /\ [Next]_vars => IndInv'
    BY NextKeeps
  <1> QED
    BY <1>1, InitKeeps, PTL DEF Spec

\* FrameTileDatagramAssembler::push: however the datagrams come, the table
\* stays within MAX_PENDING_FRAMES, and no frame in it is complete, over its
\* length, or made of two tiles.
THEOREM AssemblerAlwaysSound == Spec => []AssemblerSound
  <1>1. IndInv => AssemblerSound
    <2> SUFFICES ASSUME IndInv PROVE AssemblerSound
      OBVIOUS
    <2>1. ChunksMade /\ TableBounded
      BY DEF IndInv, TileInv
    <2>2. ASSUME NEW k \in DOMAIN pending
          PROVE  /\ ~ Complete(pending[k]) /\ pending[k].received <= pending[k].total
                 /\ Cardinality(Range(pending[k].chunks) \ {0}) = 1
      <3> DEFINE f == pending[k].chunks
      <3>1. PICK n \in Nat : IsTile(n) /\ SlotOf(pending[k], n)
        BY <2>1 DEF ChunksMade
      <3>2. n # 0
        BY <3>1, LengthFacts DEF IndInv, Lengths, IsTile
      <3>3. /\ f \in [0 .. (ChunkCount(log[n].len) - 1) -> {0, n}]
            /\ \E i \in DOMAIN f : f[i] = n
        BY <3>1 DEF SlotOf, SlotType
      <3> HIDE DEF f
      <3>4. Range(f) \ {0} = {n}
        BY <3>2, <3>3 DEF Range
      <3>5. Cardinality({n}) = 1
        BY FS_Singleton
      <3> QED
        BY <3>1, <3>4, <3>5 DEF SlotOf, f
    <2> QED
      BY <2>1, <2>2 DEF AssemblerSound, TableBounded
  <1> QED
    BY <1>1, Inductive, PTL

\* A view session over QUIC, with its datagrams, a stream per window and a
\* main stream, implements ViewStream: the events of a window and the other
\* messages are handed to the viewer in the order they were sent and none is
\* skipped, and a tile is shown whole and at most once, whether it came as
\* datagrams or fell back to a stream.
THEOREM ViewDelivered == Spec => Delivers
  <1>1. IndInv /\ [Next]_vars => [View!Next]_<<log, last, shown>>
    BY NextKeeps DEF ViewStep
  <1> QED
    BY <1>1, InitKeeps, Inductive, PTL DEF Spec, Delivers, View!Spec

=============================================================================
