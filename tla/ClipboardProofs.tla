-------------------------- MODULE ClipboardProofs ---------------------------
(***************************************************************************)
(* Clipboard for any texts and any number of copies: its types, that the   *)
(* two directions cannot feed each other, and that the last copy wins.     *)
(*                                                                         *)
(* NoEchoStorm bounds the frames sent to the guest by the copies users     *)
(* make.  The chain behind it (EchoInv): a frame needs a changeCount the   *)
(* poller has not handled, changeCount moves for a host copy or an         *)
(* install, and an install uses up a guest copy that waits in a reader     *)
(* thread or in the inbox.                                                 *)
(*                                                                         *)
(* LastCopyWins needs to know where a copy that has not arrived is         *)
(* (LastInv): the serials on the wire rise and only the newest frame can   *)
(* be applied last (Ordered), at most one guest copy is on its way up      *)
(* (OneUp), and the winner's text is at its goal or at one of the stages   *)
(* on the way there (GuestWins, HostWins).                                 *)
(***************************************************************************)
EXTENDS Clipboard, TLAPS, FiniteSetTheorems

-----------------------------------------------------------------------------
(* Types.                                                                  *)

\* The sets of TypeOK by name.
Pasteboard == [count: Nat, text: MaybeText, owner: {"app", "bridge"}]
PollerState == [pc: {"sleep", "text", "filter"}, count: Nat, text: MaybeText]
InstallerState == [pc: {"recv", "clear", "set", "record"}, text: MaybeText, serial: Nat]
HostText == [text: MaybeText, last_serial: Nat]
Selection == [owner: {"none", "guest", "host"}, text: MaybeText]
Latest == Copy \cup {None}

\* TypeOK, with what makes it inductive: what the poller is about to relay is
\* a text.
HostTypes ==
    /\ pb \in Pasteboard /\ copying \in MaybeText
    /\ poller \in PollerState /\ last_change_count \in Nat /\ serial \in Nat
    /\ poller.pc = "filter" => poller.text \in Text
InstTypes ==
    /\ installer \in InstallerState /\ installed \in Nat
    /\ last_installed_from_guest \in MaybeText
GuestTypes ==
    /\ registered \in BOOLEAN /\ host_clipboard \in HostText
    /\ selection \in Selection /\ guest_clipboard_serial \in Nat
PathTypes ==
    /\ last_sent_to_guest \in MaybeText
    /\ wire \in Seq(Frame) /\ inbox \in Seq(Frame) /\ readers \in SUBSET Frame
UserTypes ==
    copies \in Nat /\ clears \in Nat /\ used \in SUBSET Text /\ latest \in Latest

Types == HostTypes /\ InstTypes /\ GuestTypes /\ PathTypes /\ UserTypes

\* The strengthening implies TypeOK.
LEMMA TypesImply == Types => TypeOK
  BY DEF Types, HostTypes, InstTypes, GuestTypes, PathTypes, UserTypes, TypeOK, Pasteboard,
         PollerState, InstallerState, HostText, Selection, Latest

\* It holds at the start,
LEMMA InitTypes == Init => Types
  <1> SUFFICES ASSUME Init PROVE Types
    OBVIOUS
  <1> USE DEF Init
  <1>1. HostTypes
    BY DEF HostTypes, Pasteboard, PollerState, MaybeText
  <1>2. InstTypes
    BY DEF InstTypes, InstallerState, MaybeText
  <1>3. GuestTypes
    BY DEF GuestTypes, HostText, Selection, MaybeText
  <1>4. PathTypes
    BY DEF PathTypes, MaybeText
  <1>5. UserTypes
    BY DEF UserTypes, Latest, MaybeText
  <1> QED BY <1>1, <1>2, <1>3, <1>4, <1>5 DEF Types

\* The poller's steps.
LEMMA PollerTypes ==
    ASSUME Types, Poller
    PROVE  Types'
  <1>1. InstTypes' /\ GuestTypes' /\ UserTypes'
    BY DEF Poller, PollCount, PollText, PollDropEcho, PollForward, Types, InstTypes,
           GuestTypes, UserTypes, inst, guest, user
  <1>2. HostTypes'
    <2> USE DEF Types, HostTypes, Pasteboard, PollerState, MaybeText
    <2>1. CASE PollCount BY <2>1 DEF PollCount
    <2>2. CASE PollText BY <2>2, ClipboardAssumption DEF PollText
    <2>3. CASE PollDropEcho BY <2>3 DEF PollDropEcho
    <2>4. CASE PollForward
      <3>1. /\ UNCHANGED <<pb, copying, last_change_count>> /\ serial' = serial + 1
            /\ poller' = [poller EXCEPT !.pc = "sleep", !.text = None]
        BY <2>4 DEF PollForward
      <3>2. poller' \in PollerState /\ poller'.pc = "sleep"
        BY <3>1
      <3>3. serial' \in Nat
        BY <3>1
      <3> HIDE DEF Pasteboard, PollerState, MaybeText
      <3> QED BY <3>1, <3>2, <3>3
    <2> QED BY <2>1, <2>2, <2>3, <2>4 DEF Poller
  <1>3. PathTypes'
    <2>1. CASE PollForward
      <3>1. [serial |-> serial + 1, text |-> poller.text] \in Frame
        BY <2>1 DEF PollForward, Types, HostTypes, Frame
      <3> QED BY <2>1, <3>1 DEF PollForward, Types, PathTypes, HostTypes, MaybeText
    <2>2. CASE ~PollForward
      BY <2>2 DEF Poller, PollCount, PollText, PollDropEcho, Types, PathTypes
    <2> QED BY <2>1, <2>2
  <1> QED BY <1>1, <1>2, <1>3 DEF Types

\* The installer's steps.
LEMMA InstallerTypes ==
    ASSUME Types, Installer
    PROVE  Types'
  <1>1. GuestTypes' /\ UserTypes'
    BY DEF Installer, InstallRecv, InstallClear, InstallSet, InstallRecord, Types,
           GuestTypes, UserTypes, guest, user
  <1>2. HostTypes'
    BY DEF Installer, InstallRecv, InstallClear, InstallSet, InstallRecord, Types,
           HostTypes, InstTypes, Pasteboard, InstallerState, MaybeText, host
  <1>3. PathTypes'
    BY DEF Installer, InstallRecv, InstallClear, InstallSet, InstallRecord, Types,
           PathTypes
  <1>4. InstTypes'
    <2> USE DEF Types, InstTypes, InstallerState, MaybeText
    <2>1. CASE InstallRecv
      <3>1. Head(inbox) \in Frame
        BY <2>1 DEF InstallRecv, PathTypes
      <3> QED BY <2>1, <3>1 DEF InstallRecv, Frame
    <2>2. CASE InstallClear BY <2>2 DEF InstallClear
    <2>3. CASE InstallSet BY <2>3 DEF InstallSet
    <2>4. CASE InstallRecord BY <2>4 DEF InstallRecord
    <2> QED BY <2>1, <2>2, <2>3, <2>4 DEF Installer
  <1> QED BY <1>1, <1>2, <1>3, <1>4 DEF Types

\* The compositor's steps and its reader threads'.
LEMMA CompositorTypes ==
    ASSUME Types, Compositor
    PROVE  Types'
  <1>1. HostTypes' /\ InstTypes' /\ UserTypes'
    BY DEF Compositor, Register, DropUnregistered, ApplyHostClipboard, Types, HostTypes,
           InstTypes, UserTypes, host, inst, user
  <1>2. PathTypes'
    <2>1. wire' = wire \/ (wire # <<>> /\ wire' = Tail(wire))
      BY DEF Compositor, Register, DropUnregistered, ApplyHostClipboard
    <2>2. wire' \in Seq(Frame)
      BY <2>1 DEF Types, PathTypes
    <2> QED BY <2>2 DEF Compositor, Register, DropUnregistered, ApplyHostClipboard, Types,
                        PathTypes
  <1>3. GuestTypes'
    <2>1. CASE ApplyHostClipboard
      <3>1. Head(wire) \in Frame
        BY <2>1 DEF ApplyHostClipboard, Types, PathTypes
      <3> QED BY <2>1, <3>1 DEF ApplyHostClipboard, Types, GuestTypes, HostText, Selection,
                                MaybeText, Frame
    <2>2. CASE ~ApplyHostClipboard
      BY <2>2 DEF Compositor, Register, DropUnregistered, Types, GuestTypes, guest
    <2> QED BY <2>1, <2>2
  <1> QED BY <1>1, <1>2, <1>3 DEF Types

\* A reader thread posts the guest's text, or gives up.
LEMMA ReaderTypes ==
    ASSUME Types, NEW r \in readers, ReaderPost(r) \/ ReaderFail(r)
    PROVE  Types'
  <1>1. HostTypes' /\ InstTypes' /\ GuestTypes'
    BY DEF ReaderPost, ReaderFail, Types, HostTypes, InstTypes, GuestTypes, host, inst, guest
  <1>2. PathTypes'
    BY DEF ReaderPost, ReaderFail, Types, PathTypes
  <1>3. UserTypes'
    BY DEF ReaderPost, ReaderFail, Types, UserTypes, user, Latest
  <1> QED BY <1>1, <1>2, <1>3 DEF Types

\* The users' steps.
LEMMA CopyTypes ==
    ASSUME Types, NEW t \in Text, HostCopy(t) \/ GuestCopy(t)
    PROVE  Types'
  <1>1. InstTypes'
    BY DEF HostCopy, GuestCopy, Types, InstTypes, inst
  <1>2. HostTypes'
    BY DEF HostCopy, GuestCopy, Types, HostTypes, Pasteboard, MaybeText, host
  <1>3. GuestTypes'
    BY DEF HostCopy, GuestCopy, Types, GuestTypes, Selection, MaybeText, guest
  <1>4. PathTypes'
    BY DEF HostCopy, GuestCopy, Types, PathTypes, GuestTypes, Frame
  <1>5. UserTypes'
    BY DEF HostCopy, GuestCopy, Types, UserTypes, Latest, Copy
  <1> QED BY <1>1, <1>2, <1>3, <1>4, <1>5 DEF Types

\* The remaining steps.
LEMMA OtherTypes ==
    ASSUME Types, HostCopyDone \/ GuestClear \/ UNCHANGED vars
    PROVE  Types'
  <1>1. InstTypes' /\ PathTypes'
    BY DEF HostCopyDone, GuestClear, vars, Types, InstTypes, PathTypes, inst
  <1>2. HostTypes'
    BY DEF HostCopyDone, GuestClear, vars, Types, HostTypes, Pasteboard, MaybeText, host
  <1>3. GuestTypes'
    BY DEF HostCopyDone, GuestClear, vars, Types, GuestTypes, Selection, MaybeText, guest
  <1>4. UserTypes'
    BY DEF HostCopyDone, GuestClear, vars, Types, UserTypes, user
  <1> QED BY <1>1, <1>2, <1>3, <1>4 DEF Types

\* and every step keeps it.
LEMMA NextTypes == Types /\ [Next]_vars => Types'
  BY PollerTypes, InstallerTypes, CompositorTypes, ReaderTypes, CopyTypes, OtherTypes
     DEF Next

\* The state of the bridge keeps its types in every behaviour; in particular
\* nothing but a text is ever relayed.
THEOREM TypeCorrect == Spec => []TypeOK
  BY InitTypes, NextTypes, TypesImply, PTL DEF Spec

-----------------------------------------------------------------------------
(* The two directions do not feed each other.                              *)

\* A frame was sent for each changeCount at most, and only for counts the
\* pasteboard has had.
Polled ==
    /\ serial <= last_change_count /\ last_change_count <= pb.count
    /\ poller.pc = "text" => last_change_count < poller.count /\ poller.count <= pb.count
    /\ poller.pc = "filter" => serial < last_change_count

\* The guest copies that may still move changeCount.
Clearing == IF installer.pc = "clear" THEN 1 ELSE 0
Waiting == Clearing + Len(inbox) + Cardinality(readers)

\* changeCount has moved once for each copy that waits no longer, at most.
Written == IsFiniteSet(readers) /\ pb.count + Waiting <= copies + 1

EchoInv == Types /\ Polled /\ Written

\* The poller handles a changeCount once.
LEMMA PolledStep ==
    ASSUME Types, Types', Polled, [Next]_vars
    PROVE  Polled'
  <1> USE DEF Types, HostTypes, Pasteboard, PollerState, Polled
  <1>1. CASE PollCount
    BY <1>1 DEF PollCount
  <1>2. CASE PollText
    <2>1. CASE pb.text = None
      BY <1>2, <2>1 DEF PollText
    <2>2. CASE pb.text # None
      <3>1. /\ poller.pc = "text" /\ last_change_count' = poller.count
            /\ poller'.pc \in {"filter", "sleep"} /\ UNCHANGED <<pb, serial>>
        BY <1>2, <2>2 DEF PollText
      <3> QED BY <3>1
    <2> QED BY <2>1, <2>2
  <1>3. CASE PollDropEcho
    BY <1>3 DEF PollDropEcho
  <1>4. CASE PollForward
    <2>1. /\ poller.pc = "filter" /\ poller'.pc = "sleep" /\ serial' = serial + 1
          /\ UNCHANGED <<pb, last_change_count>>
      BY <1>4 DEF PollForward
    <2> QED BY <2>1
  <1> DEFINE Rests == pb'.count >= pb.count /\ UNCHANGED <<poller, last_change_count, serial>>
  <1>5. CASE Rests
    BY <1>5
  <1>6. ASSUME Installer PROVE Rests
    BY <1>6 DEF Installer, InstallRecv, InstallClear, InstallSet, InstallRecord, host
  <1>7. ASSUME Compositor PROVE Rests
    BY <1>7 DEF Compositor, Register, DropUnregistered, ApplyHostClipboard, host
  <1>8. ASSUME NEW r, ReaderPost(r) \/ ReaderFail(r) PROVE Rests
    BY <1>8 DEF ReaderPost, ReaderFail, host
  <1>9. ASSUME NEW t, HostCopy(t) \/ GuestCopy(t) PROVE Rests
    BY <1>9 DEF HostCopy, GuestCopy, host
  <1>10. ASSUME HostCopyDone \/ GuestClear \/ UNCHANGED vars PROVE Rests
    BY <1>10 DEF HostCopyDone, GuestClear, vars, host
  <1> QED BY <1>1, <1>2, <1>3, <1>4, <1>5, <1>6, <1>7, <1>8, <1>9, <1>10 DEF Next, Poller

\* One thread more or less among the readers.
LEMMA ReadersCounted ==
    ASSUME NEW S, IsFiniteSet(S), NEW x
    PROVE  /\ Cardinality(S) \in Nat
           /\ IsFiniteSet(S \cup {x}) /\ Cardinality(S \cup {x}) <= Cardinality(S) + 1
           /\ IsFiniteSet(S \ {x})
           /\ x \in S => Cardinality(S \ {x}) = Cardinality(S) - 1
  BY FS_CardinalityType, FS_AddElement, FS_RemoveElement

\* A changeCount is paid for by a copy.
LEMMA WrittenStep ==
    ASSUME Types, Types', Written, [Next]_vars
    PROVE  Written'
  <1>1. /\ Cardinality(readers) \in Nat /\ Len(inbox) \in Nat /\ Len(inbox') \in Nat
        /\ pb.count \in Nat /\ copies \in Nat
    BY FS_CardinalityType DEF Types, HostTypes, PathTypes, UserTypes, Pasteboard, Written
  <1> DEFINE Even == /\ UNCHANGED <<readers, inbox, installer>>
                     /\ pb'.count \in Nat /\ copies' \in Nat
                     /\ pb'.count - pb.count <= copies' - copies
  <1>2. CASE Even
    BY <1>1, <1>2 DEF Written, Waiting, Clearing
  <1>3. CASE InstallRecv
    <2>1. /\ inbox # <<>> /\ inbox' = Tail(inbox) /\ installer.pc = "recv"
          /\ UNCHANGED <<readers, pb, copies>>
      BY <1>3 DEF InstallRecv, host, user
    <2>2. Len(inbox') = Len(inbox) - 1
      BY <2>1 DEF Types, PathTypes
    <2> QED BY <1>1, <2>1, <2>2 DEF Written, Waiting, Clearing
  <1>4. CASE InstallClear
    <2>1. /\ installer.pc = "clear" /\ installer'.pc = "set"
          /\ pb'.count = pb.count + 1 /\ UNCHANGED <<readers, inbox, copies>>
      BY <1>4 DEF InstallClear, user, Types, InstTypes, InstallerState
    <2> QED BY <1>1, <2>1 DEF Written, Waiting, Clearing
  <1>5. CASE InstallSet \/ InstallRecord
    <2>1. /\ installer.pc # "clear" /\ installer'.pc # "clear"
          /\ pb'.count = pb.count /\ UNCHANGED <<readers, inbox, copies>>
      BY <1>5 DEF InstallSet, InstallRecord, user, host, Types, InstTypes, InstallerState,
                  HostTypes, Pasteboard
    <2> QED BY <1>1, <2>1 DEF Written, Waiting, Clearing
  <1>6. ASSUME NEW r \in readers, ReaderPost(r) \/ ReaderFail(r) PROVE Written'
    <2>1. /\ IsFiniteSet(readers') /\ Cardinality(readers') = Cardinality(readers) - 1
          /\ UNCHANGED <<pb, installer, copies>>
      BY <1>6, ReadersCounted DEF ReaderPost, ReaderFail, Written, host, inst, user
    <2>2. Len(inbox') <= Len(inbox) + 1
      BY <1>6 DEF ReaderPost, ReaderFail, Types, PathTypes
    <2> QED BY <1>1, <2>1, <2>2 DEF Written, Waiting, Clearing
  <1>7. ASSUME NEW t \in Text, HostCopy(t) PROVE Even
    BY <1>1, <1>7 DEF HostCopy, inst
  <1>8. ASSUME NEW t \in Text, GuestCopy(t) PROVE Written'
    <2>1. /\ IsFiniteSet(readers') /\ Cardinality(readers') <= Cardinality(readers) + 1
          /\ Cardinality(readers') \in Nat
          /\ UNCHANGED <<pb, installer, inbox>> /\ copies' = copies + 1
      BY <1>8, ReadersCounted, FS_CardinalityType DEF GuestCopy, Written, host, inst
    <2> QED BY <1>1, <2>1 DEF Written, Waiting, Clearing
  <1>9. ASSUME Poller \/ Compositor \/ HostCopyDone \/ GuestClear \/ UNCHANGED vars
        PROVE  Even
    <2>1. UNCHANGED <<readers, inbox, installer, copies>>
      BY <1>9 DEF Poller, PollCount, PollText, PollDropEcho, PollForward, Compositor, Register,
                  DropUnregistered, ApplyHostClipboard, HostCopyDone, GuestClear, vars, inst, user
    <2>2. pb'.count = pb.count
      BY <1>9 DEF Poller, PollCount, PollText, PollDropEcho, PollForward, Compositor, Register,
                  DropUnregistered, ApplyHostClipboard, HostCopyDone, GuestClear, vars, host,
                  Types, HostTypes, Pasteboard
    <2> QED BY <1>1, <2>1, <2>2
  <1> QED BY <1>2, <1>3, <1>4, <1>5, <1>6, <1>7, <1>8, <1>9 DEF Next, Installer

\* The bounds hold at the start,
LEMMA InitEcho == Init => EchoInv
  <1> SUFFICES ASSUME Init PROVE EchoInv
    OBVIOUS
  <1>1. Types
    BY InitTypes
  <1>2. Polled
    BY DEF Init, Polled
  <1>3. Written
    BY FS_EmptySet DEF Init, Written, Waiting, Clearing
  <1> QED BY <1>1, <1>2, <1>3 DEF EchoInv

\* and every step keeps them.
LEMMA EchoStep == EchoInv /\ [Next]_vars => EchoInv'
  BY NextTypes, PolledStep, WrittenStep DEF EchoInv

\* Whatever races with the installer, whatever fails and however often a text
\* is copied: at most one frame goes to the guest for each copy made on
\* either side, and one for the text the pasteboard held at the start.
THEOREM NeverEchoStorm == Spec => []NoEchoStorm
  <1>1. EchoInv => NoEchoStorm
    <2> SUFFICES ASSUME EchoInv PROVE NoEchoStorm
      OBVIOUS
    <2>1. Waiting \in Nat
      BY FS_CardinalityType DEF EchoInv, Types, PathTypes, Written, Waiting, Clearing
    <2> QED BY <2>1 DEF EchoInv, Polled, Written, NoEchoStorm, Types, HostTypes, UserTypes,
                        Pasteboard
  <1> QED BY InitEcho, EchoStep, <1>1, PTL DEF Spec

-----------------------------------------------------------------------------
(* The last copy wins, for users who wait for the other side's copy to     *)
(* arrive and copy no text twice.                                          *)

\* Every text on its way was copied by someone.
Seen(t) == t \in used \cup {None}
Known ==
    /\ Seen(last_sent_to_guest) /\ Seen(last_installed_from_guest)
    /\ Seen(pb.text) /\ Seen(copying) /\ Seen(installer.text) /\ Seen(poller.text)
    /\ \A i \in 1 .. Len(inbox) : inbox[i].text \in used
    /\ \A r \in readers : r.text \in used

\* The frames to the guest are in the order of their serials and newer than
\* what the compositor has.
Ordered ==
    /\ host_clipboard.last_serial <= serial
    /\ \A i \in 1 .. Len(wire) :
          host_clipboard.last_serial < wire[i].serial /\ wire[i].serial <= serial
    /\ \A i, j \in 1 .. Len(wire) : i < j => wire[i].serial < wire[j].serial

\* Without bursts one guest copy at most is on its way to the host, and it is
\* the latest copy.
FromGuest(t) == [side |-> "guest", text |-> t]
Reading ==
    readers # {} => /\ inbox = <<>> /\ installer.pc = "recv"
                    /\ \E r \in readers : readers = {r} /\ latest = FromGuest(r.text)
Posted ==
    inbox # <<>> => /\ readers = {} /\ installer.pc = "recv"
                    /\ Len(inbox) = 1 /\ latest = FromGuest(inbox[1].text)
Installing ==
    installer.pc # "recv" => /\ readers = {} /\ inbox = <<>>
                             /\ Fits(installer.text) /\ latest = FromGuest(installer.text)
OneUp == Reading /\ Posted /\ Installing

\* Until the installer has it, a guest copy is nowhere on the host.
Unheard(t) ==
    poller.pc # "filter" /\ pb.text # t /\ last_sent_to_guest # t

\* A guest copy was the last: nothing older is on its way to the guest, and
\* the pasteboard gets the text with the installer's second step.
GuestWins ==
    latest # None /\ latest.side = "guest" =>
        LET t == latest.text
        IN  /\ copying = None
            /\ selection.owner = "guest" => selection.text = t
            /\ selection.owner = "host" => host_clipboard.text = t
            /\ \A i \in 1 .. Len(wire) : wire[i].text = t
            /\ poller.pc = "filter" => poller.text = t
            /\ \/ pb.text \in {None, t}
               \/ pb.count = last_change_count /\ poller.pc = "sleep"
            /\ readers # {} \/ inbox # <<>> => Unheard(t)
            /\ installer.pc = "set" => pb.owner = "bridge"
            /\ Fits(t) /\ (UpIdle \/ installer.pc = "record") => pb.text = t

\* Where a host copy is once the poller has handled its changeCount.
Sent(t) ==
    \/ poller.pc = "filter" /\ poller.text = t
    \/ poller.pc # "filter" /\ wire # <<>> /\ wire[Len(wire)].text = t
    \/ /\ poller.pc # "filter" /\ wire = <<>>
       /\ selection.owner = "host" /\ host_clipboard.text = t

\* A host copy was the last: it is about to be set, or it is on the
\* pasteboard and the poller will look at it or has sent it.
HostWins ==
    latest # None /\ latest.side = "host" =>
        LET t == latest.text
        IN  /\ registered /\ UpIdle /\ t # last_installed_from_guest
            /\ \/ /\ copying = t /\ pb.text = None /\ pb.owner = "app"
                  /\ last_change_count < pb.count
               \/ /\ copying = None /\ pb.text = t
                  /\ Fits(t) /\ pb.count = last_change_count => Sent(t)

LastInv == EchoInv /\ Known /\ Ordered /\ OneUp /\ GuestWins /\ HostWins

-----------------------------------------------------------------------------
(* Queues.                                                                 *)

\* What is left of a queue whose head was taken.
LEMMA TailElements ==
    ASSUME NEW S, NEW q \in Seq(S), q # <<>>
    PROVE  /\ Len(Tail(q)) = Len(q) - 1 /\ Len(q) > 0 /\ Head(q) = q[1]
           /\ \A i \in 1 .. Len(Tail(q)) : Tail(q)[i] = q[i + 1] /\ i + 1 \in 1 .. Len(q)
  OBVIOUS

\* A queue with one more element.
LEMMA AppendElements ==
    ASSUME NEW S, NEW q \in Seq(S), NEW x \in S
    PROVE  /\ Len(Append(q, x)) = Len(q) + 1
           /\ Append(q, x)[Len(q) + 1] = x
           /\ \A i \in 1 .. Len(q) : Append(q, x)[i] = q[i]
  OBVIOUS

\* Texts do not come out of nowhere.
LEMMA KnownStep ==
    ASSUME Types, Known, [Next]_vars
    PROVE  Known'
  <1>1. used \subseteq used'
    BY DEF Next, Poller, PollCount, PollText, PollDropEcho, PollForward, Installer,
           InstallRecv, InstallClear, InstallSet, InstallRecord, Compositor, Register,
           DropUnregistered, ApplyHostClipboard, ReaderPost, ReaderFail, HostCopy, GuestCopy,
           HostCopyDone, GuestClear, vars, user
  <1> DEFINE Scalars == /\ Seen(last_sent_to_guest) /\ Seen(last_installed_from_guest)
                        /\ Seen(pb.text) /\ Seen(copying) /\ Seen(installer.text)
                        /\ Seen(poller.text)
             Queued == /\ \A i \in 1 .. Len(inbox) : inbox[i].text \in used
                       /\ \A r \in readers : r.text \in used
  <1>2. Scalars'
    <2> USE <1>1 DEF Known, Seen, Types, HostTypes, InstTypes, Pasteboard, PollerState,
                     InstallerState
    <2>1. CASE Poller
      BY <2>1 DEF Poller, PollCount, PollText, PollDropEcho, PollForward, inst
    <2>2. CASE Installer
      <3>1. CASE InstallRecv
        <4>1. Head(inbox).text \in used
          BY <3>1, TailElements DEF InstallRecv, PathTypes
        <4> QED BY <3>1, <4>1 DEF InstallRecv, host
      <3>2. CASE InstallClear BY <3>2 DEF InstallClear
      <3>3. CASE InstallSet BY <3>3 DEF InstallSet
      <3>4. CASE InstallRecord BY <3>4 DEF InstallRecord, host
      <3> QED BY <2>2, <3>1, <3>2, <3>3, <3>4 DEF Installer
    <2>3. CASE Compositor
      BY <2>3 DEF Compositor, Register, DropUnregistered, ApplyHostClipboard, host, inst
    <2>4. ASSUME NEW r \in readers, ReaderPost(r) \/ ReaderFail(r) PROVE Scalars'
      BY <2>4 DEF ReaderPost, ReaderFail, host, inst
    <2>5. ASSUME NEW t \in Text, HostCopy(t) \/ GuestCopy(t) PROVE Scalars'
      BY <2>5 DEF HostCopy, GuestCopy, host, inst
    <2>6. CASE HostCopyDone \/ GuestClear \/ UNCHANGED vars
      BY <2>6 DEF HostCopyDone, GuestClear, vars, host, inst
    <2> HIDE DEF Scalars
    <2> QED BY <2>1, <2>2, <2>3, <2>4, <2>5, <2>6 DEF Next
  <1>3. Queued'
    <2> USE <1>1 DEF Known
    <2>1. CASE InstallRecv
      <3>1. /\ UNCHANGED readers /\ inbox \in Seq(Frame) /\ inbox # <<>>
            /\ inbox' = Tail(inbox)
        BY <2>1 DEF InstallRecv, Types, PathTypes
      <3> QED BY <3>1, TailElements
    <2>2. ASSUME NEW r \in readers, ReaderPost(r) PROVE Queued'
      <3>1. /\ r \in Frame /\ r.text \in used /\ readers' = readers \ {r}
            /\ inbox \in Seq(Frame) /\ inbox' \in {inbox, Append(inbox, r)}
        BY <2>2 DEF ReaderPost, Types, PathTypes
      <3>2. CASE inbox' = inbox BY <3>1, <3>2
      <3>3. CASE inbox' = Append(inbox, r) BY <3>1, <3>3, AppendElements
      <3> QED BY <3>1, <3>2, <3>3
    <2>3. ASSUME NEW r \in readers, ReaderFail(r) PROVE Queued'
      BY <2>3 DEF ReaderFail
    <2>4. ASSUME NEW t \in Text, GuestCopy(t) PROVE Queued'
      BY <2>4 DEF GuestCopy
    <2>5. ASSUME UNCHANGED <<inbox, readers>> PROVE Queued'
      BY <2>5
    <2>6. ASSUME \/ Poller \/ InstallClear \/ InstallSet \/ InstallRecord \/ Compositor
                 \/ \E t \in Text : HostCopy(t)
                 \/ HostCopyDone \/ GuestClear \/ UNCHANGED vars
          PROVE  UNCHANGED <<inbox, readers>>
      BY <2>6 DEF Poller, PollCount, PollText, PollDropEcho, PollForward, InstallClear,
                  InstallSet, InstallRecord, Compositor, Register, DropUnregistered,
                  ApplyHostClipboard, HostCopy, HostCopyDone, GuestClear, vars
    <2> HIDE DEF Queued
    <2> QED BY <2>1, <2>2, <2>3, <2>4, <2>5, <2>6 DEF Next, Installer
  <1> QED BY <1>2, <1>3 DEF Known

\* The poller numbers its frames and the queue keeps them in order.
LEMMA OrderedStep ==
    ASSUME Types, Ordered, [Next]_vars
    PROVE  Ordered'
  <1>1. /\ wire \in Seq(Frame) /\ serial \in Nat /\ host_clipboard.last_serial \in Nat
        /\ Len(wire) \in Nat
        /\ \A i \in 1 .. Len(wire) : wire[i].serial \in Nat
    <2>1. wire \in Seq(Frame) /\ serial \in Nat /\ host_clipboard \in HostText
      BY DEF Types, HostTypes, GuestTypes, PathTypes
    <2>2. \A i \in 1 .. Len(wire) : wire[i] \in Frame
      BY <2>1
    <2> QED BY <2>1, <2>2 DEF HostText, Frame
  <1>2. CASE PollForward
    <2> DEFINE f == [serial |-> serial + 1, text |-> poller.text]
    <2>1. /\ wire' = Append(wire, f) /\ serial' = serial + 1 /\ UNCHANGED host_clipboard
          /\ f.serial = serial + 1 /\ f \in Frame
      BY <1>2 DEF PollForward, guest, Types, HostTypes, Frame
    <2> HIDE DEF f
    <2>2. /\ Len(wire') = Len(wire) + 1 /\ wire'[Len(wire) + 1] = f
          /\ \A i \in 1 .. Len(wire) : wire'[i] = wire[i]
      BY <1>1, <2>1, AppendElements
    <2> QED BY <1>1, <2>1, <2>2 DEF Ordered
  <1>3. CASE wire # <<>> /\ wire' = Tail(wire) /\ UNCHANGED serial
             /\ host_clipboard'.last_serial \in {host_clipboard.last_serial, Head(wire).serial}
    <2>1. /\ Len(wire') = Len(wire) - 1 /\ Len(wire) > 0 /\ Head(wire) = wire[1]
          /\ \A i \in 1 .. Len(wire') : wire'[i] = wire[i + 1] /\ i + 1 \in 1 .. Len(wire)
      BY <1>1, <1>3, TailElements
    <2> QED BY <1>1, <1>3, <2>1 DEF Ordered
  <1>4. CASE DropUnregistered
    BY <1>3, <1>4 DEF DropUnregistered, host, guest
  <1>5. CASE ApplyHostClipboard
    BY <1>3, <1>5 DEF ApplyHostClipboard, host
  <1>6. CASE UNCHANGED <<wire, serial, host_clipboard>>
    BY <1>6 DEF Ordered
  <1>7. ASSUME \/ PollCount \/ PollText \/ PollDropEcho \/ Installer \/ Register
               \/ \E r \in readers : ReaderPost(r) \/ ReaderFail(r)
               \/ \E t \in Text : HostCopy(t) \/ GuestCopy(t)
               \/ HostCopyDone \/ GuestClear \/ UNCHANGED vars
        PROVE  UNCHANGED <<wire, serial, host_clipboard>>
    BY <1>7 DEF PollCount, PollText, PollDropEcho, Installer, InstallRecv, InstallClear,
                InstallSet, InstallRecord, Register, ReaderPost, ReaderFail, HostCopy,
                GuestCopy, HostCopyDone, GuestClear, vars, host, guest
  <1> QED BY <1>2, <1>4, <1>5, <1>6, <1>7 DEF Next, Poller, Compositor

\* One guest copy at a time goes through reader, inbox and installer.
LEMMA OneUpStep ==
    ASSUME ~Bursts, Types, OneUp, [Next]_vars
    PROVE  OneUp'
  <1> USE DEF OneUp, Reading, Posted, Installing
  <1>1. CASE InstallRecv
    <2>1. /\ inbox # <<>> /\ inbox' = Tail(inbox) /\ inbox \in Seq(Frame)
          /\ UNCHANGED <<readers, latest>>
      BY <1>1 DEF InstallRecv, Types, PathTypes, user
    <2>2. inbox' = <<>> /\ Head(inbox) = inbox[1]
      BY <2>1
    <2>3. \/ /\ installer'.pc = "clear" /\ installer'.text = inbox[1].text
             /\ Fits(inbox[1].text)
          \/ UNCHANGED installer
      BY <1>1, <2>2 DEF InstallRecv
    <2> QED BY <2>1, <2>2, <2>3
  <1>2. CASE InstallClear \/ InstallSet
    <2>1. /\ installer.pc # "recv" /\ installer'.pc # "recv" /\ installer'.text = installer.text
          /\ UNCHANGED <<readers, inbox, latest>>
      BY <1>2 DEF InstallClear, InstallSet, Types, InstTypes, InstallerState, user
    <2> QED BY <2>1
  <1>3. CASE InstallRecord
    BY <1>3 DEF InstallRecord, user
  <1>4. ASSUME NEW r \in readers, ReaderPost(r) PROVE OneUp'
    <2>1. /\ readers = {r} /\ readers' = {} /\ inbox = <<>> /\ latest = FromGuest(r.text)
          /\ UNCHANGED <<installer, latest>>
      BY <1>4 DEF ReaderPost, inst, user
    <2>2. inbox' = <<>> \/ (Len(inbox') = 1 /\ inbox'[1] = r)
      BY <1>4, <2>1 DEF ReaderPost, Types, PathTypes
    <2> QED BY <2>1, <2>2
  <1>5. ASSUME NEW r \in readers, ReaderFail(r) PROVE OneUp'
    BY <1>5 DEF ReaderFail, inst
  <1>6. ASSUME NEW t \in Text, HostCopy(t) PROVE OneUp'
    BY <1>6 DEF HostCopy, UpIdle, inst
  <1>7. ASSUME NEW t \in Text, GuestCopy(t) PROVE OneUp'
    BY <1>7 DEF GuestCopy, UpIdle, inst, FromGuest
  <1>8. CASE UNCHANGED <<readers, inbox, installer, latest>>
    BY <1>8
  <1>9. ASSUME Poller \/ Compositor \/ HostCopyDone \/ GuestClear \/ UNCHANGED vars
        PROVE  UNCHANGED <<readers, inbox, installer, latest>>
    BY <1>9 DEF Poller, PollCount, PollText, PollDropEcho, PollForward, Compositor, Register,
                DropUnregistered, ApplyHostClipboard, HostCopyDone, GuestClear, vars, inst, user
  <1> HIDE DEF OneUp
  <1> QED BY <1>1, <1>2, <1>3, <1>4, <1>5, <1>6, <1>7, <1>8, <1>9 DEF Next, Installer

\* While the latest copy is a guest's, the poller meets no other text.
LEMMA GuestWinsPoller ==
    ASSUME Types, OneUp, GuestWins, Poller
    PROVE  GuestWins'
  <1> SUFFICES ASSUME latest # None, latest.side = "guest" PROVE GuestWins'
    BY DEF Poller, PollCount, PollText, PollDropEcho, PollForward, user, GuestWins
  <1> USE DEF GuestWins, Unheard, UpIdle
  <1>1. CASE PollCount
    <2>1. /\ poller'.pc = "text" /\ poller.pc = "sleep" /\ pb.count # last_change_count
          /\ UNCHANGED <<pb, copying, last_change_count, inst, last_sent_to_guest, wire, guest,
                         readers, inbox, user>>
      BY <1>1 DEF PollCount, Types, HostTypes, PollerState
    <2> QED BY <2>1 DEF inst, guest, user
  <1>2. CASE PollText
    <2>1. /\ poller.pc = "text" /\ pb.text \in {None, latest.text}
          /\ UNCHANGED <<pb, copying, inst, last_sent_to_guest, wire, guest, readers, inbox,
                         user>>
      BY <1>2 DEF PollText
    <2>2. CASE pb.text = None
      <3>1. poller'.pc = "sleep"
        BY <1>2, <2>2 DEF PollText, Types, HostTypes, PollerState
      <3> QED BY <2>1, <2>2, <3>1 DEF inst, guest, user
    <2>3. CASE pb.text # None
      <3>1. poller'.pc = "filter" => poller'.text = pb.text
        BY <1>2, <2>3 DEF PollText, Types, HostTypes, PollerState
      <3> QED BY <2>1, <2>3, <3>1 DEF inst, guest, user
    <2> QED BY <2>2, <2>3
  <1>3. CASE PollDropEcho
    <2>1. /\ poller.pc = "filter" /\ poller'.pc = "sleep"
          /\ UNCHANGED <<pb, copying, last_change_count, inst, last_sent_to_guest, wire, guest,
                         readers, inbox, user>>
      BY <1>3 DEF PollDropEcho, Types, HostTypes, PollerState
    <2> QED BY <2>1 DEF inst, guest, user
  <1>4. CASE PollForward
    <2> DEFINE f == [serial |-> serial + 1, text |-> poller.text]
    <2>1. /\ poller.pc = "filter" /\ poller'.pc = "sleep" /\ poller.text = latest.text
          /\ wire' = Append(wire, f) /\ f.text = latest.text
          /\ f \in Frame /\ wire \in Seq(Frame)
          /\ UNCHANGED <<pb, copying, last_change_count, inst, guest, readers, inbox, user>>
      BY <1>4 DEF PollForward, Types, HostTypes, PathTypes, PollerState, Frame
    <2> HIDE DEF f
    <2>2. \A i \in 1 .. Len(wire') : wire'[i].text = latest.text
      BY <2>1, AppendElements
    <2> QED BY <2>1, <2>2 DEF inst, guest, user
  <1> QED BY <1>1, <1>2, <1>3, <1>4 DEF Poller

\* The installer brings the guest's copy to the pasteboard.
LEMMA GuestWinsInstaller ==
    ASSUME Types, OneUp, GuestWins, Installer
    PROVE  GuestWins'
  <1> SUFFICES ASSUME latest # None, latest.side = "guest" PROVE GuestWins'
    BY DEF Installer, InstallRecv, InstallClear, InstallSet, InstallRecord, user, GuestWins
  <1> USE DEF GuestWins, Unheard, UpIdle
  <1>1. CASE InstallRecv
    <2>1. /\ inbox # <<>> /\ readers = {} /\ latest.text = inbox[1].text
          /\ installer.pc = "recv"
      BY <1>1 DEF InstallRecv, OneUp, Posted, FromGuest
    <2>2. Head(inbox) = inbox[1] /\ inbox' = <<>>
      BY <1>1, <2>1 DEF InstallRecv, OneUp, Posted, Types, PathTypes
    <2>3. \/ installer'.pc = "clear"
          \/ ~Fits(latest.text) /\ UNCHANGED installer
      BY <1>1, <2>1, <2>2 DEF InstallRecv
    <2>4. UNCHANGED <<host, last_sent_to_guest, wire, guest, readers, user>>
      BY <1>1 DEF InstallRecv
    <2> QED BY <2>1, <2>2, <2>3, <2>4 DEF host, guest, user
  <1>2. CASE InstallClear
    <2>1. /\ installer.pc = "clear" /\ installer'.pc = "set"
          /\ pb'.text = None /\ pb'.owner = "bridge"
          /\ UNCHANGED <<copying, poller, last_sent_to_guest, wire, guest, readers, inbox, user>>
      BY <1>2 DEF InstallClear, Types, InstTypes, InstallerState
    <2>2. readers = {} /\ inbox = <<>>
      BY <2>1 DEF OneUp, Installing
    <2> QED BY <2>1, <2>2 DEF guest, user
  <1>3. CASE InstallSet
    <2>1. /\ installer.pc = "set" /\ installer'.pc = "record"
          /\ UNCHANGED <<copying, poller, last_sent_to_guest, wire, guest, readers, inbox, user>>
      BY <1>3 DEF InstallSet, Types, InstTypes, InstallerState
    <2>2. readers = {} /\ inbox = <<>> /\ installer.text = latest.text
      BY <2>1 DEF OneUp, Installing, FromGuest
    <2>3. pb'.text = latest.text
      BY <1>3, <2>1, <2>2 DEF InstallSet, Types, HostTypes, Pasteboard
    <2> QED BY <2>1, <2>2, <2>3 DEF guest, user
  <1>4. CASE InstallRecord
    <2>1. /\ installer.pc = "record" /\ installer'.pc = "recv"
          /\ UNCHANGED <<host, last_sent_to_guest, wire, guest, readers, inbox, user>>
      BY <1>4 DEF InstallRecord
    <2> QED BY <2>1 DEF host, guest, user
  <1> QED BY <1>1, <1>2, <1>3, <1>4 DEF Installer

\* The compositor may mirror the guest's own text back, and no other.
LEMMA GuestWinsCompositor ==
    ASSUME Types, GuestWins, Compositor
    PROVE  GuestWins'
  <1> SUFFICES ASSUME latest # None, latest.side = "guest" PROVE GuestWins'
    BY DEF Compositor, Register, DropUnregistered, ApplyHostClipboard, user, GuestWins
  <1>1. UNCHANGED <<host, inst, last_sent_to_guest, readers, inbox, user>>
    BY DEF Compositor, Register, DropUnregistered, ApplyHostClipboard
  <1>2. \A i \in 1 .. Len(wire') : wire'[i].text = latest.text
    <2>1. wire' = wire \/ (wire # <<>> /\ wire' = Tail(wire))
      BY DEF Compositor, Register, DropUnregistered, ApplyHostClipboard
    <2>2. CASE wire' = wire
      BY <2>2 DEF GuestWins
    <2>3. CASE wire # <<>> /\ wire' = Tail(wire)
      BY <2>3, TailElements DEF GuestWins, Types, PathTypes
    <2> QED BY <2>1, <2>2, <2>3
  <1>3. \/ UNCHANGED <<selection, host_clipboard>>
        \/ selection'.owner = "host" /\ host_clipboard'.text = latest.text
    <2>1. CASE ApplyHostClipboard
      <3>1. Head(wire).text = latest.text
        BY <2>1, TailElements DEF ApplyHostClipboard, GuestWins, Types, PathTypes
      <3> QED BY <2>1, <3>1 DEF ApplyHostClipboard
    <2>2. CASE ~ApplyHostClipboard
      BY <2>2 DEF Compositor, Register, DropUnregistered, guest
    <2> QED BY <2>1, <2>2
  <1> QED BY <1>1, <1>2, <1>3 DEF GuestWins, Unheard, UpIdle, host, inst, user

\* Users and reader threads.
LEMMA GuestWinsOther ==
    ASSUME Fresh, ~Bursts, Types, Known, OneUp, GuestWins,
           \/ \E r \in readers : ReaderPost(r) \/ ReaderFail(r)
           \/ \E t \in Text : HostCopy(t) \/ GuestCopy(t)
           \/ HostCopyDone \/ GuestClear \/ UNCHANGED vars
    PROVE  GuestWins'
  <1> USE DEF GuestWins, Unheard, UpIdle
  <1>1. ASSUME NEW r \in readers, ReaderPost(r) PROVE GuestWins'
    <2>1. /\ readers = {r} /\ readers' = {} /\ inbox = <<>> /\ latest = FromGuest(r.text)
          /\ installer.pc = "recv"
          /\ UNCHANGED <<host, inst, last_sent_to_guest, wire, guest, user>>
      BY <1>1 DEF ReaderPost, OneUp, Reading
    <2>2. Fits(r.text) => inbox' # <<>>
      BY <1>1, <2>1 DEF ReaderPost, Types, PathTypes
    <2> QED BY <2>1, <2>2 DEF host, inst, guest, user, FromGuest
  <1>2. ASSUME NEW r \in readers, ReaderFail(r) PROVE GuestWins'
    <2>1. latest' = None
      BY <1>2 DEF ReaderFail, OneUp, Reading, FromGuest
    <2> QED BY <2>1
  <1>3. ASSUME NEW t \in Text, HostCopy(t) PROVE GuestWins'
    <2>1. latest' = None \/ latest'.side = "host"
      BY <1>3 DEF HostCopy
    <2> QED BY <2>1
  <1>4. ASSUME NEW t \in Text, GuestCopy(t) PROVE GuestWins'
    <2>1. /\ copying = None /\ poller.pc = "sleep" /\ wire = <<>>
          /\ pb.count = last_change_count \/ pb.text = None
          /\ readers = {} /\ inbox = <<>> /\ installer.pc = "recv" /\ t \notin used
      BY <1>4 DEF GuestCopy, DownIdle, MayCopy
    <2>2. pb.text # t /\ last_sent_to_guest # t
      BY <2>1, ClipboardAssumption DEF Known, Seen
    <2>3. /\ latest'.text = t /\ selection'.owner = "guest" /\ selection'.text = t
          /\ readers' # {}
          /\ UNCHANGED <<host, inst, last_sent_to_guest, wire, inbox>>
      BY <1>4 DEF GuestCopy
    <2> QED BY <2>1, <2>2, <2>3 DEF host, inst
  <1>5. CASE HostCopyDone
    BY <1>5 DEF HostCopyDone, user, inst, guest
  <1>6. CASE GuestClear
    BY <1>6 DEF GuestClear, host, inst
  <1>7. CASE UNCHANGED vars
    BY <1>7 DEF vars, host, inst, guest, user
  <1> HIDE DEF GuestWins
  <1> QED BY <1>1, <1>2, <1>3, <1>4, <1>5, <1>6, <1>7

\* The two alternatives of HostWins.
Setting(t) ==
    copying = t /\ pb.text = None /\ pb.owner = "app" /\ last_change_count < pb.count
Set(t) ==
    /\ copying = None /\ pb.text = t
    /\ Fits(t) /\ pb.count = last_change_count => Sent(t)

\* A host copy that was the last is handled by the poller and sent once.
LEMMA HostWinsPoller ==
    ASSUME Types, Polled, HostWins, Poller
    PROVE  HostWins'
  <1> SUFFICES ASSUME latest # None, latest.side = "host" PROVE HostWins'
    BY DEF Poller, PollCount, PollText, PollDropEcho, PollForward, user, HostWins
  <1> DEFINE t == latest.text
  <1>1. /\ registered /\ UpIdle /\ t # last_installed_from_guest
        /\ Setting(t) \/ Set(t)
    BY DEF HostWins, Setting, Set
  <1>2. UNCHANGED <<latest, registered, installer, readers, inbox, last_installed_from_guest,
                    copying, pb, selection, host_clipboard>>
    BY DEF Poller, PollCount, PollText, PollDropEcho, PollForward, user, inst, guest
  <1>3. t # None
    BY ClipboardAssumption DEF Types, UserTypes, Latest, Copy
  <1> HIDE DEF t
  <1>4. (Setting(t) \/ Set(t))'
    <2>1. CASE PollCount
      <3>1. /\ poller.pc = "sleep" /\ poller'.pc = "text"
            /\ UNCHANGED <<last_change_count, wire>>
        BY <2>1 DEF PollCount, Types, HostTypes, PollerState
      <3> QED BY <1>1, <1>2, <3>1 DEF Setting, Set, Sent, t
    <2>2. CASE PollText
      <3>1. CASE pb.text = None
        <4>1. /\ poller'.pc = "sleep" /\ UNCHANGED <<last_change_count, wire>>
          BY <2>2, <3>1 DEF PollText, Types, HostTypes, PollerState
        <4> QED BY <1>1, <1>2, <1>3, <3>1, <4>1 DEF Setting, Set, t
      <3>2. CASE pb.text # None
        <4>1. Fits(pb.text) => poller'.pc = "filter" /\ poller'.text = pb.text
          BY <2>2, <3>2 DEF PollText, Types, HostTypes, PollerState
        <4> QED BY <1>1, <1>2, <3>2, <4>1 DEF Setting, Set, Sent, t
      <3> QED BY <3>1, <3>2
    <2>3. CASE PollDropEcho
      <3>1. /\ poller.pc = "filter" /\ poller.text = last_installed_from_guest
            /\ UNCHANGED last_change_count
        BY <2>3 DEF PollDropEcho
      <3> QED BY <1>1, <1>2, <3>1 DEF Setting, Set, Sent, t
    <2>4. CASE PollForward
      <3> DEFINE f == [serial |-> serial + 1, text |-> poller.text]
      <3>1. /\ poller.pc = "filter" /\ poller'.pc = "sleep" /\ UNCHANGED last_change_count
            /\ wire' = Append(wire, f) /\ f.text = poller.text
            /\ f \in Frame /\ wire \in Seq(Frame)
        BY <2>4 DEF PollForward, Types, HostTypes, PathTypes, PollerState, Frame
      <3> HIDE DEF f
      <3>2. wire' # <<>> /\ wire'[Len(wire')] = f
        BY <3>1, AppendElements
      <3> QED BY <1>1, <1>2, <3>1, <3>2 DEF Setting, Set, Sent, t
    <2> QED BY <2>1, <2>2, <2>3, <2>4 DEF Poller
  <1> QED BY <1>1, <1>2, <1>4 DEF HostWins, Setting, Set, UpIdle, t

\* The compositor takes it, for its serial is the newest.
LEMMA HostWinsCompositor ==
    ASSUME Types, Ordered, HostWins, Compositor
    PROVE  HostWins'
  <1> SUFFICES ASSUME latest # None, latest.side = "host" PROVE HostWins'
    BY DEF Compositor, Register, DropUnregistered, ApplyHostClipboard, user, HostWins
  <1> DEFINE t == latest.text
  <1>1. /\ registered /\ UpIdle /\ t # last_installed_from_guest
        /\ Setting(t) \/ Set(t)
    BY DEF HostWins, Setting, Set
  <1>2. ApplyHostClipboard
    BY <1>1 DEF Compositor, Register, DropUnregistered
  <1>3. UNCHANGED <<latest, registered, installer, readers, inbox, last_installed_from_guest,
                    copying, pb, poller, last_change_count>>
    BY <1>2 DEF ApplyHostClipboard, host, inst, user
  <1>4. /\ wire # <<>> /\ wire \in Seq(Frame) /\ wire' = Tail(wire)
        /\ Len(wire) \in Nat /\ Len(wire) > 0 /\ Head(wire) = wire[1]
        /\ Len(wire') = Len(wire) - 1
        /\ \A i \in 1 .. Len(wire') : wire'[i] = wire[i + 1] /\ i + 1 \in 1 .. Len(wire)
    BY <1>2, TailElements DEF ApplyHostClipboard, Types, PathTypes
  <1>5. wire[1].serial > host_clipboard.last_serial
    BY <1>4 DEF Ordered
  <1>6. wire[1].serial \in Nat /\ host_clipboard.last_serial \in Nat
    <2>1. wire[1] \in Frame
      BY <1>4
    <2> QED BY <2>1 DEF Types, GuestTypes, HostText, Frame
  <1> HIDE DEF t
  <1>7. ASSUME Fits(t), pb.count = last_change_count, Sent(t) PROVE Sent(t)'
    <2>1. CASE poller.pc = "filter"
      BY <1>3, <1>7, <2>1 DEF Sent, t
    <2>2. CASE poller.pc # "filter" /\ Len(wire) > 1
      <3>1. wire' # <<>> /\ wire'[Len(wire')] = wire[Len(wire)]
        <4>1. Len(wire') # 0
          BY <1>4, <2>2
        <4>2. Len(wire') \in 1 .. Len(wire') /\ Len(wire') + 1 = Len(wire)
          BY <1>4, <2>2
        <4>3. wire'[Len(wire')] = wire[Len(wire') + 1]
          BY <1>4, <4>2
        <4> QED BY <4>1, <4>2, <4>3
      <3> QED BY <1>3, <1>4, <1>7, <2>2, <3>1 DEF Sent, t
    <2>3. CASE poller.pc # "filter" /\ Len(wire) = 1
      <3>1. wire' = <<>> /\ wire[1].text = t
        BY <1>4, <1>7, <2>3 DEF Sent
      <3>2. ~Stale(Head(wire))
        BY <1>4, <1>5, <1>6 DEF Stale
      <3>3. selection'.owner = "host" /\ host_clipboard'.text = t
        BY <1>2, <1>4, <1>7, <3>1, <3>2 DEF ApplyHostClipboard
      <3> QED BY <1>3, <2>3, <3>1, <3>3 DEF Sent, t
    <2> QED BY <1>4, <2>1, <2>2, <2>3
  <1>8. (Setting(t) \/ Set(t))'
    BY <1>1, <1>3, <1>7 DEF Setting, Set, t
  <1> QED BY <1>1, <1>3, <1>8 DEF HostWins, Setting, Set, UpIdle, t

\* Installer, reader threads and users: none of them is at work but users.
LEMMA HostWinsOther ==
    ASSUME Fresh, ~Bursts, Types, Known, Polled, HostWins,
           \/ Installer
           \/ \E r \in readers : ReaderPost(r) \/ ReaderFail(r)
           \/ \E t \in Text : HostCopy(t) \/ GuestCopy(t)
           \/ HostCopyDone \/ GuestClear \/ UNCHANGED vars
    PROVE  HostWins'
  <1> USE DEF HostWins, UpIdle
  <1>1. CASE Installer
    BY <1>1 DEF Installer, InstallRecv, InstallClear, InstallSet, InstallRecord, user
  <1>2. ASSUME NEW r \in readers, ReaderPost(r) \/ ReaderFail(r) PROVE HostWins'
    BY <1>2 DEF ReaderPost, ReaderFail, user
  <1>3. ASSUME NEW t \in Text, HostCopy(t) PROVE HostWins'
    <2>1. /\ readers = {} /\ inbox = <<>> /\ installer.pc = "recv" /\ t \notin used
          /\ UNCHANGED <<last_change_count, inst, readers, inbox, registered>>
          /\ copying' = t /\ pb'.text = None /\ pb'.owner = "app" /\ pb'.count = pb.count + 1
      BY <1>3 DEF HostCopy, MayCopy, guest
    <2>2. latest' = None \/ (registered /\ latest'.text = t)
      BY <1>3 DEF HostCopy
    <2>3. t # last_installed_from_guest
      BY <2>1, ClipboardAssumption DEF Known, Seen
    <2>4. last_change_count < pb'.count
      BY <2>1 DEF Polled, Types, HostTypes, Pasteboard
    <2> QED BY <2>1, <2>2, <2>3, <2>4 DEF inst
  <1>4. ASSUME NEW t \in Text, GuestCopy(t) PROVE HostWins'
    BY <1>4 DEF GuestCopy
  <1>5. CASE HostCopyDone
    <2> SUFFICES ASSUME latest # None, latest.side = "host" PROVE HostWins'
      BY <1>5 DEF HostCopyDone, user
    <2>1. /\ copying # None /\ copying' = None
          /\ UNCHANGED <<last_change_count, inst, guest, readers, inbox, user>>
      BY <1>5 DEF HostCopyDone
    <2>2. /\ copying = latest.text /\ pb.owner = "app" /\ last_change_count < pb.count
      BY <2>1
    <2>3. pb'.text = latest.text /\ pb'.count = pb.count
      BY <1>5, <2>2 DEF HostCopyDone, Types, HostTypes, Pasteboard
    <2>4. pb'.count # last_change_count
      BY <2>2, <2>3 DEF Types, HostTypes, Pasteboard
    <2> QED BY <2>1, <2>2, <2>3, <2>4 DEF inst, guest, user
  <1>6. CASE GuestClear
    BY <1>6 DEF GuestClear, host, inst, Sent
  <1>7. CASE UNCHANGED vars
    BY <1>7 DEF vars, host, inst, guest, user, Sent
  <1> HIDE DEF HostWins
  <1> QED BY <1>1, <1>2, <1>3, <1>4, <1>5, <1>6, <1>7

\* "Each side pushes once when its local clipboard changes, the peer mirrors
\* the payload": for users who wait for the other side's copy and copy no
\* text twice, both sides hold the last copy whenever nothing is on its way,
\* over any number of copies, failed reads, oversize texts and interleavings
\* of poller, installer and compositor.
THEOREM LastCopyAlwaysWins ==
    ASSUME Fresh, ~Bursts
    PROVE  Spec => []LastCopyWins
  <1>1. Init => LastInv
    <2> SUFFICES ASSUME Init PROVE LastInv
      OBVIOUS
    <2>1. EchoInv
      BY InitEcho
    <2>2. Known
      BY DEF Init, Known, Seen, MaybeText
    <2>3. Ordered
      BY DEF Init, Ordered
    <2>4. OneUp /\ GuestWins /\ HostWins
      BY DEF Init, OneUp, Reading, Posted, Installing, GuestWins, HostWins
    <2> QED BY <2>1, <2>2, <2>3, <2>4 DEF LastInv
  <1>2. LastInv /\ [Next]_vars => LastInv'
    <2> SUFFICES ASSUME LastInv, [Next]_vars PROVE LastInv'
      OBVIOUS
    <2>1. EchoInv' /\ Known' /\ Ordered' /\ OneUp'
      BY EchoStep, KnownStep, OrderedStep, OneUpStep DEF LastInv, EchoInv
    <2>2. GuestWins'
      BY GuestWinsPoller, GuestWinsInstaller, GuestWinsCompositor, GuestWinsOther
         DEF LastInv, EchoInv, Next
    <2>3. HostWins'
      BY HostWinsPoller, HostWinsCompositor, HostWinsOther DEF LastInv, EchoInv, Next
    <2> QED BY <2>1, <2>2, <2>3 DEF LastInv
  <1>3. LastInv => LastCopyWins
    <2> SUFFICES ASSUME LastInv, Settled, latest # None, Fits(latest.text)
                 PROVE  /\ pb.text = latest.text
                        /\ selection.owner # "none" => GuestPaste = latest.text
      BY DEF LastCopyWins
    <2>1. latest.side \in {"host", "guest"} /\ latest.text # None
          /\ selection.owner \in {"none", "guest", "host"}
      BY ClipboardAssumption DEF LastInv, EchoInv, Types, UserTypes, Latest, Copy, GuestTypes,
                                 Selection
    <2>2. /\ selection.owner = "guest" => GuestPaste = selection.text
          /\ selection.owner = "host" => GuestPaste = host_clipboard.text
      BY DEF GuestPaste
    <2>3. CASE latest.side = "guest"
      BY <2>1, <2>2, <2>3 DEF LastInv, GuestWins, Settled
    <2>4. CASE latest.side = "host"
      <3>1. /\ copying = None /\ poller.pc = "sleep" /\ wire = <<>>
            /\ pb.count = last_change_count \/ pb.text = None
        BY DEF Settled, DownIdle
      <3>2. pb.text = latest.text /\ Sent(latest.text)
        BY <2>1, <2>4, <3>1 DEF LastInv, HostWins
      <3> QED BY <2>2, <3>1, <3>2 DEF Sent
    <2> QED BY <2>1, <2>3, <2>4
  <1> QED BY <1>1, <1>2, <1>3, PTL DEF Spec

=============================================================================
