----------------------------- MODULE Clipboard -----------------------------
(***************************************************************************)
(* The clipboard bridge between the macOS pasteboard and the guest         *)
(* (client/src/clipboard.rs, server/src/wayland_session/clipboard.rs and   *)
(* host_clipboard.rs, the selection handler of wayland_session/mod.rs).    *)
(*                                                                         *)
(* Host to guest: a poller thread compares the pasteboard's changeCount    *)
(* with the last one it handled, reads the text, drops what the installer  *)
(* has put there and sends the rest.  Guest to host: each new selection    *)
(* starts a thread that reads it from a pipe and posts it; the installer   *)
(* thread drops what the poller has sent and writes the rest to the        *)
(* pasteboard.  The two threads meet only in the pasteboard itself and in  *)
(* two caches of the last text, each behind its own mutex.                 *)
(*                                                                         *)
(* Abstractions.  `wire' is everything between the poller's send and the   *)
(* compositor's drain (channels, forwarder, connection, global slot), and  *)
(* `inbox' everything between a reader's send and the installer: both are  *)
(* FIFO.  A poller iteration that finds nothing new is a stuttering step.  *)
(* One view session.                                                       *)
(***************************************************************************)
EXTENDS Naturals, Sequences, FiniteSets

CONSTANTS
    Text,       \* what users copy
    Big,        \* the texts over MAX_CLIPBOARD_TEXT_BYTES
    None,       \* no text
    MaxCopies,  \* bound: copies on either side
    MaxClears,  \* bound: guest selections cleared by their owner
    Fresh,      \* TRUE: no text is copied twice
    Bursts      \* TRUE: users copy at any moment, FALSE: when all has arrived

ASSUME ClipboardAssumption ==
    /\ Big \subseteq Text /\ None \notin Text
    /\ MaxCopies \in Nat /\ MaxClears \in Nat
    /\ Fresh \in BOOLEAN /\ Bursts \in BOOLEAN

VARIABLES
    pb,              \* NSPasteboard: changeCount, text, who cleared it last
    copying,         \* the text a host application is about to set
    poller,          \* poller thread: label, changeCount and text just read
    last_change_count,
    serial,          \* of the last frame sent to the guest
    installer,       \* installer thread: label and the frame it works on
    last_installed_from_guest, last_sent_to_guest,
    wire,            \* frames on their way to the compositor
    registered,      \* the compositor has filled the clipboard slot
    host_clipboard,  \* HostClipboard of the compositor
    selection,       \* the guest's selection: owner and a guest source's text
    guest_clipboard_serial,
    readers,         \* threads reading a guest selection
    inbox,           \* frames on their way to the installer
    copies, clears, used,
    latest,          \* the last copy that must win: side and text, or None
    installed        \* the highest guest serial the installer has written

host == <<pb, copying, poller, last_change_count, serial>>
inst == <<installer, last_installed_from_guest, installed>>
guest == <<registered, host_clipboard, selection, guest_clipboard_serial>>
user == <<copies, clears, used, latest>>
vars == <<host, inst, last_sent_to_guest, wire, guest, readers, inbox, user>>

Fits(t) == t \notin Big

Frame == [serial: Nat, text: Text]
Copy == [side: {"host", "guest"}, text: Text]
MaybeText == Text \cup {None}

TypeOK ==
    /\ pb \in [count: Nat, text: MaybeText, owner: {"app", "bridge"}]
    /\ copying \in MaybeText
    /\ poller \in [pc: {"sleep", "text", "filter"}, count: Nat, text: MaybeText]
    /\ last_change_count \in Nat
    /\ serial \in Nat
    /\ installer \in [pc: {"recv", "clear", "set", "record"}, text: MaybeText,
                      serial: Nat]
    /\ installed \in Nat
    /\ last_installed_from_guest \in MaybeText
    /\ last_sent_to_guest \in MaybeText
    /\ wire \in Seq(Frame) /\ inbox \in Seq(Frame)
    /\ registered \in BOOLEAN
    /\ host_clipboard \in [text: MaybeText, last_serial: Nat]
    /\ selection \in [owner: {"none", "guest", "host"}, text: MaybeText]
    /\ guest_clipboard_serial \in Nat
    /\ readers \in SUBSET Frame
    /\ copies \in Nat /\ clears \in Nat /\ used \in SUBSET Text
    /\ latest \in Copy \cup {None}

\* What a guest application pastes: its own selection, or the host's text
\* through send_selection.
GuestPaste == CASE selection.owner = "guest" -> selection.text
                [] selection.owner = "host"  -> host_clipboard.text
                [] OTHER                     -> None

-----------------------------------------------------------------------------
(* The poller thread.                                                      *)

\* read_pasteboard_text_if_changed looks at changeCount first ...
PollCount ==
    /\ poller.pc = "sleep"
    /\ pb.count # last_change_count
    /\ poller' = [poller EXCEPT !.pc = "text", !.count = pb.count]
    /\ UNCHANGED <<pb, copying, last_change_count, serial, inst, last_sent_to_guest,
                   wire, guest, readers, inbox, user>>

\* Mutant: a pasteboard without text counts as handled.
PollTextEager ==
    /\ poller.pc = "text"
    /\ last_change_count' = poller.count
    /\ poller' = IF pb.text # None /\ Fits(pb.text)
                 THEN [poller EXCEPT !.pc = "filter", !.text = pb.text]
                 ELSE [poller EXCEPT !.pc = "sleep"]
    /\ UNCHANGED <<pb, copying, serial, inst, last_sent_to_guest,
                   wire, guest, readers, inbox, user>>

\* Mutant: the handled changeCount is not remembered.
PollTextForgets ==
    /\ poller.pc = "text"
    /\ poller' = IF pb.text # None /\ Fits(pb.text)
                 THEN [poller EXCEPT !.pc = "filter", !.text = pb.text]
                 ELSE [poller EXCEPT !.pc = "sleep"]
    /\ UNCHANGED <<pb, copying, last_change_count, serial, inst, last_sent_to_guest,
                   wire, guest, readers, inbox, user>>

\* Mutant: a pasteboard without text is relayed as it is.
PollTextNil ==
    /\ poller.pc = "text"
    /\ last_change_count' = poller.count
    /\ poller' = IF Fits(pb.text) THEN [poller EXCEPT !.pc = "filter", !.text = pb.text]
                                  ELSE [poller EXCEPT !.pc = "sleep"]
    /\ UNCHANGED <<pb, copying, serial, inst, last_sent_to_guest,
                   wire, guest, readers, inbox, user>>

\* ... and at the text afterwards: without one the change is looked at again,
\* an oversize one is handled by dropping it.
PollText ==
    /\ poller.pc = "text"
    /\ IF pb.text = None
       THEN /\ poller' = [poller EXCEPT !.pc = "sleep"]
            /\ UNCHANGED last_change_count
       ELSE /\ last_change_count' = poller.count
            /\ poller' = IF Fits(pb.text)
                         THEN [poller EXCEPT !.pc = "filter", !.text = pb.text]
                         ELSE [poller EXCEPT !.pc = "sleep"]
    /\ UNCHANGED <<pb, copying, serial, inst, last_sent_to_guest,
                   wire, guest, readers, inbox, user>>

\* The text equals what the installer last recorded: not relayed.
PollDropEcho ==
    /\ poller.pc = "filter"
    /\ poller.text = last_installed_from_guest
    /\ poller' = [poller EXCEPT !.pc = "sleep", !.text = None]
    /\ UNCHANGED <<pb, copying, last_change_count, serial, inst, last_sent_to_guest,
                   wire, guest, readers, inbox, user>>

PollForward ==
    /\ poller.pc = "filter"
    /\ poller.text # last_installed_from_guest
    /\ last_sent_to_guest' = poller.text
    /\ serial' = serial + 1
    /\ wire' = Append(wire, [serial |-> serial + 1, text |-> poller.text])
    /\ poller' = [poller EXCEPT !.pc = "sleep", !.text = None]
    /\ UNCHANGED <<pb, copying, last_change_count, inst, guest, readers, inbox, user>>

-----------------------------------------------------------------------------
(* The installer thread.                                                   *)

\* A frame is dropped if it is what the poller last sent.  Its serial is not
\* looked at.
InstallRecv ==
    /\ installer.pc = "recv" /\ inbox # <<>>
    /\ inbox' = Tail(inbox)
    /\ IF Fits(Head(inbox).text) /\ Head(inbox).text # last_sent_to_guest
       THEN installer' = [pc |-> "clear", text |-> Head(inbox).text,
                          serial |-> Head(inbox).serial]
       ELSE UNCHANGED installer
    /\ UNCHANGED <<host, installed, last_installed_from_guest, last_sent_to_guest, wire,
                   guest, readers, user>>

\* install_pasteboard_text: clearContents, which moves changeCount ...
InstallClear ==
    /\ installer.pc = "clear"
    /\ pb' = [count |-> pb.count + 1, text |-> None, owner |-> "bridge"]
    /\ installer' = [installer EXCEPT !.pc = "set"]
    /\ UNCHANGED <<copying, poller, last_change_count, serial, installed,
                   last_installed_from_guest, last_sent_to_guest, wire, guest,
                   readers, inbox, user>>

\* ... and setString, which fails if someone else has cleared it since; the
\* failure is ignored.
InstallSet ==
    /\ installer.pc = "set"
    /\ pb' = IF pb.owner = "bridge" THEN [pb EXCEPT !.text = installer.text] ELSE pb
    /\ installer' = [installer EXCEPT !.pc = "record"]
    /\ UNCHANGED <<copying, poller, last_change_count, serial, installed,
                   last_installed_from_guest, last_sent_to_guest, wire, guest,
                   readers, inbox, user>>

\* The echo cache is written last.
InstallRecord ==
    /\ installer.pc = "record"
    /\ last_installed_from_guest' = installer.text
    /\ installed' = IF installer.serial > installed THEN installer.serial ELSE installed
    /\ installer' = [pc |-> "recv", text |-> None, serial |-> 0]
    /\ UNCHANGED <<host, last_sent_to_guest, wire, guest, readers, inbox, user>>

-----------------------------------------------------------------------------
(* The compositor.                                                         *)

\* ClipboardRegistration::new, when the view session starts.
Register ==
    /\ ~registered
    /\ registered' = TRUE
    /\ UNCHANGED <<host, inst, last_sent_to_guest, wire, host_clipboard, selection,
                   guest_clipboard_serial, readers, inbox, user>>

\* send_clipboard without a session: the frame is dropped.
DropUnregistered ==
    /\ ~registered /\ wire # <<>>
    /\ wire' = Tail(wire)
    /\ UNCHANGED <<host, inst, last_sent_to_guest, guest, readers, inbox, user>>

\* The monotonic check, with its exception for the first text.
Stale(f) == f.serial <= host_clipboard.last_serial /\ host_clipboard.text # None

\* Mutant: the selection is installed for the first host text only.
ApplyHostClipboardOnce ==
    /\ registered /\ wire # <<>>
    /\ wire' = Tail(wire)
    /\ LET f == Head(wire)
       IN IF ~Fits(f.text) \/ Stale(f)
          THEN UNCHANGED <<host_clipboard, selection>>
          ELSE /\ host_clipboard' = [text |-> f.text, last_serial |-> f.serial]
               /\ selection' = IF host_clipboard.text = None
                               THEN [owner |-> "host", text |-> None]
                               ELSE selection
    /\ UNCHANGED <<host, inst, last_sent_to_guest, registered, guest_clipboard_serial,
                   readers, inbox, user>>

\* apply_host_clipboard: stale frames are dropped; a new text becomes the compositor's own selection.
ApplyHostClipboard ==
    /\ registered /\ wire # <<>>
    /\ wire' = Tail(wire)
    /\ LET f == Head(wire)
       IN IF ~Fits(f.text) \/ Stale(f)
          THEN UNCHANGED <<host_clipboard, selection>>
          ELSE /\ host_clipboard' = [text |-> f.text, last_serial |-> f.serial]
               /\ selection' = [owner |-> "host", text |-> None]
    /\ UNCHANGED <<host, inst, last_sent_to_guest, registered, guest_clipboard_serial,
                   readers, inbox, user>>

\* A reader has the whole selection and posts it; readers end in any order.
ReaderPost(r) ==
    /\ r \in readers
    /\ readers' = readers \ {r}
    /\ inbox' = IF Fits(r.text) THEN Append(inbox, r) ELSE inbox
    /\ UNCHANGED <<host, inst, last_sent_to_guest, wire, guest, user>>

\* The pipe breaks, or its bytes are not UTF-8.
ReaderFail(r) ==
    /\ r \in readers
    /\ readers' = readers \ {r}
    /\ latest' = IF latest = [side |-> "guest", text |-> r.text] THEN None ELSE latest
    /\ UNCHANGED <<host, inst, last_sent_to_guest, wire, guest, inbox, copies, clears, used>>

-----------------------------------------------------------------------------
(* The users.                                                              *)

\* Nothing is on its way from the guest to the host.
UpIdle == readers = {} /\ inbox = <<>> /\ installer.pc = "recv"

\* The poller has handled what is on the pasteboard, and the guest has it.
DownIdle ==
    /\ copying = None /\ poller.pc = "sleep" /\ wire = <<>>
    /\ pb.count = last_change_count \/ pb.text = None

Settled == registered /\ UpIdle /\ DownIdle

MayCopy(t) == copies < MaxCopies /\ (Fresh => t \notin used)

\* A host application starts to replace the pasteboard.  A copy before the
\* session is registered may be lost, so it does not have to win.
HostCopy(t) ==
    /\ MayCopy(t) /\ copying = None
    /\ UpIdle \/ Bursts
    /\ copying' = t
    /\ pb' = [count |-> pb.count + 1, text |-> None, owner |-> "app"]
    /\ copies' = copies + 1
    /\ used' = used \cup {t}
    /\ latest' = IF registered THEN [side |-> "host", text |-> t] ELSE None
    /\ UNCHANGED <<poller, last_change_count, serial, inst, last_sent_to_guest,
                   wire, guest, readers, inbox, clears>>

HostCopyDone ==
    /\ copying # None
    /\ pb' = IF pb.owner = "app" THEN [pb EXCEPT !.text = copying] ELSE pb
    /\ copying' = None
    /\ UNCHANGED <<poller, last_change_count, serial, inst, last_sent_to_guest,
                   wire, guest, readers, inbox, user>>

\* new_selection with a text source.
GuestCopy(t) ==
    /\ MayCopy(t) /\ registered
    /\ (UpIdle /\ DownIdle) \/ Bursts
    /\ selection' = [owner |-> "guest", text |-> t]
    /\ guest_clipboard_serial' = guest_clipboard_serial + 1
    /\ readers' = readers \cup {[serial |-> guest_clipboard_serial + 1, text |-> t]}
    /\ copies' = copies + 1
    /\ used' = used \cup {t}
    /\ latest' = [side |-> "guest", text |-> t]
    /\ UNCHANGED <<host, inst, last_sent_to_guest, wire, registered, host_clipboard,
                   inbox, clears>>

\* new_selection without a source: the host is not told.
GuestClear ==
    /\ selection.owner = "guest" /\ clears < MaxClears
    /\ selection' = [owner |-> "none", text |-> None]
    /\ clears' = clears + 1
    /\ UNCHANGED <<host, inst, last_sent_to_guest, wire, registered, host_clipboard,
                   guest_clipboard_serial, readers, inbox, copies, used, latest>>

\* The pasteboard may hold a text when the viewer starts.
Init ==
    /\ \E t \in MaybeText :
          /\ pb = [count |-> 1, text |-> t, owner |-> "app"]
          /\ used = IF t = None THEN {} ELSE {t}
    /\ copying = None
    /\ poller = [pc |-> "sleep", count |-> 0, text |-> None]
    /\ last_change_count = 0
    /\ serial = 0
    /\ installer = [pc |-> "recv", text |-> None, serial |-> 0]
    /\ installed = 0
    /\ last_installed_from_guest = None /\ last_sent_to_guest = None
    /\ wire = <<>> /\ inbox = <<>> /\ readers = {}
    /\ registered = FALSE
    /\ host_clipboard = [text |-> None, last_serial |-> 0]
    /\ selection = [owner |-> "none", text |-> None]
    /\ guest_clipboard_serial = 0
    /\ copies = 0 /\ clears = 0
    /\ latest = None

Poller == PollCount \/ PollText \/ PollDropEcho \/ PollForward
Installer == InstallRecv \/ InstallClear \/ InstallSet \/ InstallRecord
Compositor == Register \/ DropUnregistered \/ ApplyHostClipboard

Next ==
    \/ Poller \/ Installer \/ Compositor
    \/ \E r \in readers : ReaderPost(r) \/ ReaderFail(r)
    \/ \E t \in Text : HostCopy(t) \/ GuestCopy(t)
    \/ HostCopyDone \/ GuestClear

Spec == Init /\ [][Next]_vars

\* The two bridge threads and the compositor's loop run for ever, and an
\* application that has cleared the pasteboard goes on to fill it.
Fairness ==
    /\ WF_vars(Poller) /\ WF_vars(Installer) /\ WF_vars(Compositor)
    /\ WF_vars(HostCopyDone)

FairSpec == Spec /\ Fairness

-----------------------------------------------------------------------------
(* Properties.                                                             *)

\* "Each side pushes once when its local clipboard changes, the peer mirrors
\* the payload": once nothing is on its way, both sides hold the last copy,
\* wherever it was made, unless it was too big or the guest has dropped its
\* own selection.  Holds for texts that are not copied twice, by users who
\* wait for the other side's copy to arrive.
LastCopyWins ==
    Settled /\ latest # None /\ Fits(latest.text) =>
        /\ pb.text = latest.text
        /\ selection.owner # "none" => GuestPaste = latest.text

\* The two directions cannot feed each other: a frame goes to the guest at
\* most once for each copy made on either side (and once for the text the
\* pasteboard held at the start), whatever races with the installer; with
\* Bursts, that is also a host copy in the middle of an installation.
NoEchoStorm == serial <= copies + 1

\* A host copy made while the session is registered reaches the guest, or is
\* replaced: the poller never loses a change, not even one it looks at while
\* the copying application is between clearing and filling the pasteboard.
HostCopyArrives ==
    \A t \in Text \ Big :
        latest = [side |-> "host", text |-> t]
            ~> GuestPaste = t \/ latest # [side |-> "host", text |-> t]

\* "don't relay it back --- the guest already has it": what the poller drops
\* as an echo is what the guest would paste.
EchoIsKnown ==
    poller.pc = "filter" /\ poller.text = last_installed_from_guest =>
        GuestPaste = poller.text

\* "receivers ignore out-of-order or duplicate serials": the installer never
\* writes a guest text older than one it has written before.
GuestOrder == installer.pc # "recv" => installer.serial > installed
=============================================================================
