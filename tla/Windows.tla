------------------------------ MODULE Windows -------------------------------
(***************************************************************************)
(* Viewer and compositor together: the two event loops, the two ordered    *)
(* channels between them, the application and the user.                    *)
(*                                                                         *)
(* `fuel' bounds what the user and the application do of their own accord; *)
(* everything else is a reaction.                                          *)
(***************************************************************************)
EXTENDS Viewer

CONSTANT Fuel
ASSUME FuelAssumption == Fuel \in Nat

VARIABLE fuel

viewer == <<view, osq, timers, app, c2s>>
vars == <<toplevels, viewer, fuel>>

\* Both options at their defaults, or neither.
Init == ToplevelsInit /\ ViewerInit /\ gtk_wm = ~host_chrome_enabled /\ fuel = Fuel

\* handle_input_event, for the events of this module.
HandleInput ==
    /\ c2s # <<>>
    /\ c2s' = Tail(c2s)
    /\ LET m == Head(c2s)
       IN  \/ m.type = "resize" /\ RequestWindowResize(m.id, m.size)
           \/ m.type = "toggle" /\ ToggleWindowMaximize(m.id)
           \/ m.type = "fullscreen" /\ SetWindowFullscreen(m.id, m.on)
    /\ UNCHANGED <<next_window_id, gtk_wm, view, osq, timers, app, fuel>>

Burn == fuel > 0 /\ fuel' = fuel - 1

\* What the application does unasked.
Guest(id) ==
    /\ Burn
    /\ \/ GuestRelayout(id) \/ GuestMode(id) \/ GuestMove(id) \/ GuestTell(id)
       \/ ToplevelDestroyed(id)
    /\ UNCHANGED viewer

\* What the user does to a window on the screen.
User(id) ==
    /\ ~exited /\ Burn
    /\ id \in ActiveWindows /\ view[id].visible
    /\ \/ FullscreenShortcut(id) \/ HostResize(id) \/ EdgeSnap(id)
       \/ NativeToggle(id) \/ TitlebarToggle(id)

Open == Burn /\ NewToplevel /\ UNCHANGED viewer
Answer(id) == GuestConfigure(id) /\ UNCHANGED <<viewer, fuel>>
MoveGrace(id) == MoveGraceOver(id) /\ UNCHANGED <<viewer, fuel>>
Message1 == HandleMessage /\ UNCHANGED fuel
Resize1(id) == Resized(id) /\ UNCHANGED fuel
Redraw1(id) == RedrawRequested(id) /\ UNCHANGED fuel
Flush == FlushDue /\ UNCHANGED fuel
Leave == GraceOver /\ UNCHANGED fuel

Next ==
    \/ Open \/ Message1 \/ HandleInput \/ Flush \/ Leave
    \/ \E id \in Ids : \/ Guest(id) \/ User(id) \/ Answer(id) \/ MoveGrace(id)
                       \/ Resize1(id) \/ Redraw1(id)

\* Both event loops keep running, deadlines pass, and the application acts
\* on what it is asked.
Fairness ==
    /\ WF_vars(Message1) /\ WF_vars(HandleInput) /\ WF_vars(Flush)
    /\ \A id \in Ids : WF_vars(Answer(id)) /\ WF_vars(Resize1(id)) /\ WF_vars(Redraw1(id))

Spec == Init /\ [][Next]_vars /\ Fairness

-----------------------------------------------------------------------------
TypeOK == ToplevelsTypeOK /\ ViewerTypeOK /\ fuel \in 0 .. Fuel

\* Nothing is on its way and nothing is due.
Quiet ==
    /\ s2c = <<>> /\ c2s = <<>>
    /\ pending_fullscreen_exit_resyncs \cup pending_host_resize_resyncs = {}
    /\ \A id \in Ids :
          /\ osq[id] = <<>> /\ pending_resizes[id] = None
          /\ windows[id] # None => ~windows[id].due

\* When everything has settled, an application that is fullscreen has a host
\* window that is, and with the default options a host window the viewer made
\* fullscreen has an application that is.  (With the other options a
\* fullscreen application can be maximized, which is not announced.)
ModesAgree ==
    Quiet /\ ~exited =>
        \A id \in Ids : windows[id] # None =>
            /\ Fullscreen(windows[id]) => IsWindowFullscreen(view[id])
            /\ host_chrome_enabled /\ view[id].fs = "simple" => Fullscreen(windows[id])

\* last_host_fullscreen is the state of a window whose Resized events have
\* all been handled, unless it is in macOS's own fullscreen: otherwise the
\* next resize would be taken for the user's toggle and sent to the guest.
LastInStep ==
    \A id \in Ids : view[id] # None /\ osq[id] = <<>> /\ view[id].fs # "native" =>
        view[id].last = IsWindowFullscreen(view[id])

\* Once user and application rest, viewer and compositor stop answering each
\* other: no resize or mode change is echoed for ever.
Settles == <>[](exited \/ Quiet)

=============================================================================
