------------------------------ MODULE Geometry ------------------------------
(***************************************************************************)
(* The pure window geometry of the viewer (viewer/move_resize.rs,          *)
(* viewer/geometry.rs, frame.rs: aspect_fit_rect), in whole grid units.    *)
(* A span is an interval of one axis, a rectangle a span for each axis, a  *)
(* direction the set of edges it moves.                                    *)
(***************************************************************************)
EXTENDS Integers

Low(x, y) == IF x < y THEN x ELSE y
High(x, y) == IF x > y THEN x ELSE y

Span(lo, hi) == [lo |-> lo, hi |-> hi]
Length(s) == s.hi - s.lo
Rect(x, y) == [x |-> x, y |-> y]
Point(x, y) == [x |-> x, y |-> y]
Origin(r) == Point(r.x.lo, r.y.lo)
At(origin, r) == Rect(Span(origin.x, origin.x + Length(r.x)),
                      Span(origin.y, origin.y + Length(r.y)))
Plus(p, q) == Point(p.x + q.x, p.y + q.y)
Minus(p, q) == Point(p.x - q.x, p.y - q.y)

\* resize_direction_at, for one axis: the low edge wins where both are near.
EdgeAt(pos, length, border, low, high) ==
    IF pos <= border THEN {low} ELSE IF pos >= length - border THEN {high} ELSE {}

ResizeDirectionAt(pos, r, border) ==
    LET near == Low(border, Low(Length(r.x) \div 2, Length(r.y) \div 2))
    IN  EdgeAt(pos.x, Length(r.x), near, "west", "east")
        \cup EdgeAt(pos.y, Length(r.y), near, "north", "south")

\* apply_resize_direction.
ApplyResizeDirection(start, direction, cursor) ==
    Rect(Span(IF "west" \in direction THEN cursor.x ELSE start.x.lo,
              IF "east" \in direction THEN cursor.x ELSE start.x.hi),
         Span(IF "north" \in direction THEN cursor.y ELSE start.y.lo,
              IF "south" \in direction THEN cursor.y ELSE start.y.hi))

\* Mutant: a span too short always grows at its high edge.
ClampSpanHigh(s, low_moves, min) ==
    IF Length(s) >= min THEN s ELSE Span(s.lo, s.lo + min)

\* clamp_manual_resize, for one axis: the edge that moves gives way.
ClampSpan(s, low_moves, min) ==
    IF Length(s) >= min THEN s
    ELSE IF low_moves THEN Span(s.hi - min, s.hi)
    ELSE Span(s.lo, s.lo + min)

ClampManualResize(r, direction, min) ==
    Rect(ClampSpan(r.x, "west" \in direction, min),
         ClampSpan(r.y, "north" \in direction, min))

\* compute_manual_move_outer: anchored at the press, not at the last move.
ManualMoveOuter(press_outer, start_cursor, cursor) ==
    Plus(press_outer, Minus(cursor, start_cursor))

-----------------------------------------------------------------------------
(* Tiles at the edges of the screen.                                       *)

\* cursor_snap_edges.
CursorSnapEdges(cursor, monitor, distance) ==
    {e \in {"west"} : cursor.x <= monitor.x.lo + distance}
    \cup {e \in {"east"} : cursor.x >= monitor.x.hi - distance}
    \cup {e \in {"north"} : cursor.y <= monitor.y.lo + distance}
    \cup {e \in {"south"} : cursor.y >= monitor.y.hi - distance}

\* Half of a span, but no less than the smallest window.
Half(s, min) == High(Length(s) \div 2, Low(min, Length(s)))
LowHalf(s, min) == Span(s.lo, s.lo + Half(s, min))
HighHalf(s, min) ==
    Span(s.lo + Half(s, min), s.lo + Half(s, min) + High(Length(s) - Half(s, min), 1))

\* tile_rect_for_edges: the top edge alone is the whole screen.
TileRectForEdges(monitor, edges, min) ==
    LET side == "west" \in edges \/ "east" \in edges
    IN  Rect(CASE edges \cap {"west", "east"} = {"west"} -> LowHalf(monitor.x, min)
               [] edges \cap {"west", "east"} = {"east"} -> HighHalf(monitor.x, min)
               [] OTHER -> monitor.x,
             CASE edges \cap {"north", "south"} = {"north"} /\ side -> LowHalf(monitor.y, min)
               [] edges \cap {"north", "south"} = {"south"} -> HighHalf(monitor.y, min)
               [] OTHER -> monitor.y)

\* cursor_left_right_tile_rect, below the menu bar; the side is one edge.
LeftRightTileRect(monitor, side, inset, min) ==
    Rect(IF side = "west" THEN LowHalf(monitor.x, min) ELSE HighHalf(monitor.x, min),
         Span(monitor.y.lo + inset, High(monitor.y.hi, monitor.y.lo + inset + 1)))

-----------------------------------------------------------------------------
(* From the host window to the guest's frame.                              *)

Clamp(x, lo, hi) == High(lo, Low(x, hi))

\* aspect_fit_rect: the source scaled to fit and centred.
AspectFitRect(src, dst) ==
    LET wide == src.x * dst.y > dst.x * src.y
        w == IF wide THEN dst.x
             ELSE Low(High((dst.y * src.x + src.y \div 2) \div src.y, 1), dst.x)
        h == IF wide THEN Low(High((dst.x * src.y + src.x \div 2) \div src.x, 1), dst.y)
             ELSE dst.y
    IN  Rect(Span((dst.x - w) \div 2, (dst.x - w) \div 2 + w),
             Span((dst.y - h) \div 2, (dst.y - h) \div 2 + h))

\* cursor_to_frame_coords, for one axis: clamped to the letterbox, then scaled.
FrameCoord(pos, fit, content, frame) ==
    LET local == Clamp(pos - fit.lo, 0, Length(fit) - 1)
    IN  Clamp(content.lo + (local * Length(content)) \div Length(fit), 0, frame - 1)

CursorToFrame(pos, inner, content, frame) ==
    LET fit == AspectFitRect(Point(Length(content.x), Length(content.y)), inner)
    IN  Point(FrameCoord(pos.x, fit.x, content.x, frame.x),
              FrameCoord(pos.y, fit.y, content.y, frame.y))

=============================================================================
