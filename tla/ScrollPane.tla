------------------------------ MODULE ScrollPane ------------------------------
(***************************************************************************)
(* A pane of scrolled text (src/components/scroll_pane): the diff of the   *)
(* Changes panel (FileList), the diff and the message of an open commit    *)
(* (CommitDetail).  Only the rows of the viewport are built, from an index *)
(* of the text that is kept between frames; a frame must show what         *)
(* wrapping the whole text would show.                                     *)
(*                                                                         *)
(* Abstractions.  A line is its length in cells and a wrapped row its      *)
(* place <<line, row>>; a press or a drag is a row of the pane's bar.      *)
(* Byte offsets, styles and wide characters are left out.                  *)
(***************************************************************************)
EXTENDS Naturals, SequencesExt, Panels

CONSTANTS
  PaneKinds,     \* the panes: "changes", "commit" (diffs) and "message"
  Texts,         \* texts a pane may be given
  PaneSizes,     \* sizes of the bordered pane: [w, h]
  U16Max,        \* u16::MAX, the deepest offset
  ChunkRows,     \* CHUNK_ROWS
  HugeLineRows,  \* HUGE_LINE_ROWS
  MaxPaneSteps   \* bound: inputs, resizes and loads between which frames are drawn

\* What the code's constants fulfil.
PaneBounds ==
  /\ {HugeLineRows, ChunkRows, U16Max} \subseteq Nat
  /\ 0 < HugeLineRows /\ HugeLineRows <= ChunkRows /\ ChunkRows <= U16Max
  /\ PaneKinds \subseteq {"changes", "commit", "message"}
  /\ Texts \subseteq Seq(Nat) /\ PaneSizes \subseteq [w : Nat, h : Nat] /\ MaxPaneSteps \in Nat
  /\ None \notin Nat \cup Texts /\ None \notin [seen : Nat, total : Nat]
  /\ None \notin [cum : Seq(Nat), kept : Seq(Nat \cup {None}), width : Nat]

VARIABLES
  paneKind,
  text,       \* diff_content or message: None or a sequence of lengths
  version,    \* diff_content_version
  scroll,     \* diff_scroll or msg_scroll
  paneSize,   \* the room the next frame gives the pane
  area,       \* the panel's diff_area or msg_area: the pane as last drawn
  msgDrawn,   \* the message of this commit was drawn: its own msg_area is set
  cache,      \* diff_rows or msg_rows
  grab,       \* dragging_scrollbar or scrubbing: the layout at the press
  lastFrame,  \* the last frame of the pane
  fresh,      \* history: the pane was opened and not scrolled since
  sound,      \* history: no debug_assert failed and no subtraction underflowed
  paneSteps

paneVars == <<paneKind, text, version, scroll, paneSize, area, msgDrawn, cache, grab, lastFrame, fresh, sound, paneSteps>>

Least(a, b) == IF a < b THEN a ELSE b
Most(a, b) == IF a < b THEN b ELSE a
Less(a, b) == IF a > b THEN a - b ELSE 0
DivUp(a, b) == (a + b - 1) \div b

NoArea == [w |-> 0, h |-> 0]
Inner(pane) == [w |-> Less(pane.w, 2), h |-> Less(pane.h, 2)]

-----------------------------------------------------------------------------
(* ScrollGauge.                                                            *)

Gauge(total, visible, offset) ==
  LET bounded == Least(total, U16Max + visible)
  IN [total |-> bounded, visible |-> visible, offset |-> Least(offset, Least(Less(bounded, visible), U16Max))]

MaxOffset(gauge) == Least(Less(gauge.total, gauge.visible), U16Max)

\* The label of the title: what was seen of the whole, when it scrolls at all.
Label(gauge) ==
  IF MaxOffset(gauge) > 0
  THEN [seen |-> Least(gauge.offset + gauge.visible, gauge.total), total |-> gauge.total] ELSE None

\* Where the thumb stands in a bar of track rows.
ThumbRange(gauge, track) ==
  LET scrolls == MaxOffset(gauge)
      cap == IF scrolls > 0 THEN Most(Less(track, 1), 1) ELSE track
      len == Least(Most(DivUp(gauge.visible * track, Most(gauge.total, 1)), 1), cap)
      start == IF scrolls = 0 THEN 0 ELSE Least(DivUp(gauge.offset * (track - len), scrolls), track - len)
  IN IF track = 0 THEN [start |-> 0, len |-> 0] ELSE [start |-> start, len |-> len]

\* The offset a pointer on a row of the bar selects, rounded to the nearest.
TrackOffset(gauge, track, row) ==
  LET last == Less(track, 1)
  IN IF last = 0 THEN 0 ELSE (Least(row, last) * MaxOffset(gauge) + last \div 2) \div last

-----------------------------------------------------------------------------
(* Wrapping a text.                                                        *)

RowsOf(length, width) == IF width = 0 THEN 0 ELSE Most(DivUp(length, width), 1)

\* How many rows the first i lines have.
RowsAbove(lines, width) ==
  LET above[i \in 0..Len(lines)] == IF i = 0 THEN 0 ELSE above[i - 1] + RowsOf(lines[i], width)
  IN above

WrappedRows(lines, width) ==
  IF width = 0 THEN 0 ELSE IF lines = <<>> THEN 1 ELSE RowsAbove(lines, width)[Len(lines)]

\* How many rows of a line of count rows the chunked render collects: a chunk
\* starts no deeper than U16Max, and there it takes all the rest at once.
RowsExact(count, wanted, viewport) ==
  LET limit == Least(wanted, U16Max + Most(viewport, ChunkRows))
      collected[n \in 0..limit] ==
        LET start == Least(n, U16Max)
            take == IF start = U16Max THEN limit - start ELSE Least(limit - start, ChunkRows)
            painted == Least(take, Less(count, start))
        IN IF n = limit THEN n ELSE IF painted = 0 THEN start ELSE collected[start + painted]
  IN collected[0]

\* RowIndex: cum[i] rows lie above line i, and kept[i] rows of a huge line are
\* wrapped beforehand, enough for a viewport below the deepest offset.
RowIndex(lines, width, viewport) ==
  LET count(i) == RowsOf(lines[i], width)
      above == RowsAbove(lines, width)
  IN [cum |-> IF lines = <<>> THEN <<0, 1>> ELSE [i \in 1..(Len(lines) + 1) |-> above[i - 1]],
      kept |-> [i \in DOMAIN lines |->
                  IF count(i) >= HugeLineRows THEN RowsExact(count(i), count(i), viewport) ELSE None],
      width |-> width]

Total(index) == Last(index.cum)

\* The lines under a viewport of rows rows, and the rows of the first to skip.
WindowRange(index, first, rows) ==
  LET row == Least(first, Less(Total(index), 1))
      start == Less(Cardinality({i \in DOMAIN index.cum : index.cum[i] <= row}), 1)
      end == Least(Most(Cardinality({i \in DOMAIN index.cum : index.cum[i] < row + rows}), start + 1),
                   Len(index.cum) - 1)
  IN [lines |-> [k \in 1..(end - start) |-> start + k], skip |-> row - index.cum[start + 1]]

\* Rows from + 1 to to of line i.
Slice(i, from, to) == [k \in 1..Less(to, from) |-> <<i, from + k>>]

\* What line i adds to the rows of a window: acc is what the lines above gave,
\* the budget left and the rows of the line to skip.
AddLine(lines, index, acc, i) ==
  LET kept == index.kept[i]
      count == RowsOf(lines[i], index.width)
      take == Least(Less(count, acc.skip), acc.budget)
  IN IF acc.budget = 0 THEN acc
     ELSE IF kept # None
     THEN [rows |-> acc.rows \o Slice(i, acc.skip, Least(acc.skip + acc.budget, kept)),
           budget |-> Less(acc.budget, Less(kept, acc.skip)), skip |-> 0,
           sound |-> acc.sound /\ acc.skip <= kept]
     ELSE [rows |-> acc.rows \o Slice(i, acc.skip, RowsExact(count, acc.skip + take, ChunkRows)),
           budget |-> acc.budget - take, skip |-> 0, sound |-> acc.sound]

\* window_lines: the rows of the viewport.
WindowLines(lines, index, offset, height) ==
  LET window == WindowRange(index, offset, height)
      added[k \in 0..Len(window.lines)] ==
        IF k = 0 THEN [rows |-> <<>>, budget |-> height, skip |-> window.skip, sound |-> TRUE]
        ELSE AddLine(lines, index, added[k - 1], window.lines[k])
  IN IF lines = <<>> THEN [rows |-> << <<0, 1>> >>, sound |-> TRUE] ELSE added[Len(window.lines)]

-----------------------------------------------------------------------------
(* PaneRows: the index at the width the bar leaves, and the counts that    *)
(* decide about the bar.                                                   *)

PaneRows(lines, width, visible) ==
  LET viewport == Most(visible, ChunkRows)
      choose(full, narrow) ==
        [index |-> IF narrow # None /\ Total(narrow) > visible THEN narrow ELSE RowIndex(lines, width, viewport),
         full |-> full, narrow |-> IF narrow = None THEN None ELSE Total(narrow), viewport |-> viewport]
      counted(full) ==
        choose(full, IF full > visible /\ width >= 2 THEN RowIndex(lines, width - 1, viewport) ELSE None)
  IN counted(WrappedRows(lines, width))

HasBar(rows, inner) ==
  rows.full > inner.h /\ rows.narrow # None /\ rows.narrow > inner.h /\ inner.w >= 2

\* As if the index were built again only when the bar comes or goes.
MutantPaneRetarget(rows, lines, inner) ==
  LET content == IF HasBar(rows, inner) THEN inner.w - 1 ELSE inner.w
  IN IF rows.index.width = content THEN rows
     ELSE [rows EXCEPT !.index = RowIndex(lines, content, rows.viewport)]

\* retarget: the same text and width at another height.
PaneRetarget(rows, lines, inner) ==
  LET viewport == Most(rows.viewport, inner.h)
      content(counted) == IF HasBar(counted, inner) THEN inner.w - 1 ELSE inner.w
      aimed(counted, width) ==
        IF rows.index.width # width \/ inner.h > rows.viewport
        THEN [counted EXCEPT !.index = RowIndex(lines, width, viewport)] ELSE counted
      kept(counted) == aimed(counted, content(counted))
      with(index, narrow) == [index |-> index, full |-> rows.full, narrow |-> narrow, viewport |-> viewport]
      counts(index) ==
        IF Total(index) > inner.h THEN with(index, Total(index)) ELSE kept(with(rows.index, Total(index)))
  IN IF rows.full > inner.h /\ inner.w >= 2 /\ rows.narrow = None
     THEN counts(RowIndex(lines, inner.w - 1, viewport))
     ELSE kept([rows EXCEPT !.viewport = viewport])

\* Whether ensure_diff_rows and ensure_msg_rows find the pane in their cache: a
\* diff's is of one version and width, a message's of one width.
DiffHit(pane) == cache # None /\ cache.version = version /\ cache.width = Inner(pane).w
MessageHit(pane) == cache # None /\ cache.width = Inner(pane).w
EnsuredRows(pane) ==
  [version |-> version, width |-> Inner(pane).w,
   rows |-> IF IF paneKind = "message" THEN MessageHit(pane) ELSE DiffHit(pane)
            THEN PaneRetarget(cache.rows, text, Inner(pane))
            ELSE PaneRows(text, Inner(pane).w, Inner(pane).h)]

\* pane_scroll_layout, and whether its debug_asserts hold.
ScrollLayout(pane, rows, offset) ==
  LET inner == Inner(pane)
      bar == HasBar(rows, inner)
      content == IF bar THEN inner.w - 1 ELSE inner.w
  IN [bar |-> bar, height |-> inner.h, content |-> content, gauge |-> Gauge(Total(rows.index), inner.h, offset),
      sound |-> /\ rows.full <= inner.h \/ inner.w < 2 \/ rows.narrow # None
                /\ rows.index.width = content]

-----------------------------------------------------------------------------
PaneInit ==
  /\ paneKind \in PaneKinds
  /\ text \in IF paneKind = "message" THEN Texts ELSE {None}
  /\ version = 0 /\ scroll = 0 /\ paneSize \in PaneSizes
  /\ area = NoArea /\ msgDrawn = FALSE /\ cache = None /\ grab = None /\ lastFrame = None
  /\ fresh = TRUE /\ sound = TRUE /\ paneSteps = MaxPaneSteps

Spend == paneSteps > 0 /\ paneSteps' = paneSteps - 1

\* A diff comes in; the Changes panel keeps its place in a text it replaces.
Replace(next, offset) ==
  /\ text' = next /\ version' = version + 1 /\ scroll' = offset /\ fresh' = (fresh \/ offset = 0)
  /\ UNCHANGED <<paneKind, paneSize, area, msgDrawn, cache, grab, lastFrame, sound>>
SetDiff == Spend /\ paneKind = "changes" /\ \E next \in Texts : Replace(next, IF text = None THEN 0 ELSE scroll)
SetCommitDiff == Spend /\ paneKind = "commit" /\ \E next \in Texts : Replace(next, 0)

\* Esc in the Changes panel and a search among a commit's files drop the diff;
\* opening another file of the Changes panel only takes the pane to the top.
Top(next) ==
  /\ Spend /\ text' = next /\ scroll' = 0 /\ fresh' = TRUE
  /\ UNCHANGED <<paneKind, version, paneSize, area, msgDrawn, cache, grab, lastFrame, sound>>
DropDiff == paneKind = "changes" /\ text # None /\ Top(None)
SearchFiles == paneKind = "commit" /\ text # None /\ Top(None)
OpenFile == paneKind = "changes" /\ Top(text)

\* show_commit_files: the detail of another commit; a grab stays.
OpenCommit ==
  /\ Spend /\ paneKind # "changes"
  /\ text' \in IF paneKind = "message" THEN Texts ELSE {None}
  /\ version' = 0 /\ scroll' = 0 /\ cache' = None /\ fresh' = TRUE
  /\ msgDrawn' = FALSE
  /\ UNCHANGED <<paneKind, paneSize, area, grab, lastFrame, sound>>

PaneResize ==
  /\ Spend /\ paneSize' \in PaneSizes \ {paneSize}
  /\ UNCHANGED <<paneKind, text, version, scroll, area, msgDrawn, cache, grab, lastFrame, fresh, sound>>

\* A key or the wheel moves the pane by a row, as it was last drawn; a commit's
\* diff keeps the keyboard when its text is dropped.
PaneMoves == {Least(scroll + 1, U16Max), Less(scroll, 1)}
Scrolled(next) ==
  LET keeps(ensured, layout) ==
        scroll' = layout.gauge.offset /\ cache' = ensured /\ sound' = (sound /\ layout.sound)
      ensures(ensured) == keeps(ensured, ScrollLayout(area, ensured.rows, next))
  IN ensures(EnsuredRows(area))
Step ==
  /\ Spend /\ fresh' = FALSE
  /\ UNCHANGED <<paneKind, text, version, paneSize, area, msgDrawn, grab, lastFrame>>
ClampDiffScroll == paneKind = "changes" /\ text # None /\ Step /\ \E next \in PaneMoves : Scrolled(next)
StepDiffScroll ==
  /\ paneKind = "commit" /\ Step
  /\ IF text = None THEN scroll' = 0 /\ UNCHANGED <<cache, sound>> ELSE \E next \in PaneMoves : Scrolled(next)
StepMsgScroll == paneKind = "message" /\ msgDrawn /\ Step /\ \E next \in PaneMoves : Scrolled(next)

\* The layout of the pane as last drawn, which a press measures anew.
PaneLayout(ensured) == ScrollLayout(area, ensured.rows, 0)

\* A press on the bar jumps and grabs it; one elsewhere ends a grab.
Press(row) ==
  LET grabs(layout, onBar) ==
        /\ sound' = (sound /\ layout.sound)
        /\ grab' = IF onBar THEN layout ELSE None
        /\ scroll' = IF onBar THEN TrackOffset(layout.gauge, layout.height, row) ELSE scroll
        /\ fresh' = (fresh /\ ~onBar)
      meets(layout) == grabs(layout, layout.bar /\ row < layout.height)
      ensures(ensured) == cache' = ensured /\ meets(PaneLayout(ensured))
  IN /\ Spend /\ text # None
     /\ ensures(EnsuredRows(area))
     /\ UNCHANGED <<paneKind, text, version, paneSize, area, msgDrawn, lastFrame>>
PressDiff(row) == paneKind = "changes" /\ Press(row)
PressDetail(row) == paneKind # "changes" /\ Press(row)

\* A drag goes by the layout of its press, whatever was loaded since.
PaneDrag(row) ==
  /\ Spend /\ grab # None
  /\ scroll' = TrackOffset(grab.gauge, grab.height, row)
  /\ fresh' = FALSE
  /\ UNCHANGED <<paneKind, text, version, paneSize, area, msgDrawn, cache, grab, lastFrame, sound>>

PaneRelease ==
  /\ grab # None /\ grab' = None
  /\ UNCHANGED <<paneKind, text, version, scroll, paneSize, area, msgDrawn, cache, lastFrame, fresh, sound, paneSteps>>

\* render_window_pane: the window of the text, the bar and the counter.
Frame(layout, rows) ==
  [text |-> text, inner |-> Inner(paneSize), asked |-> scroll, fresh |-> fresh,
   bar |-> layout.bar, gauge |-> layout.gauge, label |-> Label(layout.gauge),
   thumb |-> ThumbRange(layout.gauge, layout.height), rows |-> SubSeq(rows, 1, Least(Len(rows), layout.height))]

\* A pane with a text is laid out for the room there is; without one there is
\* no pane.
PaneDrawn ==
  LET paints(layout, window) ==
        /\ scroll' = layout.gauge.offset
        /\ sound' = (sound /\ layout.sound /\ window.sound)
        /\ lastFrame' = Frame(layout, window.rows)
      lays(ensured, layout) ==
        paints(layout, WindowLines(text, ensured.rows.index, layout.gauge.offset, layout.height))
      ensures(ensured) ==
        /\ cache' = ensured
        /\ lays(ensured, ScrollLayout(paneSize, ensured.rows, scroll))
  IN /\ ensures(EnsuredRows(paneSize))
     /\ area' = paneSize /\ msgDrawn' = (paneKind = "message")
     /\ UNCHANGED <<paneKind, text, version, paneSize, grab, fresh, paneSteps>>
DrawDiff == paneKind = "changes" /\ text # None /\ PaneDrawn
DrawCommitDiff == paneKind = "commit" /\ text # None /\ PaneDrawn
DrawMessage == paneKind = "message" /\ PaneDrawn
DrawNone ==
  /\ text = None /\ area' = NoArea /\ lastFrame' = None
  /\ UNCHANGED <<paneKind, text, version, scroll, paneSize, msgDrawn, cache, grab, fresh, sound, paneSteps>>

\* Any row of a pane.
TrackRows == UNION {0..pane.h : pane \in PaneSizes}

PaneNext ==
  \/ SetDiff \/ SetCommitDiff \/ DropDiff \/ SearchFiles \/ OpenFile \/ OpenCommit \/ PaneResize
  \/ ClampDiffScroll \/ StepDiffScroll \/ StepMsgScroll \/ PaneRelease
  \/ DrawDiff \/ DrawCommitDiff \/ DrawMessage \/ DrawNone
  \/ \E row \in TrackRows : PressDiff(row) \/ PressDetail(row) \/ PaneDrag(row)

PaneSpec == PaneInit /\ [][PaneNext]_paneVars

-----------------------------------------------------------------------------
PaneTypeOK ==
  /\ paneKind \in PaneKinds /\ text \in Texts \cup {None}
  /\ version \in 0..MaxPaneSteps /\ scroll \in 0..U16Max
  /\ paneSize \in PaneSizes /\ area \in PaneSizes \cup {NoArea}
  /\ cache = None \/ (cache.version \in 0..MaxPaneSteps /\ cache.width \in {Inner(s).w : s \in PaneSizes \cup {NoArea}})
  /\ grab = None \/ grab.bar
  /\ msgDrawn \in BOOLEAN /\ fresh \in BOOLEAN /\ sound \in BOOLEAN /\ paneSteps \in 0..MaxPaneSteps

\* ScrollLayout::for_text: the layout that wrapping the whole text gives.
Reference(lines, inner, offset) ==
  LET wide == Gauge(WrappedRows(lines, inner.w), inner.h, offset)
      narrow == Gauge(WrappedRows(lines, inner.w - 1), inner.h, offset)
      bar == inner.w >= 2 /\ MaxOffset(wide) > 0 /\ MaxOffset(narrow) > 0
  IN [bar |-> bar, gauge |-> IF bar THEN narrow ELSE wide, content |-> IF bar THEN inner.w - 1 ELSE inner.w]

\* Every row of the text, from top to end.
WholeText(lines, width) ==
  IF width = 0 THEN <<>> ELSE IF lines = <<>> THEN << <<0, 1>> >>
  ELSE FlattenSeq([i \in DOMAIN lines |-> [r \in 1..RowsOf(lines[i], width) |-> <<i, r>>]])

\* What a frame owes the text it was drawn of.
FrameShows(frame) ==
  LET reference == Reference(frame.text, frame.inner, frame.asked)
      whole == WholeText(frame.text, reference.content)
      top == frame.gauge.offset
      track == frame.inner.h
      last == MaxOffset(frame.gauge)
  IN /\ frame.inner.w > 0 =>
          /\ frame.bar = reference.bar /\ frame.gauge = reference.gauge
          /\ frame.rows = SubSeq(whole, top + 1, Least(top + frame.inner.h, Len(whole)))
          /\ frame.label = None <=> Len(whole) <= frame.inner.h
     /\ frame.fresh => top = 0
     /\ frame.bar /\ track > 1 =>
          /\ TrackOffset(frame.gauge, track, 0) = 0
          /\ TrackOffset(frame.gauge, track, track - 1) = last
          /\ (frame.thumb.start = 0) = (top = 0)
          /\ top = last => frame.thumb.start + frame.thumb.len = track

\* The frame of a pane shows, at the offset asked for or the last one there is,
\* the very rows a paragraph of the whole text shows (render_pane, the reference
\* of the differential tests), beside the same bar and count, whatever was
\* loaded, resized, scrolled and kept in the cache before; no cached count is of
\* another size (the debug_asserts of pane_scroll_layout) and no cached line too
\* short for the window (window_lines).  A text just opened shows from its first
\* row; the ends of the bar are the ends of the text, and only the top of the
\* text puts the thumb at the top.
PaneShowsText == sound /\ (lastFrame # None => FrameShows(lastFrame))
=============================================================================
