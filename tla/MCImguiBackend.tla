--------------------------- MODULE MCImguiBackend ----------------------------
(* Frames for ImguiBackend, with a vertex of two units and a page of six.  *)
EXTENDS ImguiBackend

Cmd(visible, tex, elems, idxOffset, vtxOffset) ==
  [visible |-> visible, tex |-> tex, elems |-> elems, idxOffset |-> idxOffset, vtxOffset |-> vtxOffset]
Frame(lists) == [valid |-> TRUE, lists |-> lists]

\* Two vertices and three indices: a page each.
Small == Frame(<<[vtx |-> <<"a", "b">>, idx |-> <<0, 1, 0>>, cmds |-> <<Cmd(TRUE, "font", 3, 0, 0)>>]>>)

\* Four vertices in two lists: more than a page, but fewer vertices than a page has units.
Wide == Frame(<<
  [vtx |-> <<"c", "d">>, idx |-> <<1, 0>>, cmds |-> <<Cmd(TRUE, "font", 1, 0, 0), Cmd(TRUE, "image", 1, 1, 0)>>],
  [vtx |-> <<"e", "f">>, idx |-> <<0, 1>>, cmds |-> <<Cmd(FALSE, "font", 1, 0, 0), Cmd(TRUE, "image", 1, 1, 0)>>]>>)

\* Seven indices, the last of which are for vertices behind an offset.
Long == Frame(<<
  [vtx |-> <<"g">>, idx |-> <<0>>, cmds |-> <<Cmd(TRUE, "image", 1, 0, 0)>>],
  [vtx |-> <<"h", "i">>, idx |-> <<0, 0, 0, 1, 0, 0>>,
   cmds |-> <<Cmd(TRUE, "image", 2, 0, 0), Cmd(TRUE, "font", 2, 2, 0), Cmd(TRUE, "font", 2, 4, 1)>>]>>)

MCFrames == {Small, Wide, Long, Frame(<<>>), [Small EXCEPT !.valid = FALSE]}

=============================================================================
