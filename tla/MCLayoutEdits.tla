---------------------------- MODULE MCLayoutEdits ---------------------------
(* A window with a terminal and an editor, next to one that lends its editor. *)
EXTENDS LayoutEdits

SurfaceSet == {Leaf("tty", Own), Leaf("code", Own), Leaf("code", "other")}
AvailableKinds == {"tty", "code"}
UnevenShares == {<< <<1, 4>>, <<3, 4>> >>, << <<1, 6>>, <<1, 2>>, <<1, 3>> >>}

=============================================================================
