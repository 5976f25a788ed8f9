---------------------------- MODULE MCManualEdits ----------------------------
(* Instance of ManualEdits for TLC: two elements of one page in two files, and *)
(* one of another page in the first of them.                                   *)
EXTENDS ManualEdits
CONSTANTS title, lead, footer, home, about, view1, view2
PageOfRef == (title :> home) @@ (lead :> home) @@ (footer :> about)
FileOfRef == (title :> view1) @@ (lead :> view2) @@ (footer :> view1)
==============================================================================
