------------------------------- MODULE MCChats -------------------------------
(***************************************************************************)
(* Instance of ChatPrefs: one device of the author, two of the reader. A   *)
(* behaviour takes one of the loads below, each a mix of operations that   *)
(* can get into each other's way.                                          *)
(***************************************************************************)
EXTENDS ChatPrefs, TLC

CONSTANTS a, b1, b2, p1, p2

Load(ops, devs, synced) == [ops |-> ops, devs |-> devs, synced |-> synced]

NineLoads ==
    {\* edits and deletions, of two handlers at once, with a lost connection
     Load({"edit", "delete", "drop"}, {a, b1}, {a, b1}),
     \* ... against a page the reader is just getting
     Load({"edit", "delete"}, {a, b1}, {a}),
     \* the receipt of the reader, and the author's first page
     Load({"edit", "read", "drop", "refuse"}, {a, b1}, {b1}),
     \* two devices of the reader react
     Load({"react", "drop", "refuse"}, {b1, b2}, {b1}),
     \* one reacts while it gets its first page
     Load({"react", "drop", "refuse"}, {a, b1}, {a}),
     \* two devices mute and archive
     Load({"set", "load", "drop", "refuse"}, {b1, b2}, {b1, b2}),
     \* two devices clear the chat
     Load({"clear", "load", "drop", "refuse"}, {b1, b2}, {b1}),
     \* ... while its messages are being stored
     Load({"send", "clear"}, {b1, b2}, {}),
     \* ... and what comes back has had a reaction
     Load({"send", "react", "clear", "drop"}, {b1}, {})}

Symmetry == Permutations(Procs)
=============================================================================
