-------------------------- MODULE ReliableStream --------------------------
(***************************************************************************)
(* What a stream promises to the two applications: the reader gets the     *)
(* bytes that were written, in order, and the end of the stream after the  *)
(* last of them.                                                           *)
(***************************************************************************)
EXTENDS Naturals

VARIABLES
    written,    \* bytes the writer handed to Write
    closed,     \* the writer called Close
    read,       \* bytes the reader got: 0 .. read - 1
    eof         \* the reader got io.EOF

vars == <<written, closed, read, eof>>

Init == written = 0 /\ closed = FALSE /\ read = 0 /\ eof = FALSE

Write ==
    /\ ~ closed
    /\ written' > written
    /\ UNCHANGED <<closed, read, eof>>

Close ==
    /\ closed' = TRUE
    /\ UNCHANGED <<written, read, eof>>

Read ==
    /\ ~ eof
    /\ read' \in read .. written
    /\ UNCHANGED <<written, closed, eof>>

End ==
    /\ closed
    /\ read = written
    /\ eof' = TRUE
    /\ UNCHANGED <<written, closed, read>>

Next == Write \/ Close \/ Read \/ End

Spec == Init /\ [][Next]_vars
==========================================================================
