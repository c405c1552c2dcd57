-------------------------------- MODULE Stream --------------------------------
(***************************************************************************)
(* What a stream socket of UDT promises to the two programs that use it:   *)
(* the reader gets what the writer wrote, once and in order, and is told   *)
(* of the end before it has read everything only if the stream was cut.    *)
(***************************************************************************)
EXTENDS Naturals, Sequences

CONSTANT Blocks     \* what may be written

VARIABLES
    queue,          \* written and not yet read
    out,            \* read
    status,         \* "open", "closed" by the writer in good order, or "cut"
    eof             \* the reader has been told that the connection is gone

streamVars == <<queue, out, status, eof>>

StreamInit == queue = <<>> /\ out = <<>> /\ status = "open" /\ eof = FALSE

\* The writer learns of a cut only later.
Write(b) ==
    /\ status # "closed"
    /\ queue' = Append(queue, b)
    /\ UNCHANGED <<out, status, eof>>

Read ==
    /\ queue # <<>>
    /\ ~eof
    /\ out' = Append(out, Head(queue))
    /\ queue' = Tail(queue)
    /\ UNCHANGED <<status, eof>>

End ==
    /\ status = "cut" \/ (status = "closed" /\ queue = <<>>)
    /\ eof' = TRUE
    /\ UNCHANGED <<queue, out, status>>

Close == status = "open" /\ status' = "closed" /\ UNCHANGED <<queue, out, eof>>

Cut == status # "cut" /\ status' = "cut" /\ UNCHANGED <<queue, out, eof>>

StreamNext == (\E b \in Blocks : Write(b)) \/ Read \/ End \/ Close \/ Cut

StreamSpec == StreamInit /\ [][StreamNext]_streamVars
==============================================================================
