-------------------------------- MODULE FileGet --------------------------------
(***************************************************************************)
(* What "get" promises the user of one client, with no packets, polls or   *)
(* acknowledgements: the first get, while nothing is lost and nobody else  *)
(* is there, takes the server's file block by block; it is done only when  *)
(* the file is whole, and what it has left is not touched any more.  A get *)
(* that fails may leave any prefix.  Of a later get nothing is promised,   *)
(* for what the first one left on the way may be taken for its answer.     *)
(***************************************************************************)
EXTENDS Integers, Sequences

CONSTANTS Files, TinyBlocks, Garbage

VARIABLES
    status,     \* "idle", "getting", "done", "failed" or "unpromised"
    content,    \* the server's file
    got         \* what the client has of it

vars == <<status, content, got>>

Init ==
    /\ status = "idle"
    /\ content = <<>>
    /\ got = <<>>

Request(f) ==
    /\ status = "idle"
    /\ status' = "getting"
    /\ content' = f
    /\ got' = <<>>

\* A get ends at any time, but only a whole file ends it well.
Goes == status' \in {"getting", "failed", "done"}
WholeWhenDone == status' = "done" => Len(got') = Len(content)

\* The length of a tiny block may be misread.
Receive ==
    /\ status = "getting"
    /\ Len(got) < Len(content)
    /\ LET next == content[Len(got) + 1]
       IN  \/ got' = Append(got, next)
           \/ next \in TinyBlocks /\ got' = Append(got, Garbage)
    /\ Goes
    /\ WholeWhenDone
    /\ UNCHANGED content

Return ==
    /\ status = "getting"
    /\ Goes
    /\ WholeWhenDone
    /\ UNCHANGED <<content, got>>

NothingPromised == status' = "unpromised"

Next ==
    \/ \E f \in Files : Request(f)
    \/ Receive
    \/ Return
    \/ NothingPromised

Spec == Init /\ [][Next]_vars
=============================================================================
