-------------------------------- MODULE FilePut --------------------------------
(***************************************************************************)
(* What "put" promises its user, with no packets, numbers or server loop:  *)
(* the remote file is emptied, then grows by the next block of the local   *)
(* one, and the put is done only when it is whole.  A put that fails may   *)
(* leave any prefix.  After a put whose end was never confirmed nothing is *)
(* promised any more: the program tells its user nothing of it, and the    *)
(* server may still be in it when the next one starts.  Nor is anything    *)
(* once somebody else puts: the server has one client at a time.           *)
(***************************************************************************)
EXTENDS Integers, Sequences, SequencesExt

CONSTANTS Names, Files

VARIABLES
    status,     \* "idle", "sending", "done", "failed" or "unpromised"
    target,     \* the remote name
    content,    \* the local file
    store       \* the remote files

vars == <<status, target, content, store>>

Init ==
    /\ status = "idle"
    /\ target \in Names
    /\ content = <<>>
    /\ store = [n \in Names |-> <<>>]

Request(n, f) ==
    /\ status \in {"idle", "done"}
    /\ status' = "sending"
    /\ target' = n
    /\ content' = f
    /\ UNCHANGED store

\* The server may be working still when the client has failed.
Working == status \in {"sending", "failed"}

Empty ==
    /\ Working
    /\ store' = [store EXCEPT ![target] = <<>>]
    /\ UNCHANGED <<status, target, content>>

StoreNext ==
    /\ Working
    /\ IsStrictPrefix(store[target], content)
    /\ store' = [store EXCEPT ![target] = Append(@, content[Len(@) + 1])]
    /\ UNCHANGED <<status, target, content>>

Finish ==
    /\ status = "sending"
    /\ store[target] = content
    /\ status' = "done"
    /\ UNCHANGED <<target, content, store>>

Stop ==
    /\ status = "sending"
    /\ status' \in {"failed", "unpromised"}
    /\ UNCHANGED <<target, content, store>>

\* Another user puts a file.
OthersPut ==
    /\ status' = "unpromised"
    /\ UNCHANGED <<target, content, store>>

NothingPromised == status = "unpromised" /\ status' = "unpromised"

Next ==
    \/ \E n \in Names, f \in Files : Request(n, f)
    \/ Empty
    \/ StoreNext
    \/ Finish
    \/ Stop
    \/ OthersPut
    \/ NothingPromised

Spec == Init /\ [][Next]_vars
=============================================================================
