------------------------- MODULE FileTransferRefinement -------------------------
(***************************************************************************)
(* The UDP File Transfer pair implements the promise of FilePut to a user  *)
(* who is alone as long as he is, on a network that keeps the order of     *)
(* datagrams.                                                              *)
(***************************************************************************)
EXTENDS FileTransferInvariant

CONSTANT User      \* one of the clients

ASSUME UserAssumption == User \in Clients

\* What the user can know of the put.
StatusOf(misled, at, count) ==
    IF misled THEN "unpromised"
    ELSE IF at = "exited" THEN "failed"
    ELSE IF at # "prompt" THEN "sending"
    ELSE IF count > 0 THEN "done"
    ELSE "idle"

Status == StatusOf(~Clean(User), cpc[User], puts[User])

Promise == INSTANCE FilePut WITH
    status  <- Status,
    target  <- name[User],
    content <- file[User],
    store   <- disk

\* Every behaviour of the programs is one FilePut allows: the server's file only
\* ever starts empty or grows by the client's next block, and the client is back
\* at its prompt with an acknowledged LASTPACKET only when it is whole.
PutIsAsPromised == Promise!Spec
=============================================================================
