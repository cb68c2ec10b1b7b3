---------------------------- MODULE FtpGetRefinement ----------------------------
(***************************************************************************)
(* The ftp programs implement the promise of FileGet to each client, until *)
(* the server has given up, somebody else has sent something or the client *)
(* has asked for a second file.                                            *)
(***************************************************************************)
EXTENDS FtpGet

CONSTANT User      \* any client

ASSUME UserAssumption == User \in Clients

\* The first get of User, and nothing that could go wrong with it.
Wanted == request[User].name
Promised == FirstGet(User, Wanted) /\ ~lossy /\ NoRepeats(remote[Wanted])

Status ==
    IF commands[User] = 0 THEN "idle"
    ELSE IF ~Promised THEN "unpromised"
    ELSE IF cpc[User] # "prompt" THEN "getting"
    ELSE IF gotLast[User] THEN "done"
    ELSE "failed"

Promise == INSTANCE FileGet WITH
    status  <- Status,
    content <- IF Promised THEN remote[Wanted] ELSE <<>>,
    got     <- local[User][Wanted]

\* Every behaviour of the programs is one FileGet allows: the client's file only ever
\* grows by the next block of the server's, receiveFile returns with the last packet
\* only when it is whole, and after that late packets do not touch it.
GetIsAsPromised == Promise!Spec
=============================================================================
