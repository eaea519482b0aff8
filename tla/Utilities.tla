------------------------------ MODULE Utilities ------------------------------
(***************************************************************************)
(* The small C programs and functions of the repository in one state       *)
(* machine for TLC: vectors of strings, base64, and the TLS client with    *)
(* its user and its server.  One of them runs, the others stay as they     *)
(* are.                                                                    *)
(***************************************************************************)
EXTENDS SslClient, Base64, Argz

CONSTANTS MaxInput, MaxEncoded, MaxSize    \* of Base64

VARIABLE program

SeqsUpTo(max, S) == UNION {[1..k -> S] : k \in 0..max}

(* Replacing takes up to nine allocations here.                            *)
FewPatterns == {<<>>, <<1>>, <<1, 1>>, <<1, 2>>}
FewSubstitutes == {<<>>, <<1>>, <<2, 1>>}
FewRooms == {0, 1, 2, 3, 4, 5, 9}

(* 0, 16 and 33 are digits whose bits fall into either neighbour.          *)
FewInputs == SeqsUpTo(MaxInput, {0, 1, 150, 255})
FewSources == SeqsUpTo(MaxEncoded, {0, 16, 33, 64, 65, 66})
FewSizes == -1..MaxSize

utilities == <<program, argzVars, base64Vars, vars>>

(* What does not run is in one of its initial states.                      *)
InitUtilities ==
    /\ program \in {"argz", "base64", "ssl_client"}
    /\ InitArgz
    /\ InitBase64
    /\ program # "base64" => job = "ntop" /\ given = <<>> /\ size = 0
    /\ Init /\ (program # "ssl_client" => prompted)

CallArgz == program = "argz" /\ NextArgz /\ UNCHANGED <<program, base64Vars, vars>>
UseBase64 == program = "base64" /\ NextBase64 /\ UNCHANGED <<program, argzVars, vars>>

Ssl(Action) == program = "ssl_client" /\ Action /\ UNCHANGED <<program, argzVars, base64Vars>>

NextUtilities == CallArgz \/ UseBase64 \/ Ssl(Next)

FairUtilities ==
    /\ InitUtilities /\ [][NextUtilities]_utilities
    /\ WF_utilities(Ssl(Client)) /\ WF_utilities(Ssl(User)) /\ WF_utilities(Ssl(Server))

-----------------------------------------------------------------------------
(* The properties of argz.c, base64.c and ssl_client.c are in Argz, Base64 *)
(* and SslClient.  EndsOrWaits is a property of the client that runs.      *)
ClientEndsOrWaits == program = "ssl_client" => EndsOrWaits
=============================================================================
