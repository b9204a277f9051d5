---------------------------- MODULE MCWebConsole ----------------------------
(***************************************************************************)
(* A small instance of WebConsole.                                         *)
(***************************************************************************)
EXTENDS WebConsole, TLC

CONSTANTS MaxTokens, MaxFlight

Registering == {r \in Requests : ~Idle(r)}
Working ==
    \/ card # "idle" \/ blocks # NoFiles \/ synced # NoFiles
    \/ \E q \in flight : q.kind \in FileKinds

\* The server with everything it does, before the tab does anything.
ServerAlone == issued = 0 /\ flight = {} /\ page = "login"

\* The tab, with a server that has neither sessions nor administrators: until
\* somebody registers it may work with files, afterwards it only signs in.
TabAtWork ==
    /\ fresh = Chats /\ admins = {}
    /\ Cardinality(Registering) <= 2
    /\ Working => Registering = {}

InBounds ==
    /\ issued <= MaxTokens
    /\ Cardinality(flight) <= MaxFlight
    /\ Cardinality(expired) <= 1
    /\ ~hasty
    /\ ServerAlone \/ TabAtWork

Interchangeable ==
    Permutations(Requests) \cup Permutations(Names)
        \cup Permutations(Emails) \cup Permutations(FileNames)
=============================================================================
