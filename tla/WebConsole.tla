----------------------------- MODULE WebConsole -----------------------------
(***************************************************************************)
(* The tab of WebClient against the server of Accounts: the tab registers  *)
(* and signs in with the accounts that other requests, by other clients,   *)
(* create and change meanwhile; every answer may be lost.                  *)
(*                                                                         *)
(* Sending a request and the first query of its handler are one step:      *)
(* until then nothing depends on it.  Files and statistics answer as they  *)
(* please; ManagedFiles and FileAnalysis say what they answer.             *)
(***************************************************************************)
EXTENDS Accounts, WebClient

consoleVars == <<accountVars, clientVars>>

ConsoleInit == AccountsInit /\ ClientInit

-----------------------------------------------------------------------------
(* The two forms. *)

TabRegisters(who) ==
    \/ \E r \in Requests :
          RegisterLooksUp(r, who) /\ Submit("register", who, {r}, TRUE)
    \/ Submit("register", who, {}, FALSE) /\ UNCHANGED accountVars

\* Credentials that are not those of an account stand for every mistake.
TabSignsIn(who) ==
    /\ Submit("login", who, {}, who \in accounts)
    /\ UNCHANGED accountVars

-----------------------------------------------------------------------------
(* What a request in flight may be answered with: the server looked at it  *)
(* at some time since it was sent, accounts only come and tokens only      *)
(* expire.  "error" is every other status and the loss of the connection.  *)

RegisterAnswers(q) == IF \E r \in q.what : reply[r] = "created" THEN {"ok"} ELSE {}

LoginAnswers(q) ==
    (IF q.who \in accounts THEN {"ok"} ELSE {})
    \cup (IF q.valid THEN {} ELSE {"unauthorized"})

BearerAnswers(q) ==
    (IF q.valid THEN {"ok"} ELSE {})
    \cup (IF q.valid /\ q.kind = "remove" THEN {"gone"} ELSE {})
    \cup (IF q.token = NoToken \/ q.token \in expired THEN {"unauthorized"} ELSE {})

ServerAnswers(q) ==
    {"error"} \cup CASE q.kind = "register" -> RegisterAnswers(q)
                     [] q.kind = "login" -> LoginAnswers(q)
                     [] OTHER -> BearerAnswers(q)

Delivered(q) ==
    /\ \E a \in ServerAnswers(q) : Answered(q, a)
    /\ UNCHANGED accountVars

-----------------------------------------------------------------------------
ConsoleNext ==
    \/ AccountsNext /\ UNCHANGED clientVars
    \/ \E who \in Account : TabRegisters(who) \/ TabSignsIn(who)
    \/ \E q \in flight : Delivered(q)
    \/ ClientStep /\ UNCHANGED accountVars

ConsoleSpec == ConsoleInit /\ [][ConsoleNext]_consoleVars
=============================================================================
