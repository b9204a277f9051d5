----------------------------- MODULE WebClient ------------------------------
(***************************************************************************)
(* One browser tab of agent_chatui: the login page and the application     *)
(* page, the token both keep in sessionStorage, the requests in flight and *)
(* what an answer does when it arrives after the page, the token or the    *)
(* component that asked has changed.  Rendering, texts and the stream of a *)
(* run are left out.                                                       *)
(*                                                                         *)
(* An event handler runs to its end before the next event; a component is  *)
(* rendered and, but for contentBlocksRef (variable synced), its effects   *)
(* have run by then.                                                       *)
(***************************************************************************)
EXTENDS FiniteSets, Naturals

CONSTANTS FileNames,      \* names of attachments
          MaxFiles        \* FILE_MAX_COUNT

ASSUME MaxFilesAssumption == MaxFiles \in Nat \ {0} /\ IsFiniteSet(FileNames)

VARIABLES
    page,         \* "login" or "app"
    going,        \* where router.replace will go, "stay" if nowhere
    token,        \* sessionStorage: <<account, serial>>, NoToken if none
    issued,       \* history: tokens set so far
    expired,      \* tokens the server no longer takes
    flight,       \* requests without an answer
    shown,        \* AuthSession: the user, NoUser while the children are unmounted
    failed,       \* AuthSession: the error view
    blocks,       \* use-file-upload: contentBlocks, how often each name occurs
    synced,       \* contentBlocksRef, behind contentBlocks until the effect runs
    uploading,    \* uploadingRef
    card,         \* statistics card: its state
    mixed,        \* history: an answer for a page already left has changed the token
    hasty         \* history: files were dropped before the effect had run

sessionVars == <<page, going, token, issued, expired, shown, failed, mixed>>
uploadVars == <<blocks, synced, uploading, hasty>>
clientVars == <<sessionVars, uploadVars, card, flight>>

NoToken == <<>>
NoUser == <<>>
NoFiles == [f \in FileNames |-> 0]

\* A request: by the login page (probe, register, login, establish), by
\* AuthSession (verify) or by a card or the upload hook.  valid: when it was
\* sent the server would have taken its token or its credentials; live: the
\* component that waits for it is mounted; who, what: credentials, files.
Query(kind, t, what) ==
    [kind |-> kind, token |-> t, valid |-> t # NoToken /\ t \notin expired,
     live |-> TRUE, who |-> NoUser, what |-> what]
SignIn(kind, who, what, valid, live) ==
    [kind |-> kind, token |-> NoToken, valid |-> valid, live |-> live,
     who |-> who, what |-> what]

AuthKinds == {"probe", "register", "login", "establish", "verify"}
FileKinds == {"upload", "remove", "statistics"}
Chain == {"register", "login", "establish"}

Live(kinds) == {q \in flight : q.live /\ q.kind \in kinds}
Orphaned(Q) == {[q EXCEPT !.live = FALSE] : q \in Q}
Mounted == page = "app" /\ shown # NoUser /\ ~failed

-----------------------------------------------------------------------------
(* What an answer does to the token and to what is mounted.  Each operator *)
(* gives the next value of its variables; Q is what is in flight besides.  *)

\* A fresh upload hook and card; what the old ones asked for has nobody to
\* answer, a download is aborted.
Unmounted(Q) ==
    /\ blocks' = NoFiles /\ synced' = NoFiles /\ uploading' = FALSE
    /\ card' = "idle"
    /\ flight' = {q \in Q : q.kind \notin FileKinds}
                 \cup Orphaned({q \in Q : q.kind \in {"upload", "remove"}})
    /\ UNCHANGED hasty

\* Mutation: the card does not hear that the token has changed.
CardKeepsWaiting(Q) == card' = card /\ flight' = Q

\* AUTH_TOKEN_CHANGED_EVENT: the card cancels its download.
CardCancels(Q) ==
    /\ card' = "idle"
    /\ flight' = {q \in Q : q.kind # "statistics"}

\* Mutation: the user stays shown until the page has changed.
KeepsUser ==
    going' = "login" /\ UNCHANGED shown

GoToLogin ==
    going' = "login" /\ shown' = NoUser

\* The component that asked is gone.
Late(q) == page = "app" /\ ~q.live

\* notifyUnauthorized: the token is cleared and AuthSession, if it is mounted,
\* takes its children away.
Unauthorized(q) ==
    LET Q == flight \ {q} IN
    /\ token' = NoToken
    /\ IF page = "app" THEN GoToLogin /\ Unmounted(Q)
                       ELSE UNCHANGED <<going, shown, card, uploadVars>> /\ flight' = Q
    /\ mixed' = (mixed \/ Late(q))
    /\ UNCHANGED <<page, issued, expired, failed>>

\* setAuthToken or clearAuthToken by establishSession.
TokenBecomes(t, q, Q) ==
    /\ token' = t
    /\ CardCancels(Q)
    /\ mixed' = (mixed \/ Late(q))
    /\ UNCHANGED <<page, going, expired, shown, failed, uploadVars>>

OnlyFlight(Q) ==
    flight' = Q /\ UNCHANGED <<sessionVars, uploadVars, card>>

-----------------------------------------------------------------------------
(* Pages. *)

\* The mount effects of the two pages: a probe or a verification if there is
\* a token, the way to the login page if the application has none.
Arrives(p, Q) ==
    /\ page' = p
    /\ shown' = NoUser /\ failed' = FALSE /\ mixed' = FALSE
    /\ going' = IF p = "app" /\ token = NoToken THEN "login" ELSE "stay"
    /\ blocks' = NoFiles /\ synced' = NoFiles /\ uploading' = FALSE
    /\ hasty' = FALSE /\ card' = "idle"
    /\ flight' = Q \cup IF token = NoToken THEN {}
                        ELSE {Query(IF p = "app" THEN "verify" ELSE "probe", token, {})}
    /\ UNCHANGED <<token, issued, expired>>

ClientInit ==
    /\ page = "login" /\ going = "stay"
    /\ token = NoToken /\ issued = 0 /\ expired = {}
    /\ flight = {} /\ shown = NoUser /\ failed = FALSE
    /\ blocks = NoFiles /\ synced = NoFiles /\ uploading = FALSE
    /\ card = "idle" /\ mixed = FALSE /\ hasty = FALSE

\* The user loads a page: everything but sessionStorage starts anew.
Open(p) == Arrives(p, {})

\* router.replace has an effect: the old page is unmounted, the answers to its
\* requests still arrive, an aborted download's does not.
Navigate ==
    /\ going # "stay"
    /\ IF going = page
          THEN going' = "stay" /\ UNCHANGED <<page, token, issued, expired, shown,
                                              failed, mixed, uploadVars, card, flight>>
          ELSE Arrives(going, Orphaned({q \in flight : q.kind # "statistics"}))

Logout ==
    /\ page = "app" /\ (failed \/ Mounted)
    /\ token' = NoToken
    /\ GoToLogin
    /\ Unmounted(flight)
    /\ UNCHANGED <<page, issued, expired, failed, mixed>>

\* The button of the error view runs the effect again.
Retry ==
    /\ page = "app" /\ failed
    /\ IF token = NoToken
          THEN going' = "login" /\ UNCHANGED <<failed, flight>>
          ELSE /\ failed' = FALSE
               /\ flight' = flight \cup {Query("verify", token, {})}
               /\ UNCHANGED going
    /\ UNCHANGED <<page, token, issued, expired, shown, mixed, uploadVars, card>>

\* The lifetime of a token ends.
Expire ==
    /\ token # NoToken /\ token \notin expired
    /\ expired' = expired \cup {token}
    /\ UNCHANGED <<page, going, token, issued, shown, failed, mixed, uploadVars, card, flight>>

-----------------------------------------------------------------------------
(* The login page. *)

\* The form; its button is disabled until the request before has ended.
Submit(kind, who, what, valid) ==
    /\ page = "login" /\ Live(Chain) = {}
    /\ OnlyFlight(flight \cup {SignIn(kind, who, what, valid, TRUE)})

RegisterAnswered(q, answer) ==
    /\ q.kind = "register"
    /\ OnlyFlight((flight \ {q}) \cup
           IF answer = "ok" THEN {SignIn("login", q.who, {}, TRUE, q.live)} ELSE {})

\* loginUser, and on success setAuthToken and the request that follows.
LoginAnswered(q, answer) ==
    /\ q.kind = "login"
    /\ LET new == <<q.who, issued + 1>>
           Q == flight \ {q}
       IN CASE answer = "ok" ->
                 /\ issued' = issued + 1
                 /\ TokenBecomes(new, q,
                        Q \cup {[Query("establish", new, {}) EXCEPT !.live = q.live]})
            [] answer = "unauthorized" -> Unauthorized(q)
            [] OTHER -> OnlyFlight(Q)

\* getCurrentUser within establishSession: whatever its failure, the token
\* that is held then is cleared.
EstablishAnswered(q, answer) ==
    /\ q.kind = "establish"
    /\ LET Q == flight \ {q} IN
       CASE answer = "ok" ->
              /\ going' = "app" /\ flight' = Q
              /\ UNCHANGED <<page, token, issued, expired, shown, failed, mixed, uploadVars, card>>
         [] answer = "unauthorized" -> Unauthorized(q)
         [] OTHER -> TokenBecomes(NoToken, q, Q) /\ UNCHANGED issued

\* The request of a login page that found a token.
ProbeAnswered(q, answer) ==
    /\ q.kind = "probe"
    /\ LET Q == flight \ {q} IN
       CASE answer = "ok" ->
              /\ going' = "app" /\ flight' = Q
              /\ UNCHANGED <<page, token, issued, expired, shown, failed, mixed, uploadVars, card>>
         [] answer = "unauthorized" -> Unauthorized(q)
         [] OTHER -> OnlyFlight(Q)

VerifyAnswered(q, answer) ==
    /\ q.kind = "verify"
    /\ LET Q == flight \ {q} IN
       CASE answer = "unauthorized" -> Unauthorized(q)
         [] answer # "unauthorized" /\ q.live ->
              /\ shown' = IF answer = "ok" THEN q.token[1] ELSE shown
              /\ failed' = (failed \/ answer # "ok")
              /\ flight' = Q
              /\ UNCHANGED <<page, going, token, issued, expired, mixed, uploadVars, card>>
         [] OTHER -> OnlyFlight(Q)

-----------------------------------------------------------------------------
(* Attachments. *)

Count(b) == Cardinality({p \in FileNames \X (1 .. 2 * MaxFiles) : p[2] <= b[p[1]]})

\* validateManagedFileSelection, on what contentBlocksRef holds.
Fits(F) ==
    /\ Count(synced) + Cardinality(F) <= MaxFiles
    /\ \A f \in F : synced[f] = 0

\* Mutation: files are taken while others are being uploaded.
NeverBusy == FALSE
\* uploadingRef
Busy == uploading

\* Choosing and pasting come through React, which runs the effect first; a
\* drop is a listener of the window.
Upload(F) ==
    /\ Mounted /\ ~Busy /\ F # {} /\ Fits(F)
    /\ hasty' = (hasty \/ synced # blocks)
    /\ uploading' = TRUE
    /\ flight' = flight \cup {Query("upload", token, F)}
    /\ UNCHANGED <<sessionVars, blocks, synced, card>>

RemoveBlock(f) ==
    /\ Mounted /\ ~uploading /\ synced = blocks /\ blocks[f] > 0
    /\ uploading' = TRUE
    /\ flight' = flight \cup {Query("remove", token, {f})}
    /\ UNCHANGED <<sessionVars, blocks, synced, hasty, card>>

\* The effect that copies contentBlocks.
Synchronize ==
    /\ synced # blocks
    /\ synced' = blocks
    /\ UNCHANGED <<sessionVars, blocks, uploading, hasty, card, flight>>

\* handleSubmit: the message takes the attachments along.
SubmitMessage ==
    /\ Mounted /\ ~uploading /\ blocks # NoFiles
    /\ blocks' = NoFiles
    /\ UNCHANGED <<sessionVars, synced, uploading, hasty, card, flight>>

\* Mutation: an answer to an old token is taken for one to the present one.
NeverSuperseded(q) == FALSE
\* request of managed-file-client: the answer is dropped before anything
\* looks at it.
Superseded(q) == q.token # token

FileAnswered(q, answer) ==
    /\ q.kind \in {"upload", "remove"}
    /\ LET Q == flight \ {q}
           done == ~Superseded(q) /\ (answer = "ok" \/ (q.kind = "remove" /\ answer = "gone"))
       IN IF ~Superseded(q) /\ answer = "unauthorized"
             THEN Unauthorized(q)
             ELSE /\ flight' = Q
                  /\ uploading' = IF q.live THEN FALSE ELSE uploading
                  /\ blocks' = IF ~(q.live /\ done) THEN blocks
                               ELSE [f \in FileNames |->
                                       IF f \notin q.what THEN blocks[f]
                                       ELSE IF q.kind = "upload" THEN blocks[f] + 1 ELSE 0]
                  /\ UNCHANGED <<sessionVars, synced, hasty, card>>

-----------------------------------------------------------------------------
(* The statistics card and its download controller. *)

StartDownload ==
    /\ Mounted /\ Live({"statistics"}) = {}
    /\ card' = "loading"
    /\ flight' = flight \cup {Query("statistics", token, {})}
    /\ UNCHANGED <<sessionVars, uploadVars>>

\* The card shows another result: a new controller.
ShowOther ==
    /\ Mounted
    /\ CardCancels(flight)
    /\ UNCHANGED <<sessionVars, uploadVars>>

DownloadAnswered(q, answer) ==
    /\ q.kind = "statistics"
    /\ LET Q == flight \ {q} IN
       CASE Superseded(q) -> OnlyFlight(Q)
         [] ~Superseded(q) /\ answer = "unauthorized" -> Unauthorized(q)
         [] OTHER ->
              /\ card' = IF answer = "ok" THEN "success" ELSE "error"
              /\ flight' = Q
              /\ UNCHANGED <<sessionVars, uploadVars>>

Answered(q, answer) ==
    \/ RegisterAnswered(q, answer)
    \/ LoginAnswered(q, answer)
    \/ EstablishAnswered(q, answer)
    \/ ProbeAnswered(q, answer)
    \/ VerifyAnswered(q, answer)
    \/ FileAnswered(q, answer)
    \/ DownloadAnswered(q, answer)

ClientStep ==
    \/ \E p \in {"login", "app"} : Open(p)
    \/ Navigate
    \/ Logout
    \/ Retry
    \/ Expire
    \/ \E F \in SUBSET FileNames : Upload(F)
    \/ \E f \in FileNames : RemoveBlock(f)
    \/ Synchronize
    \/ SubmitMessage
    \/ StartDownload
    \/ ShowOther

-----------------------------------------------------------------------------
(* A card that says "loading" has a download that will end: a change of    *)
(* token, of page or of its result never leaves it waiting for an answer   *)
(* it will drop (statistics-card.tsx, statistics-download.ts).             *)
NoStuckCard == card = "loading" => Live({"statistics"}) # {}

(* A session is ended by its owner, by a sign-in that fails or by the 401  *)
(* of a request made with its token; of the requests made with             *)
(* another token only those of auth-client, which does not compare, can    *)
(* end it (managed-file-client.ts, "request").                             *)
SessionSurvivesLateAnswers ==
    [][token # NoToken /\ token' = NoToken =>
          \/ Logout
          \/ \E q \in flight :
                /\ q.token = token \/ q.kind \in AuthKinds
                /\ Answered(q, "unauthorized") \/ Answered(q, "error")]_clientVars

(* The attachments of a message stay within its limit and have different   *)
(* names, unless files were dropped in the moment between an upload and    *)
(* the effect that notes it (use-file-upload.tsx).                         *)
AttachmentsFit ==
    hasty \/ (Count(blocks) <= MaxFiles /\ \A f \in FileNames : blocks[f] <= 1)

(* A page that shows an account holds a token of that account, unless the  *)
(* answer to a request of a page already left has changed the token since  *)
(* (auth-session.tsx, login/page.tsx).                                     *)
IdentityShown ==
    shown # NoUser /\ ~mixed => token # NoToken /\ token[1] = shown
=============================================================================
