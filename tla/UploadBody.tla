------------------------------ MODULE UploadBody ------------------------------
(***************************************************************************)
(* FileUploadBodyLimitMiddleware (security/upload_limit_middleware.py): the *)
(* body of an upload is buffered before the form parser sees any of it, and *)
(* handed on whole or not at all.  Bytes are counted in units.              *)
(***************************************************************************)
EXTENDS Integers

CONSTANTS
    Clients,
    RequestMax,   \* FILE_UPLOAD_REQUEST_MAX_BYTES
    FileMax,      \* FILE_UPLOAD_MAX_BYTES
    ChunkMax,     \* bound: bytes of one http.request message
    SizeMax       \* bound: bytes of a request

ASSUME UploadAssumption ==
    /\ FileMax \in Nat \ {0} /\ RequestMax \in Nat /\ FileMax <= RequestMax
    /\ ChunkMax \in Nat \ {0} /\ SizeMax \in Nat

VARIABLES
    body,     \* the upload of each client: what it is and what has arrived
    handed    \* history: bytes and size of the last body the application got

NoBody == << >>
\* No content-length header; several, or one that is no length.  A length that
\* is declared is the body's: the web server sees to that.
Absent == -1
Unreadable == -2
Upload(size, declared, intact) ==
    [size |-> size, declared |-> declared, got |-> 0, intact |-> intact]

Uploads == [size : Nat, declared : Nat \cup {Absent, Unreadable}, got : Nat, intact : BOOLEAN]

UploadTypeOK ==
    /\ body \in [Clients -> Uploads \cup {NoBody}]
    /\ handed \in [Clients -> [bytes : Nat, size : Nat] \cup {NoBody}]

UploadInit ==
    /\ body = [c \in Clients |-> NoBody]
    /\ handed = [c \in Clients |-> NoBody]

\* Mutation: a declared length is believed, and none is needed.
TrustsHeader(b) ==
    IF b.declared = Unreadable THEN "invalid"
    ELSE IF b.declared > RequestMax THEN "too_large"
    ELSE "none"

\* What is refused before or while the body is read.
Refusal(b) ==
    IF b.declared = Unreadable THEN "invalid"
    ELSE IF b.declared > RequestMax \/ b.got > RequestMax THEN "too_large"
    ELSE "none"

BodyDone(c) == body' = [body EXCEPT ![c] = NoBody]

\* A message of the body.  The web server keeps to a length that was declared.
Receive(c) ==
    /\ body[c] # NoBody /\ Refusal(body[c]) = "none" /\ body[c].got < body[c].size
    /\ \E n \in 1..ChunkMax :
          /\ body[c].got + n <= body[c].size
          /\ body' = [body EXCEPT ![c].got = @ + n]
    /\ UNCHANGED handed

BodyRefused(c) ==
    /\ body[c] # NoBody /\ Refusal(body[c]) # "none"
    /\ BodyDone(c)
    /\ UNCHANGED handed

\* Mutation: the end of the connection is taken for the end of the body.
ReplayPartial(c) ==
    /\ body[c] # NoBody /\ Refusal(body[c]) = "none"
    /\ handed' = [handed EXCEPT ![c] = [bytes |-> body[c].got, size |-> body[c].size]]
    /\ BodyDone(c)

\* http.disconnect before the end
Disconnect(c) ==
    /\ body[c] # NoBody /\ Refusal(body[c]) = "none" /\ body[c].got < body[c].size
    /\ BodyDone(c)
    /\ UNCHANGED handed

\* replay_receive: the application gets what was buffered, once.
Replay(c) ==
    /\ body[c] # NoBody /\ Refusal(body[c]) = "none" /\ body[c].got = body[c].size
    /\ handed' = [handed EXCEPT ![c] = [bytes |-> body[c].got, size |-> body[c].size]]
    /\ BodyDone(c)

\* What the route and _prepare_upload say of a body that was handed on.
FileVerdict(b) == IF b.size > FileMax THEN "too_large" ELSE IF ~b.intact THEN "invalid" ELSE "stored"
-----------------------------------------------------------------------------
\* Safety.  The form parser only sees bodies that are complete and within the
\* limit, and no more than one message beyond the limit is ever kept in memory,
\* whatever length was declared and wherever the client broke off.
UploadsWhole ==
    \A c \in Clients :
        /\ handed[c] # NoBody => handed[c].bytes = handed[c].size /\ handed[c].bytes <= RequestMax
        /\ body[c] # NoBody => body[c].got <= RequestMax + ChunkMax
=============================================================================
