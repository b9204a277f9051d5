-------------------------- MODULE WebConsoleProofs --------------------------
(***************************************************************************)
(* Proofs about WebConsole, for any names, chats, requests, files and any  *)
(* number of tokens and requests in flight: the rows of the server         *)
(* (Accounts) and what the tab shows and holds (WebClient).  The two sides *)
(* share no variable: each has an inductive invariant of its own.          *)
(***************************************************************************)
EXTENDS WebConsole, FiniteSetTheorems, TLAPS

-----------------------------------------------------------------------------
(* Accounts.                                                                *)

ChatOps == {"add", "touched", "added", "delete", "clearing"}
OnChat(r) == work[r].op \in ChatOps
ChatWork == [op : ChatOps, chat : Chats, cleared : SUBSET Requests]

\* A session whose id was not given out is untouched.
FreshInv ==
    \A c \in fresh :
        /\ owner[c] = Nobody
        /\ lines[c] = {} /\ acked[c] = {}
        /\ \A r \in Requests : OnChat(r) => work[r].chat # c

\* Whoever touched a row holds its lock, so it exists; whoever clears a session
\* has seen every message there is, for the gap is locked.
LocksInv ==
    \A r \in Requests :
        /\ At(r, "touched") => Exists(work[r].chat)
        /\ At(r, "clearing") => lines[work[r].chat] \subseteq work[r].cleared

AccountsInv ==
    /\ accounts \subseteq Account /\ Apart(accounts)
    /\ owner \in [Chats -> Account \cup {Nobody}]
    /\ lines \in [Chats -> SUBSET Requests]
    /\ acked \in [Chats -> SUBSET Requests]
    /\ fresh \subseteq Chats
    /\ DOMAIN work = Requests
    /\ \A r \in Requests : OnChat(r) => work[r] \in ChatWork
    /\ \A r \in Requests : At(r, "register") => work[r].who \in Account
    /\ FreshInv /\ LocksInv /\ SessionsWhole

LEMMA NobodyIsNoAccount == Nobody \notin Account
  BY DEF Nobody, Account

LEMMA AccountsInvInit == ConsoleInit => AccountsInv
  <1> SUFFICES ASSUME ConsoleInit PROVE AccountsInv
    OBVIOUS
  <1> USE DEF ConsoleInit, AccountsInit
  <1>1. accounts \subseteq Account /\ Apart(accounts)
    OBVIOUS
  <1>2. \A r \in Requests : work[r].op = "none"
    BY DEF Waiting
  <1>3. QED
    BY <1>1, <1>2 DEF AccountsInv, FreshInv, LocksInv, SessionsWhole, Exists, OnChat, ChatOps, At

\* Steps that leave the tables of sessions and messages alone and do not take up
\* work on a session.
LEMMA ElsewhereKeeps ==
  ASSUME AccountsInv, NEW r \in Requests, NEW w, UNCHANGED chatVars,
         work' = [work EXCEPT ![r] = w], w.op \notin ChatOps,
         w.op = "register" => w.who \in Account,
         accounts' \subseteq Account, Apart(accounts')
  PROVE  AccountsInv'
  <1>1. \A s \in Requests : OnChat(s)' => s # r /\ OnChat(s) /\ work'[s] = work[s]
    BY DEF AccountsInv, OnChat
  <1>2. \A s \in Requests : At(s, "register")' => s = r \/ (At(s, "register") /\ work'[s] = work[s])
    BY DEF AccountsInv, At
  <1>3. QED
    BY <1>1, <1>2 DEF AccountsInv, FreshInv, LocksInv, SessionsWhole, Exists, OnChat, ChatOps, At, chatVars

LEMMA CreateUserKeeps ==
  ASSUME AccountsInv, NEW r \in Requests, CreateUser(r)
  PROVE  accounts' \subseteq Account /\ Apart(accounts')
  <1>1. work[r].who \in Account
    BY DEF CreateUser, AccountsInv
  <1>2. CASE Violates(work[r].who)
    BY <1>2 DEF CreateUser, AccountsInv
  <1>3. CASE ~Violates(work[r].who)
    BY <1>1, <1>3 DEF AccountsInv, CreateUser, Violates, Taken, Apart
  <1>4. QED
    BY <1>2, <1>3

LEMMA UserStepKeeps ==
  ASSUME AccountsInv, NEW r \in Requests, UserStep(r) \/ RequestFails(r)
  PROVE  AccountsInv'
  <1>1. accounts' \subseteq Account /\ Apart(accounts')
    BY CreateUserKeeps DEF AccountsInv, UserStep, RegisterLooksUp, RoleChangeAuthorized, ChangeUserRole,
       BootstrapReads, BootstrapPromotes, RequestFails, usersVars
  <1>2. UNCHANGED chatVars
    BY DEF UserStep, RegisterLooksUp, CreateUser, RoleChangeAuthorized, ChangeUserRole,
       BootstrapReads, BootstrapPromotes, RequestFails
  <1>3. \E w : /\ work' = [work EXCEPT ![r] = w] /\ w.op \notin ChatOps
               /\ w.op = "register" => w.who \in Account
    <2>1. ASSUME NEW a, Answers(r, a) PROVE work' = [work EXCEPT ![r] = Over]
      BY <2>1 DEF Answers
    <2>2. Over.op \notin ChatOps /\ Over.op # "register"
      BY DEF Over, ChatOps
    <2>3. CASE \E who \in Account : RegisterLooksUp(r, who)
      <3> PICK who \in Account : RegisterLooksUp(r, who)
        BY <2>3
      <3> DEFINE w == [op |-> "register", who |-> who]
      <3>1. w.op \notin ChatOps /\ w.who \in Account
        BY DEF ChatOps
      <3>2. work' = [work EXCEPT ![r] = w] \/ work' = [work EXCEPT ![r] = Over]
        BY <2>1 DEF RegisterLooksUp, Goes
      <3>3. QED
        BY <2>2, <3>1, <3>2
    <2>4. CASE \E by \in accounts : RoleChangeAuthorized(r, by)
      <3> PICK by \in accounts : RoleChangeAuthorized(r, by)
        BY <2>4
      <3>1. CASE by \in admins
        <4> PICK on \in Account, admin \in BOOLEAN :
                Goes(r, [op |-> "role", by |-> by, on |-> on, admin |-> admin,
                         known |-> on \in accounts, was |-> on \in admins])
          BY <3>1 DEF RoleChangeAuthorized
        <4> DEFINE w == [op |-> "role", by |-> by, on |-> on, admin |-> admin,
                         known |-> on \in accounts, was |-> on \in admins]
        <4>1. w.op \notin ChatOps /\ w.op # "register" /\ work' = [work EXCEPT ![r] = w]
          BY DEF Goes, ChatOps
        <4>2. QED
          BY <4>1
      <3>2. CASE by \notin admins
        BY <2>1, <2>2, <3>2 DEF RoleChangeAuthorized
      <3>3. QED
        BY <3>1, <3>2
    <2>5. CASE \E who \in Account : BootstrapReads(r, who)
      <3> PICK who \in Account : BootstrapReads(r, who)
        BY <2>5
      <3> DEFINE w == [op |-> "bootstrap", who |-> who, was |-> who \in admins]
      <3>1. w.op \notin ChatOps /\ w.op # "register"
        BY DEF ChatOps
      <3>2. work' = [work EXCEPT ![r] = w] \/ work' = [work EXCEPT ![r] = Over]
        BY <2>1 DEF BootstrapReads, Goes
      <3>3. QED
        BY <2>2, <3>1, <3>2
    <2>6. CASE CreateUser(r) \/ ChangeUserRole(r) \/ BootstrapPromotes(r) \/ RequestFails(r)
      BY <2>1, <2>2, <2>6 DEF CreateUser, ChangeUserRole, BootstrapPromotes, RequestFails
    <2>7. QED
      BY <2>3, <2>4, <2>5, <2>6 DEF UserStep
  <1>4. QED
    BY <1>1, <1>2, <1>3, ElsewhereKeeps

\* A request that goes on, or ends, on a session it already works on.
LEMMA ChatStepKeeps ==
  ASSUME AccountsInv, NEW r \in Requests, ChatStep(r)
  PROVE  AccountsInv'
  <1> USE DEF AccountsInv, OnChat, ChatOps, At
  <1>1. ASSUME NEW by \in accounts, NEW c \in Chats, CreateSession(r, by, c) PROVE AccountsInv'
    <2>1. by # Nobody /\ by \in Account
      BY NobodyIsNoAccount
    <2>2. \A s \in Requests : s # r => work'[s] = work[s]
      BY <1>1 DEF CreateSession, Answers
    <2>3. work'[r].op = "over"
      BY <1>1 DEF CreateSession, Answers, Over
    <2>4. FreshInv' /\ LocksInv'
      BY <1>1, <2>1, <2>2, <2>3 DEF CreateSession, FreshInv, LocksInv, Exists
    <2>5. SessionsWhole'
      BY <1>1, <2>1 DEF CreateSession, FreshInv, SessionsWhole, Exists
    <2>6. QED
      BY <1>1, <2>1, <2>2, <2>3, <2>4, <2>5 DEF CreateSession, Answers, usersVars
  <1>2. ASSUME NEW by \in accounts, NEW c \in Chats, NEW op \in {"add", "delete"}, Finds(r, by, c, op)
        PROVE  AccountsInv'
    <2>1. CASE owner[c] = by
      <3>1. c \notin fresh
        BY <2>1, NobodyIsNoAccount DEF FreshInv
      <3>2. work' = [work EXCEPT ![r] = [op |-> op, chat |-> c, cleared |-> {}]]
        BY <1>2, <2>1 DEF Finds, Goes
      <3>3. UNCHANGED <<accounts, chatVars>>
        BY <1>2 DEF Finds, usersVars
      <3>4. FreshInv' /\ LocksInv' /\ SessionsWhole'
        BY <3>1, <3>2, <3>3 DEF FreshInv, LocksInv, SessionsWhole, Exists, chatVars
      <3>5. QED
        BY <3>2, <3>3, <3>4 DEF ChatWork, chatVars
    <2>2. CASE owner[c] # by
      BY <1>2, <2>2, ElsewhereKeeps DEF Finds, Answers, Over, usersVars
    <2>3. QED
      BY <2>1, <2>2
  <1>3. CASE AddMessageTouches(r)
    <2>1. CASE Exists(work[r].chat)
      <3>1. work' = [work EXCEPT ![r] = [work[r] EXCEPT !.op = "touched"]]
        BY <1>3, <2>1 DEF AddMessageTouches, Goes
      <3>2. UNCHANGED <<accounts, chatVars>> /\ work[r] \in ChatWork
        BY <1>3 DEF AddMessageTouches, usersVars
      <3>3. FreshInv' /\ LocksInv' /\ SessionsWhole'
        BY <3>1, <3>2, <1>3, <2>1 DEF FreshInv, LocksInv, SessionsWhole, Exists, chatVars, ChatWork,
           AddMessageTouches
      <3>4. QED
        BY <3>1, <3>2, <3>3 DEF ChatWork, chatVars
    <2>2. CASE ~Exists(work[r].chat)
      BY <1>3, <2>2, ElsewhereKeeps DEF AddMessageTouches, Answers, Over, usersVars
    <2>3. QED
      BY <2>1, <2>2
  <1>4. CASE AddMessageInserts(r)
    <2> PICK c : c = work[r].chat
      OBVIOUS
    <2>1. /\ c \in Chats /\ c \notin fresh /\ Exists(c)
          /\ work[r] \in ChatWork
      BY <1>4 DEF AddMessageInserts, ChatWork, FreshInv, LocksInv
    <2>2. /\ lines' = [lines EXCEPT ![c] = @ \cup {r}]
          /\ work' = [work EXCEPT ![r] = [work[r] EXCEPT !.op = "added"]]
          /\ UNCHANGED <<accounts, owner, fresh, acked>>
      BY <1>4 DEF AddMessageInserts, Goes, usersVars
    <2>3. \A s \in Requests : At(s, "clearing") /\ s # r => work[s].chat # c
      BY <1>4 DEF AddMessageInserts, GapLocked
    <2>4. FreshInv'
      BY <2>1, <2>2 DEF FreshInv, ChatWork
    <2>5. LocksInv'
      BY <2>1, <2>2, <2>3 DEF LocksInv, Exists, ChatWork
    <2>6. SessionsWhole'
      BY <2>1, <2>2 DEF SessionsWhole, Exists
    <2>7. QED
      BY <2>1, <2>2, <2>4, <2>5, <2>6 DEF ChatWork
  <1>5. CASE AddMessageAnswers(r)
    <2> PICK c : c = work[r].chat
      OBVIOUS
    <2>1. c \in Chats /\ c \notin fresh
      BY <1>5 DEF AddMessageAnswers, ChatWork, FreshInv
    <2>2. /\ work' = [work EXCEPT ![r] = Over]
          /\ UNCHANGED <<accounts, owner, fresh, lines>>
          /\ acked' = acked \/ (r \in lines[c] /\ acked' = [acked EXCEPT ![c] = @ \cup {r}])
      BY <1>5 DEF AddMessageAnswers, Answers, usersVars
    <2>3. FreshInv' /\ LocksInv'
      BY <2>1, <2>2 DEF FreshInv, LocksInv, Exists, Over
    <2>4. SessionsWhole'
      BY <2>1, <2>2 DEF SessionsWhole, Exists
    <2>5. QED
      BY <2>1, <2>2, <2>3, <2>4 DEF Over
  <1>6. CASE DeleteSessionClears(r)
    <2>1. work[r] \in ChatWork
      BY <1>6 DEF DeleteSessionClears
    <2> DEFINE w == [work[r] EXCEPT !.op = "clearing", !.cleared = lines[work[r].chat]]
    <2>2. w \in ChatWork /\ w.op = "clearing" /\ w.chat = work[r].chat /\ w.cleared = lines[w.chat]
      BY <2>1 DEF ChatWork
    <2>3. work' = [work EXCEPT ![r] = w] /\ UNCHANGED <<accounts, chatVars>>
      BY <1>6 DEF DeleteSessionClears, Goes, usersVars
    <2> HIDE DEF w
    <2>4. FreshInv' /\ LocksInv' /\ SessionsWhole'
      BY <2>2, <2>3, <1>6 DEF FreshInv, LocksInv, SessionsWhole, Exists, chatVars, DeleteSessionClears
    <2>5. QED
      BY <2>2, <2>3, <2>4 DEF chatVars
  <1>7. CASE DeleteSessionCommits(r)
    <2> PICK c : c = work[r].chat
      OBVIOUS
    <2>1. /\ c \in Chats /\ c \notin fresh
          /\ lines[c] \subseteq work[r].cleared
      BY <1>7 DEF DeleteSessionCommits, ChatWork, FreshInv, LocksInv
    <2>2. /\ lines' = [lines EXCEPT ![c] = {}]
          /\ owner' = [owner EXCEPT ![c] = Nobody]
          /\ work' = [work EXCEPT ![r] = Over]
          /\ UNCHANGED <<accounts, fresh, acked>>
      BY <1>7, <2>1 DEF DeleteSessionCommits, Answers, usersVars
    <2>3. \A s \in Requests : At(s, "touched") /\ s # r => work[s].chat # c
      BY <1>7 DEF DeleteSessionCommits, RowLocked
    <2>4. FreshInv'
      BY <2>1, <2>2 DEF FreshInv, Over
    <2>5. LocksInv'
      BY <2>1, <2>2, <2>3, <1>7 DEF LocksInv, Exists, Over, ChatWork
    <2>6. SessionsWhole'
      BY <2>1, <2>2 DEF SessionsWhole, Exists
    <2>7. QED
      BY <2>1, <2>2, <2>4, <2>5, <2>6 DEF Over
  <1>8. QED
    BY <1>1, <1>2, <1>3, <1>4, <1>5, <1>6, <1>7 DEF ChatStep, AddMessageFinds, DeleteSessionFinds

\* A tab asks only for a registration.
LEMMA AccountsInvNext == AccountsInv /\ [ConsoleNext]_consoleVars => AccountsInv'
  <1> SUFFICES ASSUME AccountsInv, [ConsoleNext]_consoleVars PROVE AccountsInv'
    OBVIOUS
  <1>1. ASSUME NEW r \in Requests, UserStep(r) \/ ChatStep(r) \/ RequestFails(r) PROVE AccountsInv'
    BY <1>1, UserStepKeeps, ChatStepKeeps
  <1>2. CASE UNCHANGED accountVars
    BY <1>2 DEF accountVars, usersVars, chatVars, AccountsInv, FreshInv, LocksInv, SessionsWhole, Exists,
       OnChat, At
  <1>3. QED
    BY <1>1, <1>2 DEF ConsoleNext, AccountsNext, TabRegisters, TabSignsIn, Delivered, UserStep, consoleVars

\* However registrations, messages and deletions interleave over the statements
\* of their transactions: no two accounts share a name or an address, a session
\* keeps every message that was acknowledged and a deleted one leaves none
\* (auth_service.py, session_service.py).
THEOREM RowsStayConsistent == ConsoleSpec => []RowsConsistent
  <1>1. AccountsInv => RowsConsistent
    BY DEF AccountsInv, RowsConsistent
  <1>2. QED
    BY AccountsInvInit, AccountsInvNext, <1>1, PTL DEF ConsoleSpec

\* Only the change of a role takes one away, and never the role of its author.
LEMMA RoleChangeKeepsAuthor ==
  ASSUME NEW r \in Requests, ChangeUserRole(r), admins # {}, admins' = {}
  PROVE  usurped'
  <1>1. ~OwnRole(work[r]) /\ work[r].known /\ work[r].was # work[r].admin
        /\ admins' = admins \ {work[r].on}
    BY DEF ChangeUserRole
  <1>2. work[r].by \notin admins
    BY <1>1 DEF OwnRole
  <1>3. QED
    BY <1>1, <1>2 DEF ChangeUserRole

LEMMA AdminLostStep ==
  ASSUME [ConsoleNext]_consoleVars, admins # {}, admins' = {}
  PROVE  usurped'
  <1>1. CASE \E r \in Requests : ChangeUserRole(r)
    BY <1>1, RoleChangeKeepsAuthor
  <1>2. CASE \A r \in Requests : ~ChangeUserRole(r)
    BY <1>2 DEF ConsoleNext, AccountsNext, UserStep, ChatStep, RequestFails, TabRegisters, TabSignsIn,
       Delivered, RegisterLooksUp, CreateUser, RoleChangeAuthorized, BootstrapReads, BootstrapPromotes,
       CreateSession, AddMessageFinds, Finds, AddMessageTouches, AddMessageInserts, AddMessageAnswers,
       DeleteSessionFinds, DeleteSessionClears, DeleteSessionCommits, usersVars, accountVars, consoleVars
  <1>3. QED
    BY <1>1, <1>2

\* The last administrator is lost only by a change whose author had lost the role
\* after the route authorized it (admin_service.py, routes/admin.py), with any
\* number of administrators changing one another's roles at the same time.
THEOREM LastAdminLostByRace == ConsoleSpec => AdminLostOnlyByRace
  <1>1. [ConsoleNext]_consoleVars => [admins # {} /\ admins' = {} => usurped']_accountVars
    BY AdminLostStep
  <1>2. QED
    BY <1>1, PTL DEF ConsoleSpec, AdminLostOnlyByRace

-----------------------------------------------------------------------------
(* The tab.                                                                 *)

Tokens == {NoToken} \cup ((Account \cup {NoUser}) \X Nat)
Asked == [kind : AuthKinds \cup FileKinds, token : Tokens, valid : BOOLEAN, live : BOOLEAN,
          who : Account \cup {NoUser}, what : SUBSET (Requests \cup FileNames)]

TabTypes ==
    /\ flight \subseteq Asked
    /\ \A q \in flight : q.kind \in FileKinds => q.what \subseteq FileNames
    /\ token \in Tokens /\ issued \in Nat
    /\ mixed \in BOOLEAN /\ hasty \in BOOLEAN /\ uploading \in BOOLEAN /\ failed \in BOOLEAN
    /\ blocks \in [FileNames -> Nat]
    /\ page \in {"login", "app"} /\ going \in {"login", "app", "stay"}

AtUpload(q) == q.live /\ q.kind \in {"upload", "remove"}
AtVerify(q) == q.live /\ q.kind = "verify"

\* Who may still be waiting for an answer on which page.
PlaceInv ==
    /\ page = "login" => shown = NoUser
    /\ \A q \in flight : q.live =>
          IF page = "app" THEN q.kind \in FileKinds \cup {"verify"}
                          ELSE q.kind \in AuthKinds \ {"verify"}

\* One verification at a time, before the children of AuthSession are mounted.
VerifyInv ==
    /\ failed => shown = NoUser
    /\ \A q \in flight : AtVerify(q) => shown = NoUser /\ ~failed
    /\ \A q, o \in flight : AtVerify(q) /\ AtVerify(o) => q = o
    /\ \A q \in flight : q.live /\ q.kind \in FileKinds => shown # NoUser

\* What is, or is going to be, shown belongs to the token.
IdentityInv ==
    ~mixed =>
        /\ \A q \in flight : AtVerify(q) => q.token = token /\ token # NoToken
        /\ shown # NoUser => token # NoToken /\ token[1] = shown

\* One upload or removal at a time; its files will fit when they are answered.
UploadInv ==
    /\ \A q \in flight : AtUpload(q) => uploading
    /\ \A q, o \in flight : AtUpload(q) /\ AtUpload(o) => q = o
    /\ ~hasty =>
        /\ Count(blocks) <= MaxFiles
        /\ \A f \in FileNames : blocks[f] <= 1
        /\ \A q \in flight : q.live /\ q.kind = "upload" =>
              /\ Count(blocks) + Cardinality(q.what) <= MaxFiles
              /\ \A f \in q.what : blocks[f] = 0

\* A download in flight is the card's own and made with the token that is held.
CardInv ==
    /\ \A q \in flight : q.kind = "statistics" => q.live /\ q.token = token /\ page = "app"
    /\ NoStuckCard

TabInv == TabTypes /\ PlaceInv /\ VerifyInv /\ IdentityInv /\ UploadInv /\ CardInv

LEMMA RowsApart ==
  ASSUME NEW k \in Nat, NEW l \in Nat, NEW m \in Nat, k < l
  PROVE  k * m + m <= l * m
  <1> PICK d \in Nat : l = k + 1 + d
    <2>1. l - k - 1 \in Nat /\ l = k + 1 + (l - k - 1)
      OBVIOUS
    <2>2. QED
      BY <2>1
  <1>1. l * m = k * m + m + d * m
    OBVIOUS
  <1>2. d * m >= 0 /\ d * m \in Int /\ k * m \in Int
    OBVIOUS
  <1>3. QED
    BY <1>1, <1>2

\* The i-th of m in row k.
Number(k, m, i) == k * m + i

LEMMA NumberIsApart ==
  ASSUME NEW k \in Nat, NEW l \in Nat, NEW m \in Nat, NEW i \in 1 .. m, NEW j \in 1 .. m, k < l
  PROVE  Number(k, m, i) # Number(l, m, j)
  <1> PICK x, y : x = k * m /\ y = l * m
    OBVIOUS
  <1>1. x \in Nat /\ y \in Nat
    OBVIOUS
  <1>2. x + m <= y
    BY RowsApart
  <1>3. x + i # y + j
    BY <1>1, <1>2
  <1>4. QED
    BY <1>3 DEF Number

LEMMA NumberIsNew ==
  ASSUME NEW k \in Nat, NEW l \in Nat, NEW m \in Nat, NEW i \in 1 .. m, NEW j \in 1 .. m,
         Number(k, m, i) = Number(l, m, j)
  PROVE  k = l /\ i = j
  <1>1. ~(k < l) /\ ~(l < k)
    BY NumberIsApart
  <1>2. k = l
    BY <1>1
  <1> PICK x : x = k * m
    OBVIOUS
  <1>3. x \in Nat /\ x + i = x + j
    BY <1>2 DEF Number
  <1>4. QED
    BY <1>2, <1>3

\* Count: the blocks, numbered by name and by repetition.
LEMMA GridIsFinite ==
  ASSUME NEW F, IsFiniteSet(F), NEW m \in Nat
  PROVE  IsFiniteSet(F \X (1 .. m))
  <1> PICK n : n = Cardinality(F)
    OBVIOUS
  <1>1. n \in Nat /\ ExistsBijection(1 .. n, F)
    BY FS_CardinalityType
  <1> PICK e \in Bijection(1 .. n, F) : TRUE
    BY <1>1 DEF ExistsBijection
  <1>2. \A f \in F : \E k \in 1 .. n : e[k] = f
    BY DEF Bijection, Surjection
  <1> DEFINE at == [f \in F |-> CHOOSE k \in 1 .. n : e[k] = f]
             S == F \X (1 .. m)
             T == 0 .. (n * m + m)
             g == [p \in S |-> Number(at[p[1]], m, p[2])]
  <1>3. \A f \in F : at[f] \in 1 .. n /\ e[at[f]] = f
    BY <1>2
  <1> HIDE DEF at
  <1>4. \A k \in 1 .. n, i \in 1 .. m : Number(k, m, i) \in T
    <2> SUFFICES ASSUME NEW k \in 1 .. n, NEW i \in 1 .. m PROVE Number(k, m, i) \in T
      OBVIOUS
    <2> PICK x, y : x = k * m /\ y = n * m
      OBVIOUS
    <2>1. x <= y /\ x \in Nat /\ y \in Nat
      BY <1>1
    <2>2. x + i \in 0 .. (y + m)
      BY <2>1
    <2>3. QED
      BY <2>2 DEF Number
  <1>5. g \in [S -> T]
    BY <1>3, <1>4
  <1>6. ASSUME NEW p \in S, NEW q \in S, g[p] = g[q] PROVE p = q
    <2> PICK a \in F, b \in F : a = p[1] /\ b = q[1]
      OBVIOUS
    <2> PICK i \in 1 .. m, j \in 1 .. m : i = p[2] /\ j = q[2]
      OBVIOUS
    <2>1. at[a] \in Nat /\ at[b] \in Nat
      BY <1>1, <1>3
    <2>2. Number(at[a], m, i) = Number(at[b], m, j)
      BY <1>6
    <2>3. at[a] = at[b] /\ i = j
      BY <2>1, <2>2, NumberIsNew
    <2>4. a = b
      BY <1>3, <2>3
    <2>5. p = <<a, i>> /\ q = <<b, j>>
      OBVIOUS
    <2>6. QED
      BY <2>3, <2>4, <2>5
  <1>7. g \in Injection(S, T)
    BY <1>5, <1>6 DEF Injection, IsInjective
  <1>8. IsFiniteSet(T)
    <2>1. n * m + m \in Int
      BY <1>1
    <2>2. QED
      BY <2>1, FS_Interval
  <1>9. QED
    BY <1>7, <1>8, FS_Injection

Blocks(b) == {p \in FileNames \X (1 .. 2 * MaxFiles) : p[2] <= b[p[1]]}

LEMMA BlocksAreFinite ==
  ASSUME NEW b
  PROVE  IsFiniteSet(Blocks(b)) /\ Count(b) = Cardinality(Blocks(b)) /\ Count(b) \in Nat
  <1>1. 2 * MaxFiles \in Nat
    BY MaxFilesAssumption
  <1>2. IsFiniteSet(Blocks(b))
    BY <1>1, MaxFilesAssumption, GridIsFinite, FS_Subset DEF Blocks
  <1>3. QED
    BY <1>2, FS_CardinalityType DEF Count, Blocks

LEMMA NoFilesCount == Count(NoFiles) = 0
  <1>1. Blocks(NoFiles) = {}
    BY MaxFilesAssumption DEF Blocks, NoFiles
  <1>2. QED
    BY <1>1, BlocksAreFinite, FS_EmptySet

LEMMA CountShrinks ==
  ASSUME NEW b \in [FileNames -> Nat], NEW c \in [FileNames -> Nat], \A f \in FileNames : c[f] <= b[f]
  PROVE  Count(c) <= Count(b)
  <1>1. Blocks(c) \subseteq Blocks(b)
    BY MaxFilesAssumption DEF Blocks
  <1>2. QED
    BY <1>1, BlocksAreFinite, FS_Subset

\* Names that were not there count once each.
LEMMA CountGrows ==
  ASSUME NEW b \in [FileNames -> Nat], NEW F \in SUBSET FileNames, \A f \in F : b[f] = 0,
         NEW c, c = [f \in FileNames |-> IF f \notin F THEN b[f] ELSE b[f] + 1]
  PROVE  Count(c) <= Count(b) + Cardinality(F)
  <1> DEFINE S == Blocks(c) \ Blocks(b)
             g == [p \in S |-> p[1]]
  <1>1. \A p \in S : p[1] \in F /\ p = <<p[1], 1>>
    BY MaxFilesAssumption DEF Blocks
  <1>2. IsFiniteSet(F) /\ Cardinality(F) \in Nat
    BY MaxFilesAssumption, FS_Subset, FS_CardinalityType
  <1>3. g \in Injection(S, F)
    BY <1>1 DEF Injection, IsInjective
  <1>4. IsFiniteSet(S) /\ Cardinality(S) <= Cardinality(F)
    BY <1>2, <1>3, FS_Injection
  <1> HIDE DEF S
  <1>5. Cardinality(S) \in Nat
    BY <1>4, FS_CardinalityType
  <1>6. Blocks(c) \subseteq Blocks(b) \cup S
    BY DEF S
  <1>7. /\ IsFiniteSet(Blocks(b) \cup S)
        /\ Cardinality(Blocks(b) \cup S) <= Count(b) + Cardinality(S)
    <2>1. Cardinality(Blocks(b) \cap S) \in Nat
      BY <1>4, FS_Subset, FS_CardinalityType
    <2>2. IsFiniteSet(Blocks(b)) /\ Count(b) = Cardinality(Blocks(b)) /\ Count(b) \in Nat
      BY BlocksAreFinite
    <2>3. /\ IsFiniteSet(Blocks(b) \cup S)
          /\ Cardinality(Blocks(b) \cup S)
                = Cardinality(Blocks(b)) + Cardinality(S) - Cardinality(Blocks(b) \cap S)
      BY <1>4, <2>2, FS_Union
    <2>4. QED
      BY <1>5, <2>1, <2>2, <2>3
  <1>8. Count(c) <= Cardinality(Blocks(b) \cup S) /\ Cardinality(Blocks(b) \cup S) \in Nat
    BY <1>6, <1>7, BlocksAreFinite, FS_Subset, FS_CardinalityType
  <1>9. QED
    BY <1>2, <1>4, <1>5, <1>7, <1>8, BlocksAreFinite

LEMMA QueryIsAsked ==
  ASSUME NEW kind \in AuthKinds \cup FileKinds, NEW t \in Tokens,
         NEW F \in SUBSET (Requests \cup FileNames)
  PROVE  LET q == Query(kind, t, F)
         IN  q \in Asked /\ q.kind = kind /\ q.token = t /\ q.what = F /\ q.live
  BY DEF Query, Asked

LEMMA OrphansAreAsked ==
  ASSUME NEW Q \in SUBSET Asked, NEW o \in Orphaned(Q)
  PROVE  /\ o \in Asked /\ ~o.live
         /\ \E q \in Q : o.kind = q.kind /\ o.what = q.what /\ o.token = q.token
  <1> PICK q \in Q : o = [q EXCEPT !.live = FALSE]
    BY DEF Orphaned
  <1>1. q \in Asked
    OBVIOUS
  <1>2. QED
    BY <1>1 DEF Asked

LEMMA TabInvInit == ConsoleInit => TabInv
  <1> SUFFICES ASSUME ConsoleInit PROVE TabInv
    OBVIOUS
  <1> USE DEF ConsoleInit, ClientInit
  <1>1. TabTypes
    BY DEF TabTypes, Tokens, NoFiles
  <1>2. PlaceInv /\ VerifyInv /\ IdentityInv /\ CardInv
    BY DEF PlaceInv, VerifyInv, IdentityInv, CardInv, NoStuckCard
  <1>3. UploadInv
    BY NoFilesCount, MaxFilesAssumption DEF UploadInv, NoFiles
  <1>4. QED
    BY <1>1, <1>2, <1>3 DEF TabInv

\* A page begins with no file, no card and at most one request of its own.
LEMMA ArrivesKeeps ==
  ASSUME TabInv, NEW p \in {"login", "app"}, NEW Q \in SUBSET Asked, Arrives(p, Q),
         \A q \in Q : /\ ~q.live /\ q.kind # "statistics"
                      /\ q.kind \in FileKinds => q.what \subseteq FileNames
  PROVE  TabInv'
  <1> PICK kind : kind = IF p = "app" THEN "verify" ELSE "probe"
    OBVIOUS
  <1> PICK n : n = Query(kind, token, {})
    OBVIOUS
  <1>1. token \in Tokens /\ token' = token
    BY DEF TabInv, TabTypes, Arrives
  <1>2. n \in Asked /\ n.kind = kind /\ n.token = token /\ n.live
    BY <1>1, QueryIsAsked DEF AuthKinds
  <1>3. \A q \in flight' : q \in Q \/ (q = n /\ token # NoToken)
    BY DEF Arrives
  <1>4. /\ page' = p /\ shown' = NoUser /\ failed' = FALSE /\ mixed' = FALSE
        /\ blocks' = NoFiles /\ uploading' = FALSE /\ hasty' = FALSE /\ card' = "idle"
        /\ going' \in {"login", "stay"} /\ issued' = issued
    BY DEF Arrives
  <1>5. TabTypes'
    BY <1>1, <1>2, <1>3, <1>4 DEF TabInv, TabTypes, NoFiles, FileKinds
  <1>6. PlaceInv' /\ VerifyInv' /\ CardInv' /\ IdentityInv'
    BY <1>1, <1>2, <1>3, <1>4 DEF PlaceInv, VerifyInv, CardInv, IdentityInv, NoStuckCard, AtVerify, AuthKinds, FileKinds
  <1>7. UploadInv'
    BY <1>2, <1>3, <1>4, NoFilesCount, MaxFilesAssumption DEF UploadInv, AtUpload, NoFiles
  <1>8. QED
    BY <1>5, <1>6, <1>7 DEF TabInv

\* The children of AuthSession are unmounted.
LEMMA UnmountedLeaves ==
  ASSUME TabInv, NEW Q \in SUBSET flight, Unmounted(Q)
  PROVE  /\ \A q \in flight' : \/ q \in Q /\ q.kind \notin FileKinds
                               \/ /\ q \in Asked /\ ~q.live /\ q.kind # "statistics"
                                  /\ q.kind \in FileKinds => q.what \subseteq FileNames
         /\ UploadInv' /\ blocks' \in [FileNames -> Nat] /\ uploading' = FALSE /\ hasty' = hasty
         /\ card' = "idle"
  <1>1. Q \subseteq Asked
    BY DEF TabInv, TabTypes
  <1>2. ASSUME NEW q \in flight'
        PROVE  \/ q \in Q /\ q.kind \notin FileKinds
               \/ /\ q \in Asked /\ ~q.live /\ q.kind # "statistics"
                  /\ q.kind \in FileKinds => q.what \subseteq FileNames
    <2>1. CASE q \in Q /\ q.kind \notin FileKinds
      BY <2>1
    <2>2. CASE q \in Orphaned({o \in Q : o.kind \in {"upload", "remove"}})
      BY <1>1, <2>2, OrphansAreAsked DEF TabInv, TabTypes
    <2>3. QED
      BY <2>1, <2>2 DEF Unmounted
  <1>3. UploadInv'
    BY <1>2, NoFilesCount, MaxFilesAssumption DEF Unmounted, UploadInv, AtUpload, NoFiles, FileKinds
  <1>4. QED
    BY <1>2, <1>3 DEF Unmounted, NoFiles

\* Requests answered, and requests of the login page sent, without more ado.
LEMMA OnlyFlightKeeps ==
  ASSUME TabInv, NEW Q, UNCHANGED <<page, shown, failed, mixed, token, uploadVars, card>>, flight' = Q,
         issued' \in Nat, going' \in {"login", "app", "stay"},
         \A q \in flight \ Q : q.kind # "statistics",
         \A q \in Q \ flight : /\ q \in Asked /\ q.kind \in AuthKinds \ {"verify"}
                               /\ q.live => page = "login"
  PROVE  TabInv'
  <1> USE DEF TabInv
  <1>1. TabTypes' /\ PlaceInv' /\ VerifyInv' /\ IdentityInv'
    BY DEF TabTypes, PlaceInv, VerifyInv, IdentityInv, AtVerify, FileKinds, AuthKinds, uploadVars
  <1>2. UploadInv'
    BY DEF UploadInv, AtUpload, AuthKinds, uploadVars
  <1>3. CardInv'
    BY DEF CardInv, NoStuckCard, Live, AuthKinds
  <1>4. QED
    BY <1>1, <1>2, <1>3

LEMMA UnauthorizedKeeps ==
  ASSUME TabInv, NEW q \in flight, Unauthorized(q)
  PROVE  TabInv'
  <1> USE DEF TabInv
  <1>1. CASE page = "app"
    <2>1. /\ page' = "app" /\ going' = "login" /\ shown' = NoUser /\ token' = NoToken
          /\ Unmounted(flight \ {q}) /\ issued' = issued /\ failed' = failed
          /\ mixed' = (mixed \/ Late(q))
      BY <1>1 DEF Unauthorized, GoToLogin
    <2> DEFINE Q == flight \ {q}
    <2>2. /\ \A o \in flight' : \/ o \in Q /\ o.kind \notin FileKinds
                                \/ /\ o \in Asked /\ ~o.live /\ o.kind # "statistics"
                                   /\ o.kind \in FileKinds => o.what \subseteq FileNames
          /\ UploadInv' /\ blocks' \in [FileNames -> Nat] /\ uploading' = FALSE /\ hasty' = hasty
          /\ card' = "idle"
      BY <2>1, UnmountedLeaves
    <2>3. TabTypes'
      <3>1. flight' \subseteq Asked /\ \A o \in flight' : o.kind \in FileKinds => o.what \subseteq FileNames
        BY <2>2 DEF TabTypes
      <3>2. mixed' \in BOOLEAN
        BY <2>1
      <3>3. QED
        BY <2>1, <2>2, <3>1, <3>2 DEF TabTypes, Tokens
    <2>4. PlaceInv' /\ VerifyInv' /\ CardInv'
      <3>1. PlaceInv'
        BY <1>1, <2>1, <2>2 DEF PlaceInv
      <3>2. VerifyInv'
        BY <1>1, <2>1, <2>2 DEF VerifyInv, AtVerify
      <3>3. CardInv'
        BY <2>2 DEF CardInv, NoStuckCard, FileKinds
      <3>4. QED
        BY <3>1, <3>2, <3>3
    <2>5. IdentityInv'
      <3>1. CASE ~q.live
        BY <1>1, <2>1, <3>1 DEF IdentityInv, Late
      <3>2. CASE q.live
        <4>1. \A o \in flight \ {q} : ~AtVerify(o)
          BY <1>1, <3>2 DEF PlaceInv, VerifyInv, AtVerify
        <4>2. \A o \in flight' : ~AtVerify(o)
          BY <4>1, <2>2 DEF AtVerify
        <4>3. QED
          BY <2>1, <4>2 DEF IdentityInv
      <3>3. QED
        BY <3>1, <3>2 DEF TabTypes, PlaceInv
    <2>6. QED
      BY <2>2, <2>3, <2>4, <2>5
  <1>2. CASE page = "login"
    <2>1. /\ token' = NoToken /\ flight' = flight \ {q}
          /\ UNCHANGED <<page, going, issued, shown, failed, card, uploadVars>>
          /\ mixed' = mixed
      BY <1>2 DEF Unauthorized, Late, TabTypes
    <2>2. TabTypes' /\ PlaceInv' /\ VerifyInv' /\ IdentityInv'
      BY <1>2, <2>1 DEF TabTypes, PlaceInv, VerifyInv, IdentityInv, AtVerify, Tokens, uploadVars
    <2>3. UploadInv'
      BY <2>1 DEF UploadInv, AtUpload, uploadVars
    <2>4. CardInv'
      BY <1>2, <2>1 DEF CardInv, NoStuckCard, Live
    <2>5. QED
      BY <2>2, <2>3, <2>4
  <1>3. QED
    BY <1>1, <1>2 DEF TabTypes

LEMMA TokenBecomesKeeps ==
  ASSUME TabInv, NEW q \in flight, q.kind \in {"login", "establish"}, NEW Q, NEW t \in Tokens,
         TokenBecomes(t, q, Q), issued' \in Nat,
         \A o \in Q \ flight : o \in Asked /\ o.kind = "establish" /\ o.live = q.live
  PROVE  TabInv'
  <1> USE DEF TabInv
  <1>1. /\ UNCHANGED <<page, going, shown, failed, uploadVars>> /\ token' = t
        /\ card' = "idle" /\ flight' = {o \in Q : o.kind # "statistics"}
        /\ mixed' = (mixed \/ Late(q))
    BY DEF TokenBecomes, CardCancels
  <1>2. q.live => page = "login"
    BY DEF PlaceInv, FileKinds, TabTypes
  <1>3. TabTypes'
    BY <1>1 DEF TabTypes, Late, FileKinds, uploadVars
  <1>4. PlaceInv' /\ VerifyInv' /\ CardInv'
    BY <1>1, <1>2 DEF PlaceInv, VerifyInv, CardInv, NoStuckCard, AtVerify, FileKinds, AuthKinds
  <1>5. IdentityInv'
    <2>1. CASE page = "app"
      BY <1>1, <1>2, <2>1 DEF IdentityInv, Late
    <2>2. CASE page = "login"
      BY <1>1, <2>2, <1>4 DEF IdentityInv, PlaceInv, AtVerify
    <2>3. QED
      BY <2>1, <2>2 DEF TabTypes
  <1>6. UploadInv'
    BY <1>1 DEF UploadInv, AtUpload, uploadVars
  <1>7. QED
    BY <1>3, <1>4, <1>5, <1>6

LEMMA AuthAnswerKeeps ==
  ASSUME TabInv, NEW q \in flight, NEW a,
         \/ RegisterAnswered(q, a) \/ LoginAnswered(q, a) \/ EstablishAnswered(q, a)
         \/ ProbeAnswered(q, a)
  PROVE  TabInv'
  <1>1. q \in Asked /\ issued \in Nat /\ NoToken \in Tokens /\ q.live \in BOOLEAN /\ q.who \in Account \cup {NoUser}
        /\ going \in {"login", "app", "stay"}
    BY DEF TabInv, TabTypes, Asked, Tokens
  <1>2. q.live /\ q.kind \in AuthKinds \ {"verify"} => page = "login"
    BY DEF TabInv, TabTypes, PlaceInv, FileKinds, AuthKinds
  <1>3. CASE RegisterAnswered(q, a)
    <2> PICK n : n = SignIn("login", q.who, {}, TRUE, q.live)
      OBVIOUS
    <2>1. n \in Asked /\ n.kind = "login" /\ n.live = q.live
      BY <1>1 DEF SignIn, Asked, AuthKinds
    <2>2. flight' \subseteq (flight \ {q}) \cup {n} /\ flight \ {q} \subseteq flight' /\ q.kind = "register"
      BY <1>3 DEF RegisterAnswered, OnlyFlight
    <2>3. \A o \in flight' \ flight : o = n
      BY <2>2
    <2>4. UNCHANGED <<page, shown, failed, mixed, token, issued, going, uploadVars, card>>
      BY <1>3 DEF RegisterAnswered, OnlyFlight, sessionVars
    <2>5. QED
      BY <1>1, <1>2, <2>1, <2>2, <2>3, <2>4, OnlyFlightKeeps DEF AuthKinds
  <1>4. ASSUME flight' = flight \ {q}, q.kind # "statistics", going' \in {going, "app"},
               UNCHANGED <<page, shown, failed, mixed, token, issued, uploadVars, card>>
        PROVE  TabInv'
    BY <1>1, <1>4, OnlyFlightKeeps
  <1>5. CASE LoginAnswered(q, a)
    <2>1. CASE a = "ok"
      <3> PICK t : t = <<q.who, issued + 1>>
        OBVIOUS
      <3>1. t \in Tokens
        BY <1>1 DEF Tokens
      <3> PICK n : n = [Query("establish", t, {}) EXCEPT !.live = q.live]
        OBVIOUS
      <3>2. n \in Asked /\ n.kind = "establish" /\ n.live = q.live
        BY <1>1, <3>1 DEF Query, Asked, AuthKinds
      <3>3. TokenBecomes(t, q, (flight \ {q}) \cup {n}) /\ issued' = issued + 1
        BY <1>5, <2>1 DEF LoginAnswered
      <3>4. \A o \in ((flight \ {q}) \cup {n}) \ flight : o = n
        OBVIOUS
      <3>5. q.kind = "login" /\ issued' \in Nat
        BY <1>1, <1>5, <3>3 DEF LoginAnswered
      <3>6. QED
        BY <3>1, <3>2, <3>3, <3>4, <3>5, TokenBecomesKeeps
    <2>2. CASE a = "unauthorized"
      BY <1>5, <2>2, UnauthorizedKeeps DEF LoginAnswered
    <2>3. CASE a # "ok" /\ a # "unauthorized"
      BY <1>4, <1>5, <2>3 DEF LoginAnswered, OnlyFlight, sessionVars
    <2>4. QED
      BY <2>1, <2>2, <2>3
  <1>6. CASE EstablishAnswered(q, a)
    <2>1. CASE a = "ok"
      BY <1>4, <1>6, <2>1 DEF EstablishAnswered
    <2>2. CASE a = "unauthorized"
      BY <1>6, <2>2, UnauthorizedKeeps DEF EstablishAnswered
    <2>3. CASE a # "ok" /\ a # "unauthorized"
      <3>1. TokenBecomes(NoToken, q, flight \ {q}) /\ issued' = issued
        BY <1>6, <2>3 DEF EstablishAnswered
      <3>2. QED
        BY <1>1, <1>6, <3>1, TokenBecomesKeeps DEF EstablishAnswered
    <2>4. QED
      BY <2>1, <2>2, <2>3
  <1>7. CASE ProbeAnswered(q, a)
    <2>1. CASE a = "unauthorized"
      BY <1>7, <2>1, UnauthorizedKeeps DEF ProbeAnswered
    <2>2. CASE a # "unauthorized"
      BY <1>4, <1>7, <2>2 DEF ProbeAnswered, OnlyFlight, sessionVars
    <2>3. QED
      BY <2>1, <2>2
  <1>8. QED
    BY <1>3, <1>5, <1>6, <1>7

LEMMA VerifyAnswerKeeps ==
  ASSUME TabInv, NEW q \in flight, NEW a, VerifyAnswered(q, a)
  PROVE  TabInv'
  <1>1. q.kind = "verify" /\ q \in Asked
    BY DEF VerifyAnswered, TabInv, TabTypes
  <1>2. CASE a = "unauthorized"
    BY <1>2, UnauthorizedKeeps DEF VerifyAnswered
  <1>3. CASE a # "unauthorized" /\ q.live
    <2>1. /\ shown' = IF a = "ok" THEN q.token[1] ELSE shown
          /\ failed' = (failed \/ a # "ok")
          /\ flight' = flight \ {q}
          /\ UNCHANGED <<page, going, token, issued, mixed, uploadVars, card>>
      BY <1>3 DEF VerifyAnswered
    <2>2. page = "app" /\ shown = NoUser /\ ~failed
      BY <1>1, <1>3 DEF TabInv, TabTypes, PlaceInv, VerifyInv, AtVerify, AuthKinds
    <2>3. \A o \in flight' : ~AtVerify(o) /\ ~(o.live /\ o.kind \in FileKinds)
      BY <1>1, <1>3, <2>1, <2>2 DEF TabInv, VerifyInv, AtVerify
    <2>4. TabTypes'
      BY <2>1 DEF TabInv, TabTypes, uploadVars
    <2>5. PlaceInv' /\ VerifyInv'
      BY <2>1, <2>2, <2>3 DEF TabInv, PlaceInv, VerifyInv
    <2>6. IdentityInv'
      BY <1>1, <1>3, <2>1, <2>2, <2>3 DEF TabInv, IdentityInv, AtVerify
    <2>7. UploadInv'
      BY <2>1 DEF TabInv, UploadInv, AtUpload, uploadVars
    <2>8. CardInv'
      BY <1>1, <2>1 DEF TabInv, CardInv, NoStuckCard, Live
    <2>9. QED
      BY <2>4, <2>5, <2>6, <2>7, <2>8 DEF TabInv
  <1>4. CASE a # "unauthorized" /\ ~q.live
    <2>1. flight' = flight \ {q} /\ UNCHANGED <<sessionVars, uploadVars, card>>
      BY <1>4 DEF VerifyAnswered, OnlyFlight
    <2>2. QED
      BY <1>1, <2>1, OnlyFlightKeeps DEF TabInv, TabTypes, sessionVars
  <1>5. QED
    BY <1>2, <1>3, <1>4

\* Answers to uploads and removals.
LEMMA FileAnswerKeeps ==
  ASSUME TabInv, NEW q \in flight, NEW a, FileAnswered(q, a)
  PROVE  TabInv'
  <1>1. q.kind \in {"upload", "remove"} /\ q \in Asked /\ q.what \in SUBSET FileNames
    BY DEF FileAnswered, TabInv, TabTypes, FileKinds
  <1>2. CASE ~Superseded(q) /\ a = "unauthorized"
    BY <1>2, UnauthorizedKeeps DEF FileAnswered
  <1>3. CASE ~(~Superseded(q) /\ a = "unauthorized")
    <2> DEFINE done == ~Superseded(q) /\ (a = "ok" \/ (q.kind = "remove" /\ a = "gone"))
    <2>1. /\ flight' = flight \ {q}
          /\ uploading' = IF q.live THEN FALSE ELSE uploading
          /\ blocks' = IF ~(q.live /\ done) THEN blocks
                       ELSE [f \in FileNames |->
                               IF f \notin q.what THEN blocks[f]
                               ELSE IF q.kind = "upload" THEN blocks[f] + 1 ELSE 0]
          /\ UNCHANGED <<sessionVars, hasty, card>>
      BY <1>3 DEF FileAnswered
    <2> HIDE DEF done
    <2>2. blocks \in [FileNames -> Nat] /\ blocks' \in [FileNames -> Nat]
      BY <2>1 DEF TabInv, TabTypes
    <2>3. TabTypes'
      BY <2>1, <2>2 DEF TabInv, TabTypes, sessionVars
    <2>4. PlaceInv' /\ VerifyInv' /\ IdentityInv'
      BY <2>1 DEF TabInv, PlaceInv, VerifyInv, IdentityInv, AtVerify, sessionVars
    <2>5. CardInv'
      BY <1>1, <2>1 DEF TabInv, CardInv, NoStuckCard, Live, sessionVars
    <2>6. UploadInv'
      <3>1. CASE ~q.live
        BY <2>1, <3>1 DEF TabInv, UploadInv
      <3>2. CASE q.live
        <4>1. \A o \in flight' : ~AtUpload(o)
          BY <1>1, <2>1, <3>2 DEF TabInv, UploadInv, AtUpload
        <4>2. \A o \in flight' : ~(o.live /\ o.kind = "upload")
          BY <4>1 DEF AtUpload
        <4>3. ASSUME ~hasty PROVE Count(blocks') <= MaxFiles /\ \A f \in FileNames : blocks'[f] <= 1
          <5>1. /\ Count(blocks) <= MaxFiles /\ \A f \in FileNames : blocks[f] <= 1
                /\ q.kind = "upload" => /\ Count(blocks) + Cardinality(q.what) <= MaxFiles
                                        /\ \A f \in q.what : blocks[f] = 0
            BY <3>2, <4>3 DEF TabInv, UploadInv
          <5>2. Count(blocks) \in Nat /\ Count(blocks') \in Nat /\ MaxFiles \in Nat
            BY BlocksAreFinite, MaxFilesAssumption
          <5>3. CASE ~done
            BY <2>1, <5>1, <5>3
          <5>4. CASE done /\ q.kind = "upload"
            <6>1. blocks' = [f \in FileNames |-> IF f \notin q.what THEN blocks[f] ELSE blocks[f] + 1]
              BY <2>1, <3>2, <5>4
            <6>2. Count(blocks') <= Count(blocks) + Cardinality(q.what)
              BY <1>1, <2>2, <5>1, <5>4, <6>1, CountGrows
            <6>3. Cardinality(q.what) \in Nat
              BY <1>1, MaxFilesAssumption, FS_Subset, FS_CardinalityType
            <6>4. \A f \in FileNames : blocks'[f] <= 1
              BY <5>1, <5>4, <6>1
            <6>5. Count(blocks') <= MaxFiles
              BY <5>1, <5>2, <5>4, <6>2, <6>3
            <6>6. QED
              BY <6>4, <6>5
          <5>5. CASE done /\ q.kind = "remove"
            <6>1. blocks' = [f \in FileNames |-> IF f \notin q.what THEN blocks[f] ELSE 0]
              BY <2>1, <3>2, <5>5
            <6>2. \A f \in FileNames : blocks'[f] <= blocks[f] /\ blocks'[f] <= 1
              BY <2>2, <5>1, <6>1
            <6>3. Count(blocks') <= Count(blocks)
              BY <2>2, <6>2, CountShrinks
            <6>4. QED
              BY <5>1, <5>2, <6>2, <6>3
          <5>6. QED
            BY <1>1, <5>3, <5>4, <5>5
        <4>4. hasty' = hasty
          BY <2>1
        <4>5. Count(blocks)' = Count(blocks')
          BY DEF Count
        <4>6. QED
          BY <4>1, <4>2, <4>3, <4>4, <4>5 DEF UploadInv
      <3>3. QED
        BY <3>1, <3>2
    <2>7. QED
      BY <2>3, <2>4, <2>5, <2>6 DEF TabInv
  <1>4. QED
    BY <1>2, <1>3

LEMMA DownloadAnswerKeeps ==
  ASSUME TabInv, NEW q \in flight, NEW a, DownloadAnswered(q, a)
  PROVE  TabInv'
  <1>1. q.kind = "statistics" /\ ~Superseded(q)
    BY DEF DownloadAnswered, TabInv, CardInv, Superseded
  <1>2. CASE a = "unauthorized"
    BY <1>1, <1>2, UnauthorizedKeeps DEF DownloadAnswered
  <1>3. CASE a # "unauthorized"
    <2>1. /\ card' \in {"success", "error"} /\ flight' = flight \ {q}
          /\ UNCHANGED <<sessionVars, uploadVars>>
      BY <1>1, <1>3 DEF DownloadAnswered
    <2>2. TabTypes' /\ PlaceInv' /\ VerifyInv' /\ IdentityInv'
      BY <2>1 DEF TabInv, TabTypes, PlaceInv, VerifyInv, IdentityInv, AtVerify, sessionVars, uploadVars
    <2>3. UploadInv'
      BY <2>1 DEF TabInv, UploadInv, AtUpload, uploadVars
    <2>4. CardInv'
      BY <2>1 DEF TabInv, CardInv, NoStuckCard, sessionVars
    <2>5. QED
      BY <2>2, <2>3, <2>4 DEF TabInv
  <1>4. QED
    BY <1>2, <1>3

LEMMA AnswerKeeps ==
  ASSUME TabInv, NEW q \in flight, NEW a, Answered(q, a)
  PROVE  TabInv'
  BY AuthAnswerKeeps, VerifyAnswerKeeps, FileAnswerKeeps, DownloadAnswerKeeps DEF Answered

\* Everything the user does but for the files of the message.
LEMMA SessionStepKeeps ==
  ASSUME TabInv, (\E p \in {"login", "app"} : Open(p)) \/ Navigate \/ Logout \/ Retry \/ Expire
  PROVE  TabInv'
  <1>1. CASE \E p \in {"login", "app"} : Open(p)
    BY <1>1, ArrivesKeeps DEF Open
  <1>2. CASE Navigate
    <2>1. CASE going = page
      BY <1>2, <2>1, OnlyFlightKeeps DEF Navigate, TabInv, TabTypes
    <2>2. CASE going # page
      <3> DEFINE Q == {q \in flight : q.kind # "statistics"}
      <3>1. going \in {"login", "app"} /\ Arrives(going, Orphaned(Q)) /\ Q \subseteq Asked
        BY <1>2, <2>2 DEF Navigate, TabInv, TabTypes
      <3>2. \A o \in Orphaned(Q) : /\ o \in Asked /\ ~o.live /\ o.kind # "statistics"
                                   /\ o.kind \in FileKinds => o.what \subseteq FileNames
        BY <3>1, OrphansAreAsked DEF TabInv, TabTypes
      <3>3. QED
        BY <3>1, <3>2, ArrivesKeeps
    <2>3. QED
      BY <2>1, <2>2
  <1>3. CASE Logout
    <2>1. /\ page = "app" /\ page' = page /\ token' = NoToken /\ shown' = NoUser /\ going' = "login"
          /\ Unmounted(flight) /\ UNCHANGED <<issued, failed, mixed>>
          /\ failed \/ shown # NoUser
      BY <1>3 DEF Logout, GoToLogin, Mounted
    <2>2. /\ \A o \in flight' : \/ o \in flight /\ o.kind \notin FileKinds
                                \/ /\ o \in Asked /\ ~o.live /\ o.kind # "statistics"
                                   /\ o.kind \in FileKinds => o.what \subseteq FileNames
          /\ UploadInv' /\ blocks' \in [FileNames -> Nat] /\ uploading' = FALSE /\ hasty' = hasty
          /\ card' = "idle"
      BY <2>1, UnmountedLeaves
    <2>3. \A o \in flight : ~AtVerify(o)
      BY <2>1 DEF TabInv, VerifyInv
    <2>4. TabTypes'
      BY <2>1, <2>2 DEF TabInv, TabTypes, Tokens
    <2>5. PlaceInv'
      BY <2>1, <2>2 DEF TabInv, PlaceInv
    <2>6. VerifyInv' /\ IdentityInv'
      BY <2>1, <2>2, <2>3 DEF VerifyInv, IdentityInv, AtVerify
    <2>7. CardInv'
      BY <2>2 DEF CardInv, NoStuckCard, FileKinds
    <2>8. QED
      BY <2>2, <2>4, <2>5, <2>6, <2>7 DEF TabInv
  <1>4. CASE Retry
    <2>1. CASE token = NoToken
      BY <1>4, <2>1, OnlyFlightKeeps DEF Retry, TabInv, TabTypes
    <2>2. CASE token # NoToken
      <3> PICK n : n = Query("verify", token, {})
        OBVIOUS
      <3>1. n \in Asked /\ n.kind = "verify" /\ n.token = token /\ n.live
        BY QueryIsAsked DEF AuthKinds, TabInv, TabTypes
      <3>2. /\ page = "app" /\ failed /\ ~failed' /\ failed' \in BOOLEAN /\ flight' = flight \cup {n}
            /\ UNCHANGED <<page, going, token, issued, shown, mixed, uploadVars, card>>
        BY <1>4, <2>2 DEF Retry
      <3>3. \A o \in flight : ~AtVerify(o)
        BY <3>2 DEF TabInv, VerifyInv
      <3>4. TabTypes'
        BY <3>1, <3>2 DEF TabInv, TabTypes, FileKinds, uploadVars
      <3>5. PlaceInv'
        BY <3>1, <3>2 DEF TabInv, PlaceInv
      <3>6. shown = NoUser
        BY <3>2 DEF TabInv, VerifyInv
      <3>7. VerifyInv' /\ IdentityInv'
        BY <2>2, <3>1, <3>2, <3>3, <3>6 DEF TabInv, VerifyInv, IdentityInv, AtVerify, FileKinds
      <3>8. UploadInv'
        BY <3>1, <3>2 DEF TabInv, UploadInv, AtUpload, uploadVars
      <3>9. CardInv'
        BY <3>1, <3>2 DEF TabInv, CardInv, NoStuckCard, Live
      <3>10. QED
        BY <3>4, <3>5, <3>7, <3>8, <3>9 DEF TabInv
    <2>3. QED
      BY <2>1, <2>2
  <1>5. CASE Expire
    BY <1>5, OnlyFlightKeeps DEF Expire, TabInv, TabTypes
  <1>6. QED
    BY <1>1, <1>2, <1>3, <1>4, <1>5

\* A request of a component that AuthSession has mounted.
LEMMA MountedAsks ==
  ASSUME TabInv, Mounted, NEW kind \in FileKinds, NEW F \in SUBSET FileNames,
         NEW n, n = Query(kind, token, F), flight' = flight \cup {n},
         UNCHANGED sessionVars
  PROVE  /\ n \in Asked /\ n.kind = kind /\ n.token = token /\ n.what = F /\ n.live
         /\ flight' \subseteq Asked /\ \A q \in flight' : q.kind \in FileKinds => q.what \subseteq FileNames
         /\ PlaceInv' /\ VerifyInv' /\ IdentityInv'
  <1>1. n \in Asked /\ n.kind = kind /\ n.token = token /\ n.what = F /\ n.live
    BY QueryIsAsked DEF TabInv, TabTypes
  <1>2. page = "app" /\ shown # NoUser /\ kind # "verify"
    BY DEF Mounted, FileKinds
  <1>3. PlaceInv' /\ VerifyInv' /\ IdentityInv'
    BY <1>1, <1>2 DEF TabInv, PlaceInv, VerifyInv, IdentityInv, AtVerify, sessionVars
  <1>4. QED
    BY <1>1, <1>3 DEF TabInv, TabTypes

LEMMA AttachmentStepKeeps ==
  ASSUME TabInv,
         \/ \E F \in SUBSET FileNames : Upload(F)
         \/ \E f \in FileNames : RemoveBlock(f)
         \/ Synchronize \/ SubmitMessage
  PROVE  TabInv'
  <1>1. ASSUME NEW F \in SUBSET FileNames, Upload(F) PROVE TabInv'
    <2> PICK n : n = Query("upload", token, F)
      OBVIOUS
    <2>1. /\ Mounted /\ ~uploading /\ uploading' = TRUE /\ Fits(F) /\ hasty' = (hasty \/ synced # blocks)
          /\ flight' = flight \cup {n} /\ UNCHANGED <<sessionVars, blocks, card>>
      BY <1>1 DEF Upload, Busy
    <2>2. /\ n \in Asked /\ n.kind = "upload" /\ n.what = F /\ n.live
          /\ flight' \subseteq Asked /\ \A q \in flight' : q.kind \in FileKinds => q.what \subseteq FileNames
          /\ PlaceInv' /\ VerifyInv' /\ IdentityInv'
      BY <2>1, MountedAsks DEF FileKinds
    <2>3. TabTypes'
      BY <2>1, <2>2 DEF TabInv, TabTypes, sessionVars
    <2>4. UploadInv'
      <3>1. \A q \in flight : ~AtUpload(q) /\ ~(q.live /\ q.kind = "upload")
        BY <2>1 DEF TabInv, UploadInv, AtUpload
      <3>2. hasty' \/ (~hasty /\ synced = blocks)
        BY <2>1 DEF TabInv, TabTypes
      <3>3. Count(blocks)' = Count(blocks)
        BY <2>1 DEF Count
      <3>4. ~hasty' => Count(blocks) + Cardinality(F) <= MaxFiles /\ \A f \in F : blocks[f] = 0
        BY <2>1, <3>2 DEF Fits
      <3>5. QED
        BY <2>1, <2>2, <3>1, <3>2, <3>3, <3>4 DEF TabInv, UploadInv, AtUpload
    <2>5. CardInv'
      BY <2>1, <2>2 DEF TabInv, CardInv, NoStuckCard, Live, sessionVars
    <2>6. QED
      BY <2>2, <2>3, <2>4, <2>5 DEF TabInv
  <1>2. ASSUME NEW f \in FileNames, RemoveBlock(f) PROVE TabInv'
    <2> PICK n : n = Query("remove", token, {f})
      OBVIOUS
    <2>1. /\ Mounted /\ ~uploading /\ uploading' = TRUE
          /\ flight' = flight \cup {n} /\ UNCHANGED <<sessionVars, blocks, hasty, card>>
      BY <1>2 DEF RemoveBlock
    <2>2. /\ n \in Asked /\ n.kind = "remove" /\ n.live
          /\ flight' \subseteq Asked /\ \A q \in flight' : q.kind \in FileKinds => q.what \subseteq FileNames
          /\ PlaceInv' /\ VerifyInv' /\ IdentityInv'
      BY <2>1, MountedAsks DEF FileKinds
    <2>3. TabTypes'
      BY <2>1, <2>2 DEF TabInv, TabTypes, sessionVars
    <2>4. UploadInv'
      <3>1. \A q \in flight : ~AtUpload(q) /\ ~(q.live /\ q.kind = "upload")
        BY <2>1 DEF TabInv, UploadInv, AtUpload
      <3>2. Count(blocks)' = Count(blocks)
        BY <2>1 DEF Count
      <3>3. QED
        BY <2>1, <2>2, <3>1, <3>2 DEF TabInv, UploadInv, AtUpload
    <2>5. CardInv'
      BY <2>1, <2>2 DEF TabInv, CardInv, NoStuckCard, Live, sessionVars
    <2>6. QED
      BY <2>2, <2>3, <2>4, <2>5 DEF TabInv
  <1>3. CASE Synchronize
    <2>1. UNCHANGED <<sessionVars, blocks, uploading, hasty, card, flight>>
      BY <1>3 DEF Synchronize
    <2>2. QED
      BY <2>1 DEF TabInv, TabTypes, PlaceInv, VerifyInv, IdentityInv, UploadInv, CardInv, NoStuckCard, Live,
         AtVerify, AtUpload, sessionVars, Count
  <1>4. CASE SubmitMessage
    <2>1. /\ ~uploading /\ blocks' = NoFiles
          /\ UNCHANGED <<sessionVars, uploading, hasty, card, flight>>
      BY <1>4 DEF SubmitMessage
    <2>2. TabTypes' /\ PlaceInv' /\ VerifyInv' /\ IdentityInv' /\ CardInv'
      BY <2>1 DEF TabInv, TabTypes, PlaceInv, VerifyInv, IdentityInv, CardInv, NoStuckCard, Live, AtVerify,
         sessionVars, NoFiles
    <2>3. UploadInv'
      <3>1. \A q \in flight : ~AtUpload(q) /\ ~(q.live /\ q.kind = "upload")
        BY <2>1 DEF TabInv, UploadInv, AtUpload
      <3>2. Count(blocks)' = 0 /\ 0 <= MaxFiles
        BY <2>1, NoFilesCount, MaxFilesAssumption DEF Count
      <3>3. \A f \in FileNames : blocks'[f] <= 1
        BY <2>1 DEF NoFiles
      <3>4. QED
        BY <2>1, <3>1, <3>2, <3>3 DEF UploadInv, AtUpload
    <2>4. QED
      BY <2>2, <2>3 DEF TabInv
  <1>5. QED
    BY <1>1, <1>2, <1>3, <1>4

LEMMA CardStepKeeps ==
  ASSUME TabInv, StartDownload \/ ShowOther
  PROVE  TabInv'
  <1>1. CASE StartDownload
    <2> PICK n : n = Query("statistics", token, {})
      OBVIOUS
    <2>1. /\ Mounted /\ card' = "loading" /\ flight' = flight \cup {n}
          /\ UNCHANGED <<sessionVars, uploadVars>>
      BY <1>1 DEF StartDownload
    <2>2. /\ n \in Asked /\ n.kind = "statistics" /\ n.token = token /\ n.live
          /\ flight' \subseteq Asked /\ \A q \in flight' : q.kind \in FileKinds => q.what \subseteq FileNames
          /\ PlaceInv' /\ VerifyInv' /\ IdentityInv'
      BY <2>1, MountedAsks DEF FileKinds
    <2>3. TabTypes'
      BY <2>1, <2>2 DEF TabInv, TabTypes, sessionVars, uploadVars
    <2>4. UploadInv'
      BY <2>1, <2>2 DEF TabInv, UploadInv, AtUpload, uploadVars
    <2>5. CardInv'
      BY <2>1, <2>2 DEF TabInv, CardInv, NoStuckCard, Live, sessionVars, Mounted
    <2>6. QED
      BY <2>2, <2>3, <2>4, <2>5 DEF TabInv
  <1>2. CASE ShowOther
    <2>1. /\ card' = "idle" /\ flight' = {q \in flight : q.kind # "statistics"}
          /\ UNCHANGED <<sessionVars, uploadVars>>
      BY <1>2 DEF ShowOther, CardCancels
    <2>2. TabTypes' /\ PlaceInv' /\ VerifyInv' /\ IdentityInv' /\ CardInv'
      BY <2>1 DEF TabInv, TabTypes, PlaceInv, VerifyInv, IdentityInv, CardInv, NoStuckCard, AtVerify,
         sessionVars, uploadVars
    <2>3. UploadInv'
      BY <2>1 DEF TabInv, UploadInv, AtUpload, uploadVars
    <2>4. QED
      BY <2>2, <2>3 DEF TabInv
  <1>3. QED
    BY <1>1, <1>2

LEMMA SubmitKeeps ==
  ASSUME TabInv, NEW kind \in {"register", "login"}, NEW who \in Account, NEW F \in SUBSET Requests,
         NEW valid \in BOOLEAN, Submit(kind, who, F, valid)
  PROVE  TabInv'
  <1> PICK n : n = SignIn(kind, who, F, valid, TRUE)
    OBVIOUS
  <1>1. n \in Asked /\ n.kind = kind
    BY DEF SignIn, Asked, AuthKinds, Tokens
  <1>2. page = "login" /\ flight' = flight \cup {n} /\ UNCHANGED <<sessionVars, uploadVars, card>>
    BY DEF Submit, OnlyFlight
  <1>3. \A q \in flight' \ flight : q = n
    BY <1>2
  <1>4. QED
    BY <1>1, <1>2, <1>3, OnlyFlightKeeps DEF TabInv, TabTypes, sessionVars, AuthKinds

LEMMA TabInvNext == TabInv /\ [ConsoleNext]_consoleVars => TabInv'
  <1> SUFFICES ASSUME TabInv, [ConsoleNext]_consoleVars PROVE TabInv'
    OBVIOUS
  <1>1. CASE UNCHANGED clientVars
    BY <1>1 DEF clientVars, sessionVars, uploadVars, TabInv, TabTypes, PlaceInv, VerifyInv, IdentityInv,
       UploadInv, CardInv, NoStuckCard, Live, AtVerify, AtUpload, Count
  <1>2. ASSUME NEW who \in Account, TabRegisters(who) \/ TabSignsIn(who) PROVE TabInv'
    <2>1. \E kind \in {"register", "login"}, F \in SUBSET Requests, valid \in BOOLEAN :
              Submit(kind, who, F, valid)
      <3>1. CASE \E r \in Requests : Submit("register", who, {r}, TRUE)
        BY <3>1
      <3>2. CASE Submit("register", who, {}, FALSE)
        BY <3>2
      <3>3. CASE Submit("login", who, {}, who \in accounts)
        <4>1. (who \in accounts) \in BOOLEAN
          OBVIOUS
        <4>2. QED
          BY <3>3, <4>1
      <3>4. QED
        BY <1>2, <3>1, <3>2, <3>3 DEF TabRegisters, TabSignsIn
    <2>2. QED
      BY <2>1, SubmitKeeps
  <1>3. ASSUME NEW q \in flight, Delivered(q) PROVE TabInv'
    BY <1>3, AnswerKeeps DEF Delivered
  <1>4. CASE ClientStep
    BY <1>4, SessionStepKeeps, AttachmentStepKeeps, CardStepKeeps DEF ClientStep
  <1>5. QED
    BY <1>1, <1>2, <1>3, <1>4 DEF ConsoleNext, consoleVars

\* A card never waits for an answer it will drop, whatever changes the token, the
\* page or its result while a download is in flight (statistics-card.tsx,
\* statistics-download.ts).
THEOREM CardNeverStuck == ConsoleSpec => []NoStuckCard
  <1>1. TabInv => NoStuckCard
    BY DEF TabInv, CardInv
  <1>2. QED
    BY TabInvInit, TabInvNext, <1>1, PTL DEF ConsoleSpec

\* The attachments of a message stay within its limit, for any limit and any
\* number of names, however uploads, removals, logouts and late answers interleave,
\* unless files were dropped between an upload and the effect that notes it
\* (use-file-upload.tsx).
THEOREM AttachmentsAlwaysFit == ConsoleSpec => []AttachmentsFit
  <1>1. TabInv => AttachmentsFit
    BY DEF TabInv, TabTypes, UploadInv, AttachmentsFit
  <1>2. QED
    BY TabInvInit, TabInvNext, <1>1, PTL DEF ConsoleSpec

\* The account a page shows is the one whose token it holds, unless the answer to
\* a request of a page already left has changed the token (auth-session.tsx).
THEOREM ShownIsTheTokens == ConsoleSpec => []IdentityShown
  <1>1. TabInv => IdentityShown
    BY DEF TabInv, TabTypes, IdentityInv, IdentityShown
  <1>2. QED
    BY TabInvInit, TabInvNext, <1>1, PTL DEF ConsoleSpec

\* Only the answers "unauthorized", to a request made with this token or by
\* auth-client, and "error", to establishSession, take the token away.
LEMMA AnswerEndsSession ==
  ASSUME NEW q \in flight, NEW a \in ServerAnswers(q), Answered(q, a), token # NoToken, token' = NoToken
  PROVE  /\ q.token = token \/ q.kind \in AuthKinds
         /\ Answered(q, "unauthorized") \/ Answered(q, "error")
  <1>1. CASE RegisterAnswered(q, a)
    BY <1>1 DEF RegisterAnswered, OnlyFlight, sessionVars
  <1>2. CASE LoginAnswered(q, a)
    <2>1. CASE a = "ok"
      <3>1. token' = <<q.who, issued + 1>>
        BY <1>2, <2>1 DEF LoginAnswered, TokenBecomes
      <3>2. QED
        BY <3>1 DEF NoToken
    <2>2. CASE a = "unauthorized"
      BY <1>2, <2>2 DEF LoginAnswered, Answered, AuthKinds
    <2>3. CASE a # "ok" /\ a # "unauthorized"
      BY <1>2, <2>3 DEF LoginAnswered, OnlyFlight, sessionVars
    <2>4. QED
      BY <2>1, <2>2, <2>3
  <1>3. CASE EstablishAnswered(q, a)
    <2>1. q.kind = "establish" /\ q.kind \in AuthKinds
      BY <1>3 DEF EstablishAnswered, AuthKinds
    <2>2. a \in {"ok", "unauthorized", "error"}
      BY <2>1 DEF ServerAnswers, BearerAnswers
    <2>3. CASE a = "ok"
      BY <1>3, <2>3 DEF EstablishAnswered
    <2>4. QED
      BY <1>3, <2>1, <2>2, <2>3 DEF Answered
  <1>4. CASE ProbeAnswered(q, a)
    <2>1. CASE a = "unauthorized"
      BY <1>4, <2>1 DEF ProbeAnswered, Answered, AuthKinds
    <2>2. CASE a # "unauthorized"
      BY <1>4, <2>2 DEF ProbeAnswered, OnlyFlight, sessionVars
    <2>3. QED
      BY <2>1, <2>2
  <1>5. CASE VerifyAnswered(q, a)
    <2>1. CASE a = "unauthorized"
      BY <1>5, <2>1 DEF VerifyAnswered, Answered, AuthKinds
    <2>2. CASE a # "unauthorized"
      BY <1>5, <2>2 DEF VerifyAnswered, OnlyFlight, sessionVars
    <2>3. QED
      BY <2>1, <2>2
  <1>6. CASE FileAnswered(q, a)
    <2>1. CASE ~Superseded(q) /\ a = "unauthorized"
      BY <1>6, <2>1 DEF Superseded, Answered
    <2>2. CASE ~(~Superseded(q) /\ a = "unauthorized")
      BY <1>6, <2>2 DEF FileAnswered, sessionVars
    <2>3. QED
      BY <2>1, <2>2
  <1>7. CASE DownloadAnswered(q, a)
    <2>1. CASE ~Superseded(q) /\ a = "unauthorized"
      BY <1>7, <2>1 DEF Superseded, Answered
    <2>2. CASE ~(~Superseded(q) /\ a = "unauthorized")
      BY <1>7, <2>2 DEF DownloadAnswered, OnlyFlight, sessionVars
    <2>3. QED
      BY <2>1, <2>2
  <1>8. QED
    BY <1>1, <1>2, <1>3, <1>4, <1>5, <1>6, <1>7 DEF Answered

LEMMA OnlyLogoutClears ==
  ASSUME ClientStep, token # NoToken, token' = NoToken
  PROVE  Logout
  BY DEF ClientStep, Open, Arrives, Navigate, Retry, Expire, Upload, RemoveBlock, Synchronize,
     SubmitMessage, StartDownload, ShowOther, sessionVars

\* No late answer ends a session but one made with its token or one of
\* auth-client, whichever account signs in between its request and its answer
\* (managed-file-client.ts, auth-client.ts).
THEOREM LateAnswersEndNoSession == ConsoleSpec => SessionSurvivesLateAnswers
  <1>1. ASSUME [ConsoleNext]_consoleVars, token # NoToken, token' = NoToken, clientVars' # clientVars
        PROVE  \/ Logout
               \/ \E q \in flight : /\ q.token = token \/ q.kind \in AuthKinds
                                    /\ Answered(q, "unauthorized") \/ Answered(q, "error")
    <2>1. CASE ClientStep
      BY <1>1, <2>1, OnlyLogoutClears
    <2>2. CASE \E q \in flight : Delivered(q)
      BY <1>1, <2>2, AnswerEndsSession DEF Delivered
    <2>3. CASE \E who \in Account : TabRegisters(who) \/ TabSignsIn(who)
      BY <1>1, <2>3 DEF TabRegisters, TabSignsIn, Submit, OnlyFlight, sessionVars
    <2>4. QED
      BY <1>1, <2>1, <2>2, <2>3 DEF ConsoleNext, consoleVars
  <1>2. [ConsoleNext]_consoleVars =>
            [token # NoToken /\ token' = NoToken =>
                \/ Logout
                \/ \E q \in flight : /\ q.token = token \/ q.kind \in AuthKinds
                                     /\ Answered(q, "unauthorized") \/ Answered(q, "error")]_clientVars
    BY <1>1
  <1>3. QED
    BY <1>2, PTL DEF ConsoleSpec, SessionSurvivesLateAnswers
=============================================================================
