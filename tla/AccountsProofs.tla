--------------------------- MODULE AccountsProofs ---------------------------
(***************************************************************************)
(* Sessions, icons and profiles keep together across the SQL statements of *)
(* any number of concurrent requests: for every set of names, browsers,    *)
(* pictures and requests.                                                  *)
(***************************************************************************)
EXTENDS Accounts, FiniteSetTheorems, TLAPS

-----------------------------------------------------------------------------
(***************************************************************************)
(* The inductive invariant.                                                *)
(***************************************************************************)
Ops == {"register", "login", "logout", "page", "postProfile", "initialize",
        "none"}

PCs == {"idle", "insertUser", "selectUser", "reply", "ensureLogin",
        "deleteUser", "deleteImage", "insertImage", "updateIcon",
        "updateDisplay"}

Request == [op : Ops, client : Clients \cup {None}, name : Names \cup {None},
            file : Pictures \cup {None}, display : Pictures \cup {None},
            sess : 0..MaxUser, set : Keep..MaxUser, pc : PCs]

\* What /initialize keeps is always there.
Kept ==
    /\ nextUser \in Nat /\ nextImage \in Nat
    /\ KeptUsers < nextUser /\ 1..KeptUsers \subseteq DOMAIN user
    /\ 1 \in DOMAIN image /\ image[1] = None

\* What a request x holds where it is.
Held(x) ==
    /\ x \in Request
    /\ x.sess < nextUser
    /\ None \in {x.file, x.display} \/ x.file = x.display
    /\ x.pc = "insertUser" => x.name \in Names
    /\ x.pc = "ensureLogin" => x.client \in Clients
    /\ x.pc = "reply" => x.client \in Clients /\ x.set # Keep
    /\ x.pc \in {"insertImage", "updateIcon"} => x.file # None
    /\ x.pc = "updateDisplay" => x.display # None

Requests ==
    /\ DOMAIN req = Slots
    /\ \A r \in Slots : Held(req[r])

\* An answer on its way names its client's account or one that is gone, and
\* clears only the session of one that is gone.
Answered(x) ==
    x.pc = "reply" =>
      /\ x.set < nextUser
      /\ x.set \in DOMAIN user => x.set \in granted[x.client]
      /\ x.set = 0 /\ x.op # "logout" => x.sess \notin DOMAIN user

Sessions ==
    /\ \A c \in Clients : cookie[c] < nextUser
    /\ \A r \in Slots : Answered(req[r])
    /\ SessionOwn

\* The image a post inserted is still there when it names it.
Icons ==
    /\ \A r \in Slots :
         /\ req[r].pc = "updateIcon"
         /\ req[r].sess \in DOMAIN user \ 1..KeptUsers
         => IconFound(req[r].file) \/ req[r].sess \in raced
    /\ DanglingExplained

\* A post that shares its user is marked, and so is one that gives half a
\* profile.
SharedTorn ==
    \A r \in Slots :
      /\ Writing(r) /\ req[r].sess \in DOMAIN user
      /\ Overlap(r) \/ Partial(r)
      => req[r].sess \in torn

\* A post that has its user to itself finds the icon it stored.
IconStored ==
    \A r \in Slots :
      /\ req[r].pc = "updateDisplay" /\ req[r].sess \in DOMAIN user
      /\ req[r].sess \notin torn
      => user[req[r].sess].icon = req[r].file

Profiles == SharedTorn /\ IconStored /\ ProfileTogether

AccountsInv == /\ AccountsTypeOK /\ Kept /\ Requests
               /\ Sessions /\ Icons /\ Profiles

-----------------------------------------------------------------------------
(***************************************************************************)
(* The parts of the invariant under a step of one request.                 *)
(***************************************************************************)
LEMMA KeptUsersType == KeptUsers \in 1..MaxUser /\ MaxUser \in Nat
                       /\ MaxImage \in Nat /\ None \notin Pictures
                       /\ None \notin Clients
BY AccountsAssumption DEF KeptUsers

\* The request r becomes x.
Becomes(r, x) ==
    /\ DOMAIN req' = Slots
    /\ req'[r] = x
    /\ \A q \in Slots \ {r} : req'[q] = req[q]

LEMMA ExceptBecomes ==
  ASSUME Requests, NEW r \in Slots, NEW x, req' = [req EXCEPT ![r] = x]
  PROVE  Becomes(r, x)
BY DEF Requests, Becomes

LEMMA IdleHeld ==
  ASSUME Kept
  PROVE  /\ Held(Idle) /\ Idle.pc = "idle" /\ Idle.sess = 0
         /\ Idle.file = None /\ Idle.display = None
<1>1. Keep \in Keep..MaxUser /\ 0 \in 0..MaxUser
  BY KeptUsersType DEF Keep
<1>2. Idle \in Request
  BY <1>1 DEF Idle, Request, Ops, PCs
<1>3. 0 < nextUser
  BY KeptUsersType DEF Kept
<1> QED
  BY <1>2, <1>3 DEF Held, Idle

\* What Reply leaves of a request.
LEMMA ReplyBecomes ==
  ASSUME Requests, Kept, NEW r \in Slots, NEW set \in Keep..MaxUser,
         Reply(r, set)
  PROVE  \E x \in Request :
           /\ Becomes(r, x)
           /\ x.pc \in {"idle", "reply"}
           /\ x.sess \in {0, req[r].sess}
           /\ x.file = None /\ x.display = None
           /\ set = Keep => x.pc = "idle"
           /\ x.pc = "reply" =>
                /\ set # Keep /\ x.set = set /\ x.op = req[r].op
                /\ x.client = req[r].client /\ x.sess = req[r].sess
<1>1. CASE set = Keep
  BY <1>1, ExceptBecomes, IdleHeld DEF Reply, Held
<1>2. CASE set # Keep
  <2> DEFINE x == [Idle EXCEPT !.op = req[r].op, !.client = req[r].client,
                               !.sess = req[r].sess, !.set = set,
                               !.pc = "reply"]
  <2>1. req[r] \in Request
    BY DEF Requests, Held
  <2>2. /\ x.op = req[r].op /\ x.client = req[r].client
        /\ x.sess = req[r].sess /\ x.set = set /\ x.pc = "reply"
        /\ x.file = None /\ x.display = None
    BY DEF Idle
  <2>3. x \in Request
    BY <2>1 DEF Idle, Request, Ops, PCs
  <2>4. Becomes(r, x)
    BY <1>2, ExceptBecomes DEF Reply
  <2> HIDE DEF x
  <2> QED
    BY <1>2, <2>2, <2>3, <2>4
<1> QED
  BY <1>1, <1>2

\* What Goto leaves of a request.
LEMMA GotoBecomes ==
  ASSUME Requests, Kept, NEW r \in Slots, NEW pc \in PCs \cup {"end"},
         Goto(r, pc)
  PROVE  \E x \in Request :
           /\ Becomes(r, x)
           /\ x = Idle \/ x = [req[r] EXCEPT !.pc = pc]
           /\ x.pc = IF pc = "end" THEN "idle" ELSE pc
           /\ pc = "end" => x = Idle
           /\ pc # "end" => x.pc = pc
           /\ pc # "end" =>
                /\ x.op = req[r].op /\ x.client = req[r].client
                /\ x.name = req[r].name /\ x.file = req[r].file
                /\ x.display = req[r].display /\ x.sess = req[r].sess
                /\ x.set = req[r].set
<1>1. req[r] \in Request
  BY DEF Requests, Held
<1>2. CASE pc = "end"
  BY <1>2, ExceptBecomes, IdleHeld DEF Goto, Held, Requests
<1>3. CASE pc # "end"
  <2> DEFINE x == [req[r] EXCEPT !.pc = pc]
  <2>1. x \in Request
    BY <1>1, <1>3 DEF Request
  <2>2. req' = [req EXCEPT ![r] = x]
    BY <1>3 DEF Goto, Requests
  <2>3. Becomes(r, x)
    BY <2>2, ExceptBecomes
  <2>4. /\ x.op = req[r].op /\ x.client = req[r].client
        /\ x.name = req[r].name /\ x.file = req[r].file
        /\ x.display = req[r].display /\ x.sess = req[r].sess
        /\ x.set = req[r].set /\ x.pc = pc
    BY <1>1 DEF Request
  <2> QED
    BY <1>3, <2>1, <2>3, <2>4
<1> QED
  BY <1>2, <1>3

LEMMA RequestsStep ==
  ASSUME AccountsInv, NEW r \in Slots, NEW x, Becomes(r, x), Held(x)',
         nextUser <= nextUser', nextUser' \in Nat
  PROVE  Requests'
<1>1. ASSUME NEW q \in Slots PROVE Held(req[q])'
  <2>1. CASE q = r
    BY <2>1 DEF Becomes
  <2>2. CASE q # r
    <3>1. req'[q] = req[q] /\ Held(req[q])
      BY <2>2 DEF Becomes, AccountsInv, Requests
    <3>2. req[q].sess \in Nat
      BY <3>1 DEF Held, Request
    <3> QED
      BY <3>1, <3>2 DEF Held, AccountsInv, Kept
  <2> QED
    BY <2>1, <2>2
<1> QED
  BY <1>1 DEF Requests, Becomes

\* No step gives an id of a session that is known to another user.
LEMMA SessionsStep ==
  ASSUME AccountsInv, NEW r \in Slots, NEW x, Becomes(r, x), Answered(x)',
         nextUser <= nextUser', nextUser' \in Nat,
         \A id \in DOMAIN user' : id < nextUser => id \in DOMAIN user,
         \A c \in Clients : granted[c] \cap DOMAIN user' \subseteq granted'[c],
         \A c \in Clients :
           \/ cookie'[c] = cookie[c]
           \/ /\ req[r].pc = "reply" /\ c = req[r].client
              /\ cookie'[c] = req[r].set
  PROVE  Sessions'
<1>1. /\ nextUser \in Nat /\ cookie \in [Clients -> 0..MaxUser]
      /\ \A q \in Slots : req[q] \in Request
  BY DEF AccountsInv, AccountsTypeOK, Kept, Requests, Held
<1>2. \A q \in Slots : req[q].sess < nextUser /\ Answered(req[q])
  BY DEF AccountsInv, Requests, Held, Sessions
<1>3. ASSUME NEW c \in Clients
      PROVE  cookie'[c] < nextUser' /\
             (cookie'[c] \in DOMAIN user' => cookie'[c] \in granted'[c])
  <2>1. CASE cookie'[c] = cookie[c]
    BY <1>1, <2>1 DEF AccountsInv, Sessions, SessionOwn
  <2>2. CASE /\ req[r].pc = "reply" /\ c = req[r].client
             /\ cookie'[c] = req[r].set
    BY <1>1, <1>2, <2>2 DEF Answered, Request, Keep
  <2> QED
    BY <2>1, <2>2
<1>4. ASSUME NEW q \in Slots PROVE Answered(req[q])'
  <2>1. CASE q = r
    BY <2>1 DEF Becomes
  <2>2. CASE q # r
    <3>1. req'[q] = req[q] /\ Held(req[q])
      BY <2>2 DEF Becomes, AccountsInv, Requests
    <3>2. /\ req[q].sess \in 0..MaxUser /\ req[q].set \in Keep..MaxUser
          /\ req[q].pc = "reply" => req[q].client \in Clients
      BY <3>1 DEF Held, Request
    <3> QED
      BY <1>1, <1>2, <3>1, <3>2 DEF Answered, Keep
  <2> QED
    BY <2>1, <2>2
<1> QED
  BY <1>3, <1>4 DEF Sessions, SessionOwn

LEMMA SharedStep ==
  ASSUME AccountsInv, NEW r \in Slots, NEW x, Becomes(r, x),
         x.pc \in {"insertImage", "updateIcon", "updateDisplay"} =>
           /\ Writing(r) /\ x.sess = req[r].sess
           /\ x.file = req[r].file /\ x.display = req[r].display,
         \A id \in DOMAIN user' : id < nextUser =>
           /\ id \in DOMAIN user
           /\ id \in torn => id \in torn'
  PROVE  SharedTorn'
<1> SUFFICES ASSUME NEW q \in Slots, Writing(q)', req'[q].sess \in DOMAIN user',
                    Overlap(q)' \/ Partial(q)'
             PROVE  req'[q].sess \in torn'
  BY DEF SharedTorn
<1>1. \A p \in Slots : Writing(p)' =>
        /\ Writing(p) /\ req'[p].sess = req[p].sess
        /\ req'[p].file = req[p].file /\ req'[p].display = req[p].display
  BY DEF Becomes, Writing
<1>2. Overlap(q) \/ Partial(q)
  BY <1>1 DEF Overlap, Partial
<1>3. req[q].sess < nextUser /\ req'[q].sess = req[q].sess
  BY <1>1 DEF AccountsInv, Requests, Held
<1> QED
  BY <1>1, <1>2, <1>3 DEF AccountsInv, Profiles, SharedTorn

\* A step that leaves the tables alone.
LEMMA QuietStep ==
  ASSUME AccountsInv, NEW r \in Slots, NEW x, Becomes(r, x), Held(x),
         Answered(x)', UNCHANGED <<tables, raced>>,
         x.pc # "updateIcon",
         \A c \in Clients : granted[c] \subseteq granted'[c],
         cookie' \in [Clients -> 0..MaxUser],
         \A c \in Clients :
           \/ cookie'[c] = cookie[c]
           \/ /\ req[r].pc = "reply" /\ c = req[r].client
              /\ cookie'[c] = req[r].set
  PROVE  AccountsTypeOK' /\ Kept' /\ Requests' /\ Sessions' /\ Icons'
<1>1. UNCHANGED <<user, image, nextUser, nextImage, raced>>
  BY DEF tables
<1>2. Kept' /\ nextUser <= nextUser'
  BY <1>1 DEF AccountsInv, Kept
<1>3. Held(x)'
  BY <1>1 DEF Held
<1>4. Requests'
  BY <1>1, <1>2, <1>3, RequestsStep DEF Kept
<1>5. Sessions'
  <2>1. \A c \in Clients :
          granted[c] \cap DOMAIN user' \subseteq granted'[c]
    OBVIOUS
  <2> QED
    BY <1>1, <1>2, <2>1, SessionsStep DEF Kept
<1>6. AccountsTypeOK'
  BY <1>1, <1>4 DEF AccountsInv, AccountsTypeOK, Requests, Held, Request
<1>7. Icons'
  BY <1>1 DEF AccountsInv, Icons, DanglingExplained, IconFound, Becomes
<1> QED
  BY <1>2, <1>4, <1>5, <1>6, <1>7

\* A step that neither writes the tables nor moves a post but to its end.
LEMMA IdleProfiles ==
  ASSUME AccountsInv, NEW r \in Slots, NEW x, Becomes(r, x),
         x.pc \notin {"insertImage", "updateIcon", "updateDisplay"},
         user' = user, torn \subseteq torn',
         req[r].pc = "updateDisplay" =>
           {req[r].sess} \cap DOMAIN user \subseteq torn'
  PROVE  Profiles'
<1>1. SharedTorn'
  BY SharedStep
<1>2. IconStored'
  BY DEF AccountsInv, Profiles, IconStored, Becomes
<1>3. ProfileTogether'
  BY DEF AccountsInv, Profiles, ProfileTogether, Becomes
<1> QED
  BY <1>1, <1>2, <1>3 DEF Profiles

-----------------------------------------------------------------------------
(***************************************************************************)
(* Each action.                                                            *)
(***************************************************************************)
LEMMA SendInv ==
  ASSUME AccountsInv, NEW r \in Slots, NEW c \in Clients \cup {None},
         NEW op \in DOMAIN Entry, Send(r, c, op)
  PROVE  AccountsInv'
<1>1. PICK n \in IF op \in {"register", "login"} THEN Names ELSE {None},
           f \in IF op = "postProfile" THEN Pictures \cup {None} ELSE {None},
           d \in IF op = "postProfile" THEN Pictures \cup {None} ELSE {None} :
        /\ None \in {f, d} \/ f = d
        /\ req' = [req EXCEPT ![r] =
            [op |-> op, client |-> c, name |-> n, file |-> f, display |-> d,
             sess |-> IF op \in Anonymous THEN 0 ELSE cookie[c],
             set |-> IF op = "logout" THEN 0 ELSE Keep, pc |-> Entry[op]]]
  BY DEF Send
<1> DEFINE x == [op |-> op, client |-> c, name |-> n, file |-> f,
                 display |-> d,
                 sess |-> IF op \in Anonymous THEN 0 ELSE cookie[c],
                 set |-> IF op = "logout" THEN 0 ELSE Keep, pc |-> Entry[op]]
<1>2. /\ op \in {"register", "login", "logout", "page", "postProfile",
                 "initialize"}
      /\ c = None => op \in {"register", "initialize"}
      /\ UNCHANGED <<tables, cookie, granted, raced, torn>>
      /\ req[r].pc = "idle"
  BY DEF Send, Entry
<1>3. /\ Entry[op] \in {"insertUser", "selectUser", "reply", "ensureLogin",
                        "deleteUser"}
      /\ Entry[op] = "insertUser" <=> op = "register"
      /\ Entry[op] = "reply" <=> op = "logout"
      /\ Entry[op] = "ensureLogin" => op \in {"page", "postProfile"}
  BY <1>2 DEF Entry
<1>4. /\ x.sess \in 0..MaxUser /\ x.sess < nextUser
      /\ x.set \in Keep..MaxUser
  <2>1. 0 \in 0..MaxUser /\ 0 < nextUser /\ {0, Keep} \subseteq Keep..MaxUser
    BY KeptUsersType DEF AccountsInv, Kept, Keep
  <2>2. op \notin Anonymous => c \in Clients
    BY <1>2 DEF Anonymous
  <2> QED
    BY <2>1, <2>2 DEF AccountsInv, AccountsTypeOK, Sessions
<1>5. x \in Request
  BY <1>1, <1>2, <1>3, <1>4 DEF Request, Ops, PCs
<1>6. Becomes(r, x)
  BY <1>1, ExceptBecomes DEF AccountsInv
<1>7. Held(x)
  BY <1>1, <1>2, <1>3, <1>4, <1>5 DEF Held, Keep
<1>8. PICK y : y = x
  OBVIOUS
<1>9. /\ Becomes(r, y) /\ Held(y)
      /\ y.pc \notin {"insertImage", "updateIcon", "updateDisplay"}
      /\ y.pc # "updateIcon"
      /\ y.pc = "reply" => y.set = 0 /\ y.op = "logout"
  BY <1>3, <1>6, <1>7, <1>8
<1> HIDE DEF x
<1>a. Answered(y)'
  BY <1>2, <1>9, KeptUsersType
     DEF Answered, AccountsInv, AccountsTypeOK, Kept, tables
<1>10. AccountsTypeOK' /\ Kept' /\ Requests' /\ Sessions' /\ Icons'
  BY <1>2, <1>9, <1>a, QuietStep DEF AccountsInv, AccountsTypeOK
<1>11. Profiles'
  BY <1>2, <1>9, IdleProfiles DEF tables
<1> QED
  BY <1>10, <1>11 DEF AccountsInv

LEMMA ReceiveInv ==
  ASSUME AccountsInv, NEW r \in Slots, Receive(r)
  PROVE  AccountsInv'
<1>1. Becomes(r, Idle)
  BY ExceptBecomes DEF Receive, AccountsInv
<1>2. /\ req[r].pc = "reply" /\ UNCHANGED <<tables, granted, raced, torn>>
      /\ \/ cookie' = [cookie EXCEPT ![req[r].client] = req[r].set]
         \/ UNCHANGED cookie
  BY DEF Receive
<1>3. /\ cookie \in [Clients -> 0..MaxUser]
      /\ req[r].client \in Clients /\ req[r].set \in 0..MaxUser
  BY <1>2 DEF AccountsInv, AccountsTypeOK, Requests, Held, Request, Keep
<1>4. /\ cookie' \in [Clients -> 0..MaxUser]
      /\ \A c \in Clients :
           \/ cookie'[c] = cookie[c]
           \/ c = req[r].client /\ cookie'[c] = req[r].set
  <2>1. CASE UNCHANGED cookie
    BY <1>3, <2>1
  <2>2. CASE cookie' = [cookie EXCEPT ![req[r].client] = req[r].set]
    BY <1>3, <2>2
  <2> QED
    BY <1>2, <2>1, <2>2
<1>5. /\ Held(Idle) /\ Answered(Idle)'
      /\ Idle.pc \notin {"insertImage", "updateIcon", "updateDisplay"}
      /\ Idle.pc # "updateIcon"
  BY IdleHeld DEF AccountsInv, Answered
<1>6. AccountsTypeOK' /\ Kept' /\ Requests' /\ Sessions' /\ Icons'
  BY <1>1, <1>2, <1>4, <1>5, QuietStep
<1>7. Profiles'
  BY <1>1, <1>2, <1>5, IdleProfiles DEF tables
<1> QED
  BY <1>6, <1>7 DEF AccountsInv

\* An answer is a request that holds nothing but its cookie.
LEMMA ReplyHeld ==
  ASSUME AccountsInv, NEW r \in Slots, NEW set \in Keep..MaxUser,
         set # Keep => req[r].client \in Clients, Reply(r, set)
  PROVE  \E x \in Request :
           /\ Becomes(r, x) /\ Held(x)
           /\ x.pc \in {"idle", "reply"}
           /\ set = Keep => x.pc = "idle"
           /\ x.pc = "reply" =>
                /\ set # Keep /\ x.set = set /\ x.op = req[r].op
                /\ x.client = req[r].client /\ x.sess = req[r].sess
<1>1. PICK x \in Request :
           /\ Becomes(r, x)
           /\ x.pc \in {"idle", "reply"}
           /\ x.sess \in {0, req[r].sess}
           /\ x.file = None /\ x.display = None
           /\ set = Keep => x.pc = "idle"
           /\ x.pc = "reply" =>
                /\ set # Keep /\ x.set = set /\ x.op = req[r].op
                /\ x.client = req[r].client /\ x.sess = req[r].sess
  BY ReplyBecomes DEF AccountsInv
<1>2. req[r].sess < nextUser /\ 0 < nextUser
  BY KeptUsersType DEF AccountsInv, Requests, Held, Kept
<1>3. Held(x)
  BY <1>1, <1>2 DEF Held
<1> QED
  BY <1>1, <1>3

LEMMA StatementFailsInv ==
  ASSUME AccountsInv, NEW r \in Slots, StatementFails(r)
  PROVE  AccountsInv'
<1>1. /\ UNCHANGED <<tables, cookie, granted, raced>>
      /\ user' = user /\ Reply(r, Keep)
      /\ torn' = IF req[r].pc = "updateDisplay"
                 THEN torn \cup ({req[r].sess} \cap DOMAIN user) ELSE torn
  BY DEF StatementFails, tables
<1>2. Keep \in Keep..MaxUser
  BY KeptUsersType DEF Keep
<1>3. PICK x \in Request : Becomes(r, x) /\ Held(x) /\ x.pc = "idle"
  BY <1>1, <1>2, ReplyHeld
<1>4. Answered(x)' /\ x.pc # "updateIcon"
      /\ x.pc \notin {"insertImage", "updateIcon", "updateDisplay"}
  BY <1>3 DEF Answered
<1>5. AccountsTypeOK' /\ Kept' /\ Requests' /\ Sessions' /\ Icons'
  BY <1>1, <1>3, <1>4, QuietStep DEF AccountsInv, AccountsTypeOK
<1>6. Profiles'
  BY <1>1, <1>3, <1>4, IdleProfiles
<1> QED
  BY <1>5, <1>6 DEF AccountsInv

LEMMA SelectUserInv ==
  ASSUME AccountsInv, NEW r \in Slots, SelectUser(r)
  PROVE  AccountsInv'
<1>1. /\ UNCHANGED <<tables, cookie, raced, torn>>
      /\ user' = user /\ nextUser' = nextUser /\ req[r].pc = "selectUser"
  BY DEF SelectUser, tables
<1> DEFINE Answers(set) ==
        /\ Reply(r, set)
        /\ \A c \in Clients : granted[c] \subseteq granted'[c]
        /\ set # Keep =>
             /\ req[r].client # None /\ set # 0 /\ set < nextUser
             /\ \A c \in Clients : c = req[r].client => set \in granted'[c]
<1>2. PICK set \in Keep..MaxUser : Answers(set)
  <2>0. Keep \in Keep..MaxUser
    BY KeptUsersType DEF Keep
  <2>1. CASE Reply(r, Keep) /\ UNCHANGED granted
    BY <2>0, <2>1
  <2>2. ASSUME NEW id \in Named(req[r].name), Grant(r, id)
        PROVE  \E set \in Keep..MaxUser : Answers(set)
    <3>1. id \in Keep..MaxUser /\ id # 0 /\ id < nextUser
      BY KeptUsersType
         DEF Named, AccountsInv, AccountsTypeOK, Kept, Keep
    <3>2. \A c \in Clients :
            /\ granted[c] \subseteq granted'[c]
            /\ c = req[r].client => id \in granted'[c]
      BY <2>2 DEF Grant
    <3>3. CASE req[r].client = None
      BY <2>0, <2>2, <3>2, <3>3 DEF Grant
    <3>4. CASE req[r].client # None
      BY <2>2, <3>1, <3>2, <3>4 DEF Grant
    <3> QED
      BY <3>3, <3>4
  <2> QED
    BY <2>1, <2>2 DEF SelectUser
<1>3. req[r].client \in Clients \cup {None}
  BY DEF AccountsInv, Requests, Held, Request
<1>4. PICK x \in Request :
           /\ Becomes(r, x) /\ Held(x)
           /\ x.pc \in {"idle", "reply"}
           /\ x.pc = "reply" =>
                /\ set # Keep /\ x.set = set /\ x.client = req[r].client
  BY <1>2, <1>3, ReplyHeld
<1>5. Answered(x)' /\ x.pc # "updateIcon"
      /\ x.pc \notin {"insertImage", "updateIcon", "updateDisplay"}
  BY <1>1, <1>2, <1>3, <1>4 DEF Answered
<1>6. AccountsTypeOK' /\ Kept' /\ Requests' /\ Sessions' /\ Icons'
  BY <1>1, <1>2, <1>4, <1>5, QuietStep DEF AccountsInv, AccountsTypeOK
<1>7. Profiles'
  BY <1>1, <1>4, <1>5, IdleProfiles
<1> QED
  BY <1>6, <1>7 DEF AccountsInv

\* Past ensureLogin a post is in progress, and meets those of the same user.
LEMMA EnsureLoginInv ==
  ASSUME AccountsInv, NEW r \in Slots, EnsureLogin(r)
  PROVE  AccountsInv'
<1>1. /\ UNCHANGED <<tables, cookie, granted, raced>>
      /\ user' = user /\ nextUser' = nextUser
      /\ req[r].pc = "ensureLogin" /\ req[r].client \in Clients
      /\ torn \subseteq torn'
  BY DEF EnsureLogin, tables, AccountsInv, Requests, Held
<1>2. CASE \E set \in {Keep, 0} :
             Reply(r, set) /\ (set = 0 => req[r].sess \notin DOMAIN user)
  <2>1. PICK set \in {Keep, 0} :
             Reply(r, set) /\ (set = 0 => req[r].sess \notin DOMAIN user)
    BY <1>2
  <2>2. set \in Keep..MaxUser
    BY KeptUsersType DEF Keep
  <2>3. PICK x \in Request :
           /\ Becomes(r, x) /\ Held(x)
           /\ x.pc \in {"idle", "reply"}
           /\ x.pc = "reply" =>
                /\ set # Keep /\ x.set = set /\ x.sess = req[r].sess
    BY <1>1, <2>1, <2>2, ReplyHeld
  <2>4. 0 \notin DOMAIN user /\ 0 < nextUser
    BY KeptUsersType DEF AccountsInv, AccountsTypeOK, Kept
  <2>5. Answered(x)' /\ x.pc # "updateIcon"
        /\ x.pc \notin {"insertImage", "updateIcon", "updateDisplay"}
    BY <1>1, <2>1, <2>3, <2>4 DEF Answered
  <2>6. AccountsTypeOK' /\ Kept' /\ Requests' /\ Sessions' /\ Icons'
    BY <1>1, <2>3, <2>5, QuietStep DEF AccountsInv, AccountsTypeOK
  <2>7. Profiles'
    BY <1>1, <2>3, <2>5, IdleProfiles
  <2> QED
    BY <2>6, <2>7 DEF AccountsInv
<1>3. CASE \E pc \in AfterLogin(r) :
             /\ Goto(r, pc)
             /\ req[r].sess \in DOMAIN user
             /\ req[r].op = "postProfile" /\ (Overlap(r) \/ Partial(r))
                => req[r].sess \in torn'
  <2>1. PICK pc \in AfterLogin(r) :
             /\ Goto(r, pc)
             /\ req[r].op = "postProfile" /\ (Overlap(r) \/ Partial(r))
                => req[r].sess \in torn'
    BY <1>3
  <2>2. /\ pc \in {"insertImage", "updateDisplay", "end"}
        /\ pc # "end" => req[r].op = "postProfile"
        /\ pc = "insertImage" => req[r].file # None
        /\ pc = "updateDisplay" => req[r].file = None
                                   /\ req[r].display # None
    <3>1. CASE req[r].op # "postProfile"
      BY <3>1 DEF AfterLogin
    <3>2. CASE req[r].op = "postProfile" /\ req[r].file # None
      BY <3>2 DEF AfterLogin
    <3>3. CASE /\ req[r].op = "postProfile" /\ req[r].file = None
               /\ req[r].display # None
      BY <3>3 DEF AfterLogin
    <3>4. CASE /\ req[r].op = "postProfile" /\ req[r].file = None
               /\ req[r].display = None
      BY <3>4 DEF AfterLogin
    <3> QED
      BY <3>1, <3>2, <3>3, <3>4
  <2>3. PICK x \in Request :
           /\ Becomes(r, x)
           /\ pc = "end" => x = Idle
           /\ pc # "end" =>
                /\ x.pc = pc /\ x.file = req[r].file
                /\ x.display = req[r].display /\ x.sess = req[r].sess
    BY <2>1, <2>2, GotoBecomes DEF AccountsInv, PCs
  <2>4. Held(x) /\ Answered(x)' /\ x.pc # "updateIcon"
    BY <2>2, <2>3, IdleHeld DEF Held, Answered, AccountsInv, Requests
  <2>5. AccountsTypeOK' /\ Kept' /\ Requests' /\ Sessions' /\ Icons'
    BY <1>1, <2>3, <2>4, QuietStep DEF AccountsInv, AccountsTypeOK
  <2>6. CASE pc = "end"
    <3>1. x.pc \notin {"insertImage", "updateIcon", "updateDisplay"}
      BY <2>3, <2>6, IdleHeld DEF AccountsInv
    <3>2. Profiles'
      BY <1>1, <2>3, <3>1, IdleProfiles
    <3> QED
      BY <2>5, <3>2 DEF AccountsInv
  <2>7. CASE pc # "end"
    <3>1. SharedTorn'
      <4> SUFFICES ASSUME NEW q \in Slots, Writing(q)',
                          req'[q].sess \in DOMAIN user',
                          Overlap(q)' \/ Partial(q)'
                   PROVE  req'[q].sess \in torn'
        BY DEF SharedTorn
      <4>1. CASE q = r
        <5>1. Overlap(r)' => Overlap(r)
          BY <2>3, <2>7 DEF Overlap, Writing, Becomes
        <5>2. Partial(r)' => Partial(r)
          BY <2>3, <2>7 DEF Partial, Becomes
        <5> QED
          BY <2>1, <2>2, <2>3, <2>7, <4>1, <5>1, <5>2 DEF Becomes
      <4>2. CASE q # r
        <5>1. req'[q] = req[q] /\ Writing(q) /\ (Partial(q)' => Partial(q))
          BY <2>3, <4>2 DEF Becomes, Writing, Partial
        <5>2. Overlap(q)' =>
                Overlap(q) \/ (req[q].sess = req[r].sess /\ Overlap(r))
          BY <2>3, <2>7, <4>2, <5>1 DEF Overlap, Writing, Becomes
        <5>3. CASE Overlap(q) \/ Partial(q)
          BY <1>1, <5>1, <5>3 DEF AccountsInv, Profiles, SharedTorn
        <5>4. CASE req[q].sess = req[r].sess /\ Overlap(r)
          BY <2>1, <2>2, <2>7, <5>1, <5>4
        <5> QED
          BY <5>1, <5>2, <5>3, <5>4
      <4> QED
        BY <4>1, <4>2
    <3>2. IconStored'
      <4> SUFFICES ASSUME NEW q \in Slots, req'[q].pc = "updateDisplay",
                          req'[q].sess \in DOMAIN user',
                          req'[q].sess \notin torn'
                   PROVE  user'[req'[q].sess].icon = req'[q].file
        BY DEF IconStored
      <4>1. q # r
        <5>1. req'[r].pc = "updateDisplay" => Partial(r)'
          BY <2>2, <2>3, <2>7 DEF Partial, Becomes
        <5> QED
          BY <3>1, <5>1 DEF SharedTorn, Writing
      <4> QED
        BY <1>1, <2>3, <4>1
           DEF Becomes, AccountsInv, Profiles, IconStored
    <3>3. ProfileTogether'
      BY <1>1, <2>3 DEF Becomes, AccountsInv, Profiles, ProfileTogether
    <3> QED
      BY <2>5, <3>1, <3>2, <3>3 DEF AccountsInv, Profiles
  <2> QED
    BY <2>6, <2>7
<1>4. \/ /\ req[r].sess = 0 /\ Reply(r, Keep)
      \/ /\ req[r].sess \notin DOMAIN user /\ Reply(r, 0)
      \/ /\ req[r].sess \in DOMAIN user
         /\ \E pc \in AfterLogin(r) : Goto(r, pc)
         /\ torn' = IF req[r].op = "postProfile" /\ (Overlap(r) \/ Partial(r))
                    THEN torn \cup {req[r].sess} ELSE torn
  BY DEF EnsureLogin
<1>5. 0 \in {Keep, 0} /\ Keep \in {Keep, 0} /\ Keep # 0
  BY DEF Keep
<1> QED
  BY <1>2, <1>3, <1>4, <1>5

(***************************************************************************)
(* The writes.                                                             *)
(***************************************************************************)
LEMMA InsertUserInv ==
  ASSUME AccountsInv, NEW r \in Slots, InsertUser(r)
  PROVE  AccountsInv'
<1> DEFINE n == req[r].name
<1>0. /\ nextUser \in Nat /\ Keep \in Keep..MaxUser /\ MaxUser \in Nat
      /\ DOMAIN user \subseteq 1..(nextUser - 1)
      /\ nextUser <= MaxUser + 1 /\ KeptUsers \in Nat
      /\ KeptUsers < nextUser
  BY KeptUsersType DEF AccountsInv, AccountsTypeOK, Kept, Keep
<1>1. CASE Named(n) # {} /\ Reply(r, Keep) /\ UNCHANGED <<user, nextUser, granted>>
  <2>1. PICK x \in Request : Becomes(r, x) /\ Held(x) /\ x.pc = "idle"
    BY <1>0, <1>1, ReplyHeld
  <2>2. /\ Answered(x)' /\ x.pc # "updateIcon"
        /\ x.pc \notin {"insertImage", "updateIcon", "updateDisplay"}
    BY <2>1 DEF Answered
  <2>3. UNCHANGED <<tables, raced, cookie, granted, torn>>
        /\ req[r].pc = "insertUser"
    BY <1>1 DEF InsertUser, tables
  <2>4. AccountsTypeOK' /\ Kept' /\ Requests' /\ Sessions' /\ Icons'
    BY <2>1, <2>2, <2>3, QuietStep DEF AccountsInv, AccountsTypeOK
  <2>5. Profiles'
    BY <1>1, <2>1, <2>2, <2>3, IdleProfiles
  <2> QED
    BY <2>4, <2>5 DEF AccountsInv
<1>2. CASE /\ Named(n) = {} /\ nextUser <= MaxUser
           /\ user' = [id \in DOMAIN user \cup {nextUser} |->
                        IF id = nextUser
                        THEN [name |-> n, icon |-> None, display |-> None]
                        ELSE user[id]]
           /\ nextUser' = nextUser + 1
           /\ Grant(r, nextUser)
  <2>1. /\ UNCHANGED <<image, nextImage, cookie, raced, torn>>
        /\ req[r].pc = "insertUser"
    BY DEF InsertUser
  <2>2. /\ DOMAIN user' = DOMAIN user \cup {nextUser}
        /\ nextUser \notin DOMAIN user
        /\ \A id \in DOMAIN user : user'[id] = user[id]
        /\ user'[nextUser] = [name |-> n, icon |-> None, display |-> None]
    BY <1>0, <1>2
  <2>3. /\ \A c \in Clients : granted[c] \subseteq granted'[c]
        /\ \A c \in Clients : c = req[r].client => nextUser \in granted'[c]
    BY <1>2 DEF Grant
  <2>4. n \in Names /\ req[r].client \in Clients \cup {None}
    BY <2>1 DEF AccountsInv, Requests, Held, Request
  <2>5. PICK set \in Keep..MaxUser :
          /\ Reply(r, set)
          /\ set # Keep => set = nextUser /\ req[r].client \in Clients
    <3>1. nextUser \in Keep..MaxUser
      BY <1>0, <1>2 DEF Keep
    <3>2. CASE req[r].client = None
      BY <1>0, <1>2, <3>2 DEF Grant
    <3>3. CASE req[r].client # None
      BY <1>2, <2>4, <3>1, <3>3 DEF Grant
    <3> QED
      BY <3>2, <3>3
  <2>6. PICK x \in Request :
           /\ Becomes(r, x) /\ Held(x)
           /\ x.pc \in {"idle", "reply"}
           /\ x.pc = "reply" => /\ set # Keep /\ x.set = set
                               /\ x.client = req[r].client
    BY <2>5, ReplyHeld
  <2>7. Held(x)' /\ nextUser <= nextUser' /\ nextUser' \in Nat
    BY <1>0, <1>2, <2>6 DEF Held, Request
  <2>8. Requests'
    BY <2>6, <2>7, RequestsStep
  <2>9. Sessions'
    <3>1. Answered(x)'
      BY <1>0, <1>2, <2>3, <2>5, <2>6 DEF Answered
    <3>2. /\ \A id \in DOMAIN user' : id < nextUser => id \in DOMAIN user
          /\ \A c \in Clients :
               granted[c] \cap DOMAIN user' \subseteq granted'[c]
      BY <1>0, <2>2, <2>3
    <3> QED
      BY <2>1, <2>6, <2>7, <3>1, <3>2, SessionsStep
  <2>10. AccountsTypeOK'
    <3>1. DOMAIN user' \subseteq 1..(nextUser' - 1)
      BY <1>0, <1>2, <2>2
    <3>2. \A id \in DOMAIN user' :
           user'[id] \in [name : Names, icon : Pictures \cup {None},
                          display : Pictures \cup {None}]
      BY <2>2, <2>4 DEF AccountsInv, AccountsTypeOK
    <3>3. \A id \in DOMAIN user : user[id].name # n
      BY <1>2 DEF Named
    <3>4. \A i, j \in DOMAIN user' :
            user'[i].name = user'[j].name => i = j
      BY <2>2, <3>3 DEF AccountsInv, AccountsTypeOK
    <3>5. nextUser' <= MaxUser + 1
      BY <1>0, <1>2
    <3> QED
      BY <2>1, <2>8, <3>1, <3>2, <3>4, <3>5
         DEF AccountsInv, AccountsTypeOK, Requests, Held, Request
  <2>11. Kept'
    BY <1>0, <2>1, <2>2, <2>7 DEF AccountsInv, Kept
  <2>12. Icons'
    <3>1. None \in Range(image)
      BY DEF AccountsInv, Kept, Range
    <3>2. \A q \in Slots : req[q].sess < nextUser
      BY DEF AccountsInv, Requests, Held
    <3> QED
      BY <1>0, <2>1, <2>2, <2>6, <3>1, <3>2
         DEF AccountsInv, Icons, DanglingExplained, IconFound, Becomes
  <2>13. SharedTorn'
    BY <1>0, <2>1, <2>2, <2>6, SharedStep
  <2>14. IconStored'
    <3>1. \A q \in Slots : req[q].sess < nextUser
      BY DEF AccountsInv, Requests, Held
    <3> QED
      BY <1>0, <2>1, <2>2, <2>6, <3>1
         DEF AccountsInv, Profiles, IconStored, Becomes
  <2>15. ProfileTogether'
    BY <2>1, <2>2, <2>6 DEF AccountsInv, Profiles, ProfileTogether, Becomes
  <2> QED
    BY <2>8, <2>9, <2>10, <2>11, <2>12, <2>13, <2>14, <2>15
       DEF AccountsInv, Profiles
<1> QED
  BY <1>1, <1>2 DEF InsertUser, FreshId

\* A post of a profile goes on: what its next step is, and what it keeps.
LEMMA PostGoesOn ==
  ASSUME AccountsInv, NEW r \in Slots, Writing(r),
         NEW pc \in {"updateIcon", "updateDisplay", "end"}, Goto(r, pc),
         pc = "updateIcon" => req[r].file # None,
         pc = "updateDisplay" => req[r].display # None,
         nextUser' = nextUser, cookie' = cookie,
         DOMAIN user' = DOMAIN user,
         \A c \in Clients : granted'[c] = granted[c],
         torn' = torn
  PROVE  \E x :
           /\ Becomes(r, x)
           /\ pc = "end" => x = Idle
           /\ pc # "end" =>
                /\ x.pc = pc /\ x.sess = req[r].sess
                /\ x.file = req[r].file /\ x.display = req[r].display
           /\ Requests' /\ Sessions' /\ SharedTorn'
<1>1. PICK x \in Request :
           /\ Becomes(r, x)
           /\ pc = "end" => x = Idle
           /\ pc # "end" =>
                /\ x.pc = pc /\ x.sess = req[r].sess
                /\ x.file = req[r].file /\ x.display = req[r].display
  BY GotoBecomes DEF AccountsInv, PCs
<1>2. Held(x)
  BY <1>1, IdleHeld DEF Held, AccountsInv, Requests
<1>3. nextUser \in Nat /\ x.pc # "reply"
  BY <1>1, IdleHeld DEF AccountsInv, Kept
<1>4. Requests'
  BY <1>1, <1>2, <1>3, RequestsStep DEF Held
<1>5. Answered(x)'
  BY <1>3 DEF Answered
<1>6. Sessions'
  BY <1>1, <1>3, <1>5, SessionsStep
<1>7. SharedTorn'
  BY <1>1, <1>3, IdleHeld, SharedStep DEF AccountsInv
<1> QED
  BY <1>1, <1>4, <1>6, <1>7

LEMMA InsertImageInv ==
  ASSUME AccountsInv, NEW r \in Slots, InsertImage(r)
  PROVE  AccountsInv'
<1>1. /\ UNCHANGED <<user, nextUser, cookie, granted, raced, torn>>
      /\ req[r].pc = "insertImage" /\ nextImage <= MaxImage
      /\ image' = [id \in DOMAIN image \cup {nextImage} |->
                     IF id = nextImage THEN req[r].file ELSE image[id]]
      /\ nextImage' = nextImage + 1
      /\ Goto(r, "updateIcon")
  BY DEF InsertImage
<1>2. /\ DOMAIN image' = DOMAIN image \cup {nextImage}
      /\ nextImage \in Nat /\ nextImage \notin DOMAIN image
      /\ \A id \in DOMAIN image : image'[id] = image[id]
      /\ image'[nextImage] = req[r].file
  BY <1>1 DEF AccountsInv, AccountsTypeOK, Kept
<1>3. Writing(r) /\ req[r].file # None
  BY <1>1 DEF Writing, AccountsInv, Requests, Held
<1>4. PICK x :
           /\ Becomes(r, x)
           /\ x.pc = "updateIcon" /\ x.sess = req[r].sess
           /\ x.file = req[r].file /\ x.display = req[r].display
           /\ Requests' /\ Sessions' /\ SharedTorn'
  BY <1>1, <1>3, PostGoesOn
<1>5. AccountsTypeOK'
  <2>1. DOMAIN image' \subseteq 1..(nextImage' - 1) /\ nextImage' <= MaxImage + 1
    BY <1>1, <1>2, KeptUsersType DEF AccountsInv, AccountsTypeOK, Kept
  <2> QED
    BY <1>1, <1>4, <2>1
       DEF AccountsInv, AccountsTypeOK, Requests, Held, Request
<1>6. Kept'
  BY <1>1, <1>2 DEF AccountsInv, Kept
<1>7. Icons'
  <2>1. Range(image) \subseteq Range(image') /\ req[r].file \in Range(image')
    BY <1>2 DEF Range
  <2> QED
    BY <1>1, <1>4, <2>1
       DEF AccountsInv, Icons, DanglingExplained, IconFound, Becomes
<1>8. IconStored' /\ ProfileTogether'
  BY <1>1, <1>4
     DEF AccountsInv, Profiles, IconStored, ProfileTogether, Becomes
<1> QED
  BY <1>4, <1>5, <1>6, <1>7, <1>8 DEF AccountsInv, Profiles

\* Two posts of one user that are both in progress are marked.
LEMMA AloneOrTorn ==
  ASSUME AccountsInv, NEW r \in Slots, NEW q \in Slots, q # r,
         Writing(r), Writing(q), req[q].sess = req[r].sess,
         req[r].sess \in DOMAIN user
  PROVE  req[r].sess \in torn
BY DEF AccountsInv, Profiles, SharedTorn, Overlap

LEMMA UpdateIconInv ==
  ASSUME AccountsInv, NEW r \in Slots, UpdateIcon(r)
  PROVE  AccountsInv'
<1> DEFINE u == req[r].sess
<1>1. /\ UNCHANGED <<image, nextUser, nextImage, cookie, granted, raced, torn>>
      /\ req[r].pc = "updateIcon"
      /\ user' = IF u \in DOMAIN user
                 THEN [user EXCEPT ![u].icon = req[r].file] ELSE user
      /\ Goto(r, IF req[r].display = None THEN "end" ELSE "updateDisplay")
  BY DEF UpdateIcon
<1>2. /\ req[r].file \in Pictures
      /\ None \in {req[r].file, req[r].display} \/ req[r].file = req[r].display
      /\ Writing(r)
  BY <1>1 DEF AccountsInv, Requests, Held, Request, Writing
<1>3. \A id \in DOMAIN user :
        user[id] \in [name : Names, icon : Pictures \cup {None},
                      display : Pictures \cup {None}]
  BY DEF AccountsInv, AccountsTypeOK
<1>4. /\ DOMAIN user' = DOMAIN user
      /\ \A id \in DOMAIN user :
           /\ user'[id].name = user[id].name
           /\ user'[id].display = user[id].display
           /\ user'[id].icon = IF id = u THEN req[r].file ELSE user[id].icon
           /\ user'[id] \in [name : Names, icon : Pictures \cup {None},
                             display : Pictures \cup {None}]
  <2>1. CASE u \notin DOMAIN user
    BY <1>1, <1>3, <2>1
  <2>2. CASE u \in DOMAIN user
    <3>1. user' = [user EXCEPT ![u].icon = req[r].file]
      BY <1>1, <2>2
    <3>2. DOMAIN user' = DOMAIN user
      BY <3>1
    <3>3. ASSUME NEW id \in DOMAIN user, id # u PROVE user'[id] = user[id]
      BY <3>1, <3>3
    <3>4. user'[u] = [user[u] EXCEPT !.icon = req[r].file]
      BY <2>2, <3>1
    <3>5. user[u] \in [name : Names, icon : Pictures \cup {None},
                       display : Pictures \cup {None}]
      BY <1>3, <2>2
    <3>6. /\ user'[u].name = user[u].name /\ user'[u].display = user[u].display
          /\ user'[u].icon = req[r].file
          /\ user'[u] \in [name : Names, icon : Pictures \cup {None},
                            display : Pictures \cup {None}]
      BY <1>2, <3>4, <3>5
    <3> QED
      BY <1>3, <3>2, <3>3, <3>6
  <2> QED
    BY <2>1, <2>2
<1> DEFINE pc == IF req[r].display = None THEN "end" ELSE "updateDisplay"
<1>5. PICK x :
           /\ Becomes(r, x)
           /\ pc = "end" => x = Idle
           /\ pc # "end" =>
                /\ x.pc = pc /\ x.sess = u
                /\ x.file = req[r].file /\ x.display = req[r].display
           /\ Requests' /\ Sessions' /\ SharedTorn'
  BY <1>1, <1>2, <1>4, PostGoesOn
<1>6. AccountsTypeOK'
  BY <1>1, <1>4, <1>5 DEF AccountsInv, AccountsTypeOK, Requests, Held, Request
<1>7. Kept'
  BY <1>1, <1>4 DEF AccountsInv, Kept
<1>8. x.pc # "updateIcon" /\ (x.pc = "updateDisplay" <=> pc # "end")
  BY <1>5, IdleHeld DEF AccountsInv
<1>9. Icons'
  BY <1>1, <1>4, <1>5, <1>8
     DEF AccountsInv, Icons, DanglingExplained, IconFound, Becomes
<1>10. IconStored'
  <2> SUFFICES ASSUME NEW q \in Slots, req'[q].pc = "updateDisplay",
                      req'[q].sess \in DOMAIN user', req'[q].sess \notin torn'
               PROVE  user'[req'[q].sess].icon = req'[q].file
    BY DEF IconStored
  <2>1. CASE q = r
    BY <1>4, <1>5, <1>8, <2>1 DEF Becomes
  <2>2. CASE q # r
    <3>1. req'[q] = req[q] /\ Writing(q)
      BY <1>5, <2>2 DEF Becomes, Writing
    <3>2. req[q].sess # u
      BY <1>1, <1>2, <1>4, <2>2, <3>1, AloneOrTorn
    <3> QED
      BY <1>1, <1>4, <3>1, <3>2 DEF AccountsInv, Profiles, IconStored
  <2> QED
    BY <2>1, <2>2
<1>11. ProfileTogether'
  <2> SUFFICES ASSUME NEW id \in DOMAIN user', id \notin torn'
               PROVE  \/ user'[id].icon = user'[id].display
                      \/ \E q \in Slots : /\ req'[q].pc = "updateDisplay"
                                         /\ req'[q].sess = id
    BY DEF ProfileTogether
  <2>1. CASE id = u
    <3>1. ~Partial(r)
      BY <1>1, <1>2, <1>4, <2>1 DEF AccountsInv, Profiles, SharedTorn
    <3>2. pc # "end"
      BY <1>2, <3>1, KeptUsersType DEF Partial
    <3> QED
      BY <1>5, <1>8, <2>1, <3>2 DEF Becomes
  <2>2. CASE id # u
    BY <1>1, <1>4, <1>5, <2>2
       DEF AccountsInv, Profiles, ProfileTogether, Becomes
  <2> QED
    BY <2>1, <2>2
<1> QED
  BY <1>5, <1>6, <1>7, <1>9, <1>10, <1>11 DEF AccountsInv, Profiles

LEMMA UpdateDisplayInv ==
  ASSUME AccountsInv, NEW r \in Slots, UpdateDisplay(r)
  PROVE  AccountsInv'
<1> DEFINE u == req[r].sess
<1>1. /\ UNCHANGED <<image, nextUser, nextImage, cookie, granted, raced, torn>>
      /\ req[r].pc = "updateDisplay"
      /\ user' = IF u \in DOMAIN user
                 THEN [user EXCEPT ![u].display = req[r].display] ELSE user
      /\ Goto(r, "end")
  BY DEF UpdateDisplay
<1>2. /\ req[r].display \in Pictures
      /\ None \in {req[r].file, req[r].display} \/ req[r].file = req[r].display
      /\ Writing(r)
  BY <1>1 DEF AccountsInv, Requests, Held, Request, Writing
<1>3. \A id \in DOMAIN user :
        user[id] \in [name : Names, icon : Pictures \cup {None},
                      display : Pictures \cup {None}]
  BY DEF AccountsInv, AccountsTypeOK
<1>4. /\ DOMAIN user' = DOMAIN user
      /\ \A id \in DOMAIN user :
           /\ user'[id].name = user[id].name
           /\ user'[id].icon = user[id].icon
           /\ user'[id].display =
                IF id = u THEN req[r].display ELSE user[id].display
           /\ user'[id] \in [name : Names, icon : Pictures \cup {None},
                             display : Pictures \cup {None}]
  <2>1. CASE u \notin DOMAIN user
    BY <1>1, <1>3, <2>1
  <2>2. CASE u \in DOMAIN user
    <3>1. user' = [user EXCEPT ![u].display = req[r].display]
      BY <1>1, <2>2
    <3>2. DOMAIN user' = DOMAIN user
      BY <3>1
    <3>3. ASSUME NEW id \in DOMAIN user, id # u PROVE user'[id] = user[id]
      BY <3>1, <3>3
    <3>4. user'[u] = [user[u] EXCEPT !.display = req[r].display]
      BY <2>2, <3>1
    <3>5. user[u] \in [name : Names, icon : Pictures \cup {None},
                       display : Pictures \cup {None}]
      BY <1>3, <2>2
    <3>6. /\ user'[u].name = user[u].name /\ user'[u].icon = user[u].icon
          /\ user'[u].display = req[r].display
          /\ user'[u] \in [name : Names, icon : Pictures \cup {None},
                            display : Pictures \cup {None}]
      BY <1>2, <3>4, <3>5
    <3> QED
      BY <1>3, <3>2, <3>3, <3>6
  <2> QED
    BY <2>1, <2>2
<1>5. Becomes(r, Idle) /\ Requests' /\ Sessions' /\ SharedTorn'
  BY <1>1, <1>2, <1>4, PostGoesOn
<1>6. AccountsTypeOK'
  BY <1>1, <1>4, <1>5 DEF AccountsInv, AccountsTypeOK, Requests, Held, Request
<1>7. Kept'
  BY <1>1, <1>4 DEF AccountsInv, Kept
<1>8. Idle.pc = "idle"
  BY IdleHeld DEF AccountsInv
<1>9. Icons'
  BY <1>1, <1>4, <1>5, <1>8
     DEF AccountsInv, Icons, DanglingExplained, IconFound, Becomes
<1>10. IconStored'
  BY <1>1, <1>4, <1>5, <1>8 DEF AccountsInv, Profiles, IconStored, Becomes
<1>11. ProfileTogether'
  <2> SUFFICES ASSUME NEW id \in DOMAIN user', id \notin torn'
               PROVE  \/ user'[id].icon = user'[id].display
                      \/ \E q \in Slots : /\ req'[q].pc = "updateDisplay"
                                         /\ req'[q].sess = id
    BY DEF ProfileTogether
  <2>1. CASE id = u
    <3>1. ~Partial(r) /\ user[u].icon = req[r].file
      BY <1>1, <1>2, <1>4, <2>1
         DEF AccountsInv, Profiles, SharedTorn, IconStored
    <3>2. req[r].file = req[r].display
      BY <1>2, <3>1, KeptUsersType DEF Partial
    <3> QED
      BY <1>4, <2>1, <3>1, <3>2
  <2>2. CASE id # u
    BY <1>1, <1>4, <1>5, <2>2
       DEF AccountsInv, Profiles, ProfileTogether, Becomes
  <2> QED
    BY <2>1, <2>2
<1> QED
  BY <1>5, <1>6, <1>7, <1>9, <1>10, <1>11 DEF AccountsInv, Profiles

LEMMA DeleteUserInv ==
  ASSUME AccountsInv, NEW r \in Slots, DeleteUser(r)
  PROVE  AccountsInv'
<1>1. /\ req[r].pc = "deleteUser" /\ Goto(r, "deleteImage")
      /\ UNCHANGED <<image, nextUser, nextImage, cookie>>
      /\ granted' = [c \in Clients |-> granted[c] \cap 1..KeptUsers]
      /\ torn' = torn \cap 1..KeptUsers
  BY DEF DeleteUser
<1>2. /\ DOMAIN user' = DOMAIN user \cap 1..KeptUsers
      /\ \A id \in DOMAIN user' : user'[id] = user[id]
  BY DEF DeleteUser, Restrict
<1>3. PICK x \in Request :
           /\ Becomes(r, x) /\ x.pc = "deleteImage" /\ x.sess = req[r].sess
           /\ x.file = req[r].file /\ x.display = req[r].display
  BY <1>1, GotoBecomes DEF AccountsInv, PCs
<1>4. Held(x)' /\ Answered(x)' /\ nextUser \in Nat
  BY <1>1, <1>3 DEF Held, Answered, AccountsInv, Requests, Kept
<1>5. Requests'
  BY <1>1, <1>3, <1>4, RequestsStep
<1>6. Sessions'
  <2>1. \A c \in Clients :
          granted[c] \cap DOMAIN user' \subseteq granted'[c]
    BY <1>1, <1>2
  <2> QED
    BY <1>1, <1>2, <1>3, <1>4, <2>1, SessionsStep
<1>7. AccountsTypeOK'
  BY <1>1, <1>2, <1>5
     DEF AccountsInv, AccountsTypeOK, Requests, Held, Request
<1>8. Kept'
  BY <1>1, <1>2 DEF AccountsInv, Kept
<1>9. Icons'
  BY <1>2 DEF Icons, DanglingExplained
<1>10. SharedTorn'
  BY <1>1, <1>2, <1>3, SharedStep
<1>11. IconStored' /\ ProfileTogether'
  BY <1>1, <1>2, <1>3
     DEF AccountsInv, Profiles, IconStored, ProfileTogether, Becomes
<1> QED
  BY <1>5, <1>6, <1>7, <1>8, <1>9, <1>10, <1>11 DEF AccountsInv, Profiles

LEMMA DeleteImageInv ==
  ASSUME AccountsInv, NEW r \in Slots, DeleteImage(r)
  PROVE  AccountsInv'
<1>1. /\ req[r].pc = "deleteImage" /\ Goto(r, "end")
      /\ UNCHANGED <<user, nextUser, nextImage, cookie, granted, torn>>
      /\ raced' = raced \cup (DOMAIN user \ 1..KeptUsers)
  BY DEF DeleteImage
<1>2. /\ DOMAIN image' = DOMAIN image \cap 1..KeptImages
      /\ \A id \in DOMAIN image' : image'[id] = image[id]
  BY DEF DeleteImage, Restrict
<1>3. Becomes(r, Idle)
  BY <1>1, GotoBecomes DEF AccountsInv
<1>4. Held(Idle)' /\ Answered(Idle)' /\ Idle.pc = "idle" /\ nextUser \in Nat
  BY <1>1, IdleHeld DEF Held, Answered, AccountsInv, Kept
<1>5. Requests'
  BY <1>1, <1>3, <1>4, RequestsStep
<1>6. Sessions'
  BY <1>1, <1>3, <1>4, SessionsStep
<1>7. AccountsTypeOK'
  BY <1>1, <1>2, <1>5
     DEF AccountsInv, AccountsTypeOK, Requests, Held, Request
<1>8. Kept'
  BY <1>1, <1>2 DEF AccountsInv, Kept, KeptImages
<1>9. Icons'
  BY <1>1 DEF Icons, DanglingExplained, KeptUsers
<1>10. Profiles'
  BY <1>1, <1>3, <1>4, IdleProfiles
<1> QED
  BY <1>5, <1>6, <1>7, <1>8, <1>9, <1>10 DEF AccountsInv

-----------------------------------------------------------------------------
LEMMA InitAccountsInv == Init => AccountsInv
<1> SUFFICES ASSUME Init PROVE AccountsInv
  OBVIOUS
<1>1. PICK f \in Bijection(1..KeptUsers, Seeded) :
         user = [id \in 1..KeptUsers |->
                    [name |-> f[id], icon |-> None, display |-> None]]
  BY DEF Init
<1>2. /\ f \in [1..KeptUsers -> Names]
      /\ \A i, j \in 1..KeptUsers : f[i] = f[j] => i = j
  BY AccountsAssumption DEF Bijection, Injection, IsInjective
<1>3. /\ image = [id \in 1..1 |-> None] /\ nextImage = 2
      /\ nextUser = KeptUsers + 1 /\ KeptUsers \in 1..MaxUser
      /\ cookie = [c \in Clients |-> 0] /\ req = [r \in Slots |-> Idle]
      /\ granted = [c \in Clients |-> {}] /\ raced = {} /\ torn = {}
  BY KeptUsersType DEF Init, KeptImages
<1>4. MaxUser \in Nat
  BY KeptUsersType
<1>5. Kept
  BY <1>1, <1>3 DEF Kept
<1>6. Requests
  BY <1>3, <1>5, IdleHeld DEF Requests
<1>7. AccountsTypeOK
  <2>1. \A id \in DOMAIN user :
         user[id] \in [name : Names, icon : Pictures \cup {None},
                       display : Pictures \cup {None}]
    BY <1>1, <1>2
  <2>2. \A i, j \in DOMAIN user : user[i].name = user[j].name => i = j
    BY <1>1, <1>2
  <2>3. DOMAIN user \subseteq 1..(nextUser - 1) /\ nextUser <= MaxUser + 1
    BY <1>1, <1>3, <1>4
  <2>4. DOMAIN image \subseteq 1..(nextImage - 1)
    BY <1>3
  <2>5. nextImage <= MaxImage + 1
    BY <1>3, AccountsAssumption
  <2>6. cookie \in [Clients -> 0..MaxUser]
    BY <1>3, <1>4
  <2>7. \A r \in Slots : req[r].set \in Keep..MaxUser
    BY <1>6 DEF Requests, Held, Request
  <2> QED
    BY <2>1, <2>2, <2>3, <2>4, <2>5, <2>6, <2>7
       DEF AccountsTypeOK
<1>8. Sessions
  BY <1>1, <1>3, <1>5, IdleHeld DEF Sessions, SessionOwn, Answered
<1>9. Icons
  BY <1>1, <1>3, <1>5, IdleHeld DEF Icons, DanglingExplained
<1>10. Profiles
  BY <1>1, <1>3, <1>5, IdleHeld
     DEF Profiles, SharedTorn, IconStored, ProfileTogether, Writing
<1> QED
  BY <1>5, <1>6, <1>7, <1>8, <1>9, <1>10 DEF AccountsInv

LEMMA NextAccountsInv == AccountsInv /\ [Next]_vars => AccountsInv'
<1> SUFFICES ASSUME AccountsInv, [Next]_vars PROVE AccountsInv'
  OBVIOUS
<1>1. CASE UNCHANGED vars
  BY <1>1
     DEF vars, AccountsInv, AccountsTypeOK, Kept, Requests, Held, Sessions,
         Answered, SessionOwn, Icons, DanglingExplained, IconFound, Profiles,
         SharedTorn, IconStored, ProfileTogether, Writing, Overlap, Partial
<1>2. ASSUME NEW r \in Slots, Handle(r) PROVE AccountsInv'
  BY <1>2, ReceiveInv, StatementFailsInv, InsertUserInv, SelectUserInv,
     EnsureLoginInv, InsertImageInv, UpdateIconInv, UpdateDisplayInv,
     DeleteUserInv, DeleteImageInv
     DEF Handle
<1> QED
  BY <1>1, <1>2, SendInv DEF Next

LEMMA AccountsInvariant == Spec => []AccountsInv
BY InitAccountsInv, NextAccountsInv, PTL DEF Spec

-----------------------------------------------------------------------------
\* The tables user and image keep their keys and the UNIQUE name, and cookies
\* and requests their types (the handlers of app.go).
THEOREM AccountsTypeCorrect == Spec => []AccountsTypeOK
BY AccountsInvariant, PTL DEF AccountsInv

\* A session of app.go is an account of its own browser or one that is gone.
THEOREM SessionsAreOwn == Spec => []SessionOwn
BY AccountsInvariant, PTL DEF AccountsInv, Sessions

\* The icon of a user who registered can be loaded, but for one who met
\* /initialize between its two DELETEs.
THEOREM IconsCanBeLoaded == Spec => []DanglingExplained
BY AccountsInvariant, PTL DEF AccountsInv, Icons

\* postProfile stores icon and display name of one post together, unless the
\* post is half, overlapped, failed or still on its way.
THEOREM ProfilesStayTogether == Spec => []ProfileTogether
BY AccountsInvariant, PTL DEF AccountsInv, Profiles

\* ensureLogin clears no session of a living account, but when the answer was
\* to a request under an earlier session: ids are never used again.
THEOREM SessionsAreKept == Spec => SessionKept
<1> DEFINE Kept1 ==
      \A c \in Clients :
         cookie[c] \in DOMAIN user /\ cookie'[c] = 0 =>
            \E r \in Slots : /\ req[r].pc = "reply" /\ req[r].client = c
                             /\ req[r].op = "logout" \/ req[r].sess # cookie[c]
<1>1. AccountsInv /\ [Next]_vars => [Kept1]_vars
  <2> SUFFICES ASSUME AccountsInv, Next, NEW c \in Clients,
                      cookie[c] \in DOMAIN user, cookie'[c] = 0
               PROVE  \E r \in Slots :
                        /\ req[r].pc = "reply" /\ req[r].client = c
                        /\ req[r].op = "logout" \/ req[r].sess # cookie[c]
    OBVIOUS
  <2>1. cookie[c] # 0
    BY DEF AccountsInv, AccountsTypeOK, Kept
  <2>2. PICK r \in Slots : Receive(r)
    BY <2>1 DEF Next, Send, Handle, StatementFails, InsertUser, SelectUser,
                EnsureLogin, InsertImage, UpdateIcon, UpdateDisplay,
                DeleteUser, DeleteImage
  <2>3. /\ req[r].pc = "reply" /\ req[r].client = c /\ req[r].set = 0
    BY <2>1, <2>2 DEF Receive, AccountsInv, AccountsTypeOK
  <2>4. req[r].op = "logout" \/ req[r].sess \notin DOMAIN user
    BY <2>3 DEF AccountsInv, Sessions, Answered
  <2> QED
    BY <2>3, <2>4
<1> QED
  BY <1>1, AccountsInvariant, PTL DEF Spec, SessionKept
=============================================================================
