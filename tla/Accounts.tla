------------------------------ MODULE Accounts ------------------------------
(***************************************************************************)
(* Accounts, sessions, profiles and icons of webapp/go/src/isubata/app.go: *)
(* the handlers that read or write the tables user and image, one action   *)
(* per SQL statement, any number of requests at a time.                    *)
(*                                                                         *)
(* A session is nothing but a cookie with a user id: it changes when an    *)
(* answer reaches the browser, in the order in which answers arrive.  A    *)
(* profile is an icon and a display name; those of one post are the same   *)
(* value of Pictures, the default icon and the initial name are None.      *)
(***************************************************************************)
EXTENDS Integers, FiniteSets, Functions, FiniteSetsExt

CONSTANTS
    Names,       \* user names
    Seeded,      \* names of the initial users, at most KeptUsers
    Pictures,    \* uploaded files, and display names
    None,
    Clients,     \* browsers: cookie jars; None is one that is not followed
    Slots,       \* requests in progress at a time
    MaxUser,     \* bound: ids of user
    MaxImage     \* bound: ids of image

ASSUME AccountsAssumption ==
    /\ Seeded \subseteq Names /\ IsFiniteSet(Names)
    /\ None \notin Pictures \cup Clients
    /\ MaxUser \in Nat /\ MaxImage \in Nat \ {0}
    /\ Cardinality(Seeded) \in 1..MaxUser

KeptUsers == Cardinality(Seeded)   \* the 1000 of /initialize
KeptImages == 1                    \* its 1001: default.png among them

VARIABLES
    user,      \* table user: id -> [name, icon, display]
    image,     \* table image: id -> name
    nextUser,  \* AUTO_INCREMENT of user
    nextImage, \* AUTO_INCREMENT of image
    cookie,    \* cookie[c]: user_id of the session, 0 without one
    req,       \* req[r]: a request
    granted,   \* history: the living accounts each browser logged in to
    raced,     \* history: living accounts /initialize met while they changed
    torn       \* history: those with a profile post that failed or overlapped

tables == <<user, image, nextUser, nextImage>>
vars == <<user, image, nextUser, nextImage, cookie, req, granted, raced, torn>>

Keep == -1   \* the answer sets no cookie
Idle == [op |-> "none", client |-> None, name |-> None, file |-> None,
         display |-> None, sess |-> 0, set |-> Keep, pc |-> "idle"]

Init ==
    /\ \E f \in Bijection(1..KeptUsers, Seeded) :
         user = [id \in 1..KeptUsers |->
                    [name |-> f[id], icon |-> None, display |-> None]]
    /\ image = [id \in 1..KeptImages |-> None]
    /\ nextUser = KeptUsers + 1
    /\ nextImage = KeptImages + 1
    /\ cookie = [c \in Clients |-> 0]
    /\ req = [r \in Slots |-> Idle]
    /\ granted = [c \in Clients |-> {}]
    /\ raced = {}
    /\ torn = {}

\* Mutant: the column name is not UNIQUE.
NamedMutant(n) == {}

Named(n) == {id \in DOMAIN user : user[id].name = n}

-----------------------------------------------------------------------------
(***************************************************************************)
(* Requests and their answers.                                             *)
(***************************************************************************)
\* The first step of each handler.  "page" stands for the channel, profile and
\* add_channel pages; getIndex and getIcon write nothing.
Entry == [register |-> "insertUser", login |-> "selectUser", logout |-> "reply",
          page |-> "ensureLogin", postProfile |-> "ensureLogin",
          initialize |-> "deleteUser"]

\* Handlers that do not look at the session.
Anonymous == {"register", "login", "initialize"}

Send(r, c, op) ==
    /\ req[r].pc = "idle"
    /\ op = "initialize" => c = None
    /\ c = None => op \in {"register", "initialize"}
    /\ \E n \in IF op \in {"register", "login"} THEN Names ELSE {None},
          f, d \in IF op = "postProfile" THEN Pictures \cup {None} ELSE {None} :
         /\ None \in {f, d} \/ f = d
         /\ req' = [req EXCEPT ![r] =
            [op |-> op, client |-> c, name |-> n, file |-> f, display |-> d,
             sess |-> IF op \in Anonymous THEN 0 ELSE cookie[c],
             set |-> IF op = "logout" THEN 0 ELSE Keep, pc |-> Entry[op]]]
    /\ UNCHANGED <<tables, cookie, granted, raced, torn>>

Goto(r, pc) == req' = [req EXCEPT ![r] = IF pc = "end" THEN Idle
                                         ELSE [@ EXCEPT !.pc = pc]]

\* An answer that sets no cookie changes nothing, and the request is over.
Reply(r, set) ==
    req' = [req EXCEPT ![r] =
              IF set = Keep THEN Idle
              ELSE [Idle EXCEPT !.op = req[r].op, !.client = req[r].client,
                                !.sess = req[r].sess, !.set = set,
                                !.pc = "reply"]]

\* The browser takes the answer, or has given up waiting for it.
Receive(r) ==
    /\ req[r].pc = "reply"
    /\ req' = [req EXCEPT ![r] = Idle]
    /\ \/ cookie' = [cookie EXCEPT ![req[r].client] = req[r].set]
       \/ UNCHANGED cookie
    /\ UNCHANGED <<tables, granted, raced, torn>>

\* A statement fails and the handler answers 500; /initialize panics.
StatementFails(r) ==
    /\ req[r].pc \notin {"idle", "reply"}
    /\ Reply(r, Keep)
    /\ torn' = IF req[r].pc = "updateDisplay"
               THEN torn \cup ({req[r].sess} \cap DOMAIN user) ELSE torn
    /\ UNCHANGED <<tables, cookie, granted, raced>>

-----------------------------------------------------------------------------
(***************************************************************************)
(* postRegister, postLogin and the session.                                *)
(***************************************************************************)
\* Mutant: the first id after those in the table.
FreshIdMutant == Max(DOMAIN user \cup {0}) + 1

\* An id is never used twice, whatever /initialize deletes.
FreshId == nextUser

Grant(r, id) ==
    /\ granted' = [c \in Clients |-> IF c = req[r].client
                                    THEN granted[c] \cup {id} ELSE granted[c]]
    /\ Reply(r, IF req[r].client = None THEN Keep ELSE id)

InsertUser(r) ==
    /\ req[r].pc = "insertUser"
    /\ \/ /\ Named(req[r].name) = {}
          /\ FreshId <= MaxUser
          /\ user' = [id \in DOMAIN user \cup {FreshId} |->
                        IF id = FreshId
                        THEN [name |-> req[r].name, icon |-> None,
                              display |-> None]
                        ELSE user[id]]
          /\ nextUser' = FreshId + 1
          /\ Grant(r, FreshId)
       \/ /\ Named(req[r].name) # {}
          /\ Reply(r, Keep)
          /\ UNCHANGED <<user, nextUser, granted>>
    /\ UNCHANGED <<image, nextImage, cookie, raced, torn>>

\* postLogin: the password is right or wrong.
SelectUser(r) ==
    /\ req[r].pc = "selectUser"
    /\ \/ \E id \in Named(req[r].name) : Grant(r, id)
       \/ Reply(r, Keep) /\ UNCHANGED granted
    /\ UNCHANGED <<tables, cookie, raced, torn>>

\* Posts of a profile past ensureLogin.
Writing(r) == req[r].pc \in {"insertImage", "updateIcon", "updateDisplay"}

\* Where postProfile goes from here: a refused file ends it, an empty one
\* counts as no file.
AfterLogin(r) ==
    IF req[r].op # "postProfile" THEN {"end"}
    ELSE IF req[r].file # None THEN {"insertImage", "end"}
    ELSE IF req[r].display # None THEN {"updateDisplay"}
    ELSE {"end"}

Overlap(r) == \E q \in Slots \ {r} : Writing(q) /\ req[q].sess = req[r].sess
Partial(r) == (req[r].file = None) # (req[r].display = None)

\* Mutant: a failing SELECT counts as a user that is gone.
EnsureLoginMutant(r) ==
    /\ req[r].pc = "ensureLogin"
    /\ Reply(r, 0)
    /\ UNCHANGED <<tables, cookie, granted, raced, torn>>

\* A session whose user is gone is cleared; a failing SELECT does not touch it.
EnsureLogin(r) ==
    /\ req[r].pc = "ensureLogin"
    /\ \/ /\ req[r].sess = 0
          /\ Reply(r, Keep)
          /\ UNCHANGED torn
       \/ /\ req[r].sess # 0 /\ req[r].sess \notin DOMAIN user
          /\ Reply(r, 0)
          /\ UNCHANGED torn
       \/ /\ req[r].sess \in DOMAIN user
          /\ \E pc \in AfterLogin(r) : Goto(r, pc)
          /\ torn' = IF req[r].op = "postProfile" /\ (Overlap(r) \/ Partial(r))
                     THEN torn \cup {req[r].sess} ELSE torn
    /\ UNCHANGED <<tables, cookie, granted, raced>>

-----------------------------------------------------------------------------
(***************************************************************************)
(* postProfile and /initialize.                                            *)
(***************************************************************************)
\* Mutant: the error of the INSERT is not looked at.
InsertImageMutant(r) ==
    /\ req[r].pc = "insertImage"
    /\ Goto(r, "updateIcon")
    /\ UNCHANGED <<tables, cookie, granted, raced, torn>>

InsertImage(r) ==
    /\ req[r].pc = "insertImage"
    /\ nextImage <= MaxImage
    /\ image' = [id \in DOMAIN image \cup {nextImage} |->
                    IF id = nextImage THEN req[r].file ELSE image[id]]
    /\ nextImage' = nextImage + 1
    /\ Goto(r, "updateIcon")
    /\ UNCHANGED <<user, nextUser, cookie, granted, raced, torn>>

\* Mutant: the display name is only stored without a file.
UpdateIconMutant(r) ==
    LET id == req[r].sess IN
    /\ req[r].pc = "updateIcon"
    /\ user' = IF id \in DOMAIN user
               THEN [user EXCEPT ![id].icon = req[r].file] ELSE user
    /\ Goto(r, "end")
    /\ UNCHANGED <<image, nextUser, nextImage, cookie, granted, raced, torn>>

\* An UPDATE of a user that is gone changes nothing.
UpdateIcon(r) ==
    LET id == req[r].sess IN
    /\ req[r].pc = "updateIcon"
    /\ user' = IF id \in DOMAIN user
               THEN [user EXCEPT ![id].icon = req[r].file] ELSE user
    /\ Goto(r, IF req[r].display = None THEN "end" ELSE "updateDisplay")
    /\ UNCHANGED <<image, nextUser, nextImage, cookie, granted, raced, torn>>

UpdateDisplay(r) ==
    LET id == req[r].sess IN
    /\ req[r].pc = "updateDisplay"
    /\ user' = IF id \in DOMAIN user
               THEN [user EXCEPT ![id].display = req[r].display] ELSE user
    /\ Goto(r, "end")
    /\ UNCHANGED <<image, nextUser, nextImage, cookie, granted, raced, torn>>

DeleteUser(r) ==
    /\ req[r].pc = "deleteUser"
    /\ user' = Restrict(user, DOMAIN user \cap 1..KeptUsers)
    /\ granted' = [c \in Clients |-> granted[c] \cap 1..KeptUsers]
    /\ raced' = {}
    /\ torn' = torn \cap 1..KeptUsers
    /\ Goto(r, "deleteImage")
    /\ UNCHANGED <<image, nextUser, nextImage, cookie>>

DeleteImage(r) ==
    /\ req[r].pc = "deleteImage"
    /\ image' = Restrict(image, DOMAIN image \cap 1..KeptImages)
    /\ raced' = raced \cup (DOMAIN user \ 1..KeptUsers)
    /\ Goto(r, "end")
    /\ UNCHANGED <<user, nextUser, nextImage, cookie, granted, torn>>

\* getIcon
IconFound(name) == name \in Range(image)

Handle(r) ==
    \/ Receive(r) \/ StatementFails(r) \/ InsertUser(r) \/ SelectUser(r)
    \/ EnsureLogin(r) \/ InsertImage(r) \/ UpdateIcon(r) \/ UpdateDisplay(r)
    \/ DeleteUser(r) \/ DeleteImage(r)

Next ==
    \E r \in Slots :
        \/ \E c \in Clients \cup {None}, op \in DOMAIN Entry : Send(r, c, op)
        \/ Handle(r)

Spec == Init /\ [][Next]_vars

-----------------------------------------------------------------------------
(***************************************************************************)
(* Properties.                                                             *)
(***************************************************************************)
\* The tables, the cookies and the requests keep their types (app.go).
AccountsTypeOK ==
    /\ DOMAIN user \subseteq 1..(nextUser - 1) /\ nextUser <= MaxUser + 1
    /\ \A id \in DOMAIN user :
         user[id] \in [name : Names, icon : Pictures \cup {None},
                       display : Pictures \cup {None}]
    /\ \A i, j \in DOMAIN user : user[i].name = user[j].name => i = j
    /\ DOMAIN image \subseteq 1..(nextImage - 1) /\ nextImage <= MaxImage + 1
    /\ cookie \in [Clients -> 0..MaxUser]
    /\ \A r \in Slots : req[r].set \in Keep..MaxUser

\* A session names an account its browser logged in to or registered, or one
\* that is gone, never somebody else's: ids are not used twice, so a cookie or
\* an answer on its way that outlives /initialize (app.go:206) is not the
\* session of the next user to register.
SessionOwn ==
    \A c \in Clients :
        cookie[c] \in DOMAIN user => cookie[c] \in granted[c]

\* The icon of a registered user can be loaded, unless that user registered
\* between the DELETE of the users and the DELETE of the images of one
\* /initialize: postProfile inserts the image first, in another statement
\* (app.go:665), and /initialize deletes the users first, so it makes every
\* post of an older user harmless.  An initial user keeps its row, so its icon
\* may name a deleted image after any /initialize.
DanglingExplained ==
    \A id \in DOMAIN user \ 1..KeptUsers :
        IconFound(user[id].icon) \/ id \in raced

\* Icon and display name of a user are those of one post, unless a post is on
\* its way, posts of that user overlapped, one gave only one of the two, or
\* its second UPDATE failed (app.go:665-680).
ProfileTogether ==
    \A id \in DOMAIN user :
        \/ user[id].icon = user[id].display
        \/ id \in torn
        \/ \E r \in Slots : req[r].pc = "updateDisplay" /\ req[r].sess = id

\* A browser loses the session of a living account only by its own logout or
\* by the answer to a request it sent under an earlier session, which arrives
\* late: ensureLogin clears the session of a user that is gone, and only that
\* (app.go:162-169).
SessionKept ==
    [][\A c \in Clients :
         cookie[c] \in DOMAIN user /\ cookie'[c] = 0 =>
            \E r \in Slots : /\ req[r].pc = "reply" /\ req[r].client = c
                             /\ req[r].op = "logout" \/ req[r].sess # cookie[c]
      ]_vars
=============================================================================
