-------------------------------- MODULE Chat --------------------------------
(***************************************************************************)
(* The message half of the Isubata web application, webapp/go/.../app.go:  *)
(* the tables user, channel, message and haveread, and the HTTP handlers   *)
(* that read and write them.  Every request runs in a goroutine of its     *)
(* own, no handler opens a transaction, and every db.Exec or db.Get is one *)
(* autocommitted statement.  So one step of this module is one statement,  *)
(* and the statements of different handlers interleave freely.             *)
(*                                                                         *)
(* INSERT INTO message is the one statement that takes two steps.  InnoDB  *)
(* hands out the AUTO_INCREMENT value first and makes the row visible      *)
(* when the statement commits, so of two concurrent inserts the one with   *)
(* the larger id may become visible first.                                 *)
(***************************************************************************)
EXTENDS Naturals, FiniteSets

CONSTANTS
    Users,            \* ids the user table can ever issue
    Channels,         \* ids the channel table can ever issue
    InitialUsers,     \* the users of the initial data set (id <= 1000)
    InitialChannels,  \* the channels of the initial data set (id <= 10)
    InitialRows,      \* the messages of the initial data set (id <= 10000)
    InitialMessages,  \* how many they are, 10000
    Handlers,         \* goroutines that may serve a request at the same time
    Limit,            \* LIMIT of queryMessages, 100
    MaxMessage,       \* bound: no post is sent that would need a larger id
    DBFaults,         \* bound: may a statement fail?
    NoUser, NoChannel \* fillers of the fields a handler does not use

Row == [id : Nat \ {0}, channel_id : Channels, user_id : Users]

ASSUME SetsAssumption ==
    /\ InitialUsers \subseteq Users
    /\ InitialChannels \subseteq Channels
    /\ NoUser \notin Users
    /\ NoChannel \notin Channels
    /\ DBFaults \in BOOLEAN

ASSUME NumbersAssumption ==
    /\ InitialMessages \in Nat
    /\ Limit \in Nat \ {0}
    /\ MaxMessage \in Nat

ASSUME RowsAssumption ==
    /\ InitialRows \subseteq Row
    /\ IsFiniteSet(InitialRows)
    /\ \A r \in InitialRows : r.id <= InitialMessages
    /\ \A r \in InitialRows : r.user_id \in InitialUsers
    /\ \A r, s \in InitialRows : r.id = s.id => r = s

VARIABLES
    user,         \* ids of the rows of table user
    issuedUser,   \* user ids handed out so far; AUTO_INCREMENT reuses none
    channel,      \* ids of the rows of table channel
    issuedChannel,
    message,      \* the visible rows of table message
    nextMessage,  \* AUTO_INCREMENT of table message
    haveread,     \* message_id of the row (user, channel), 0 if there is none
    handler,      \* what each goroutine is doing
    raced         \* history: users deleted while a post of theirs was running

tables == <<user, issuedUser, channel, issuedChannel, message, nextMessage,
            haveread>>

vars == <<user, issuedUser, channel, issuedChannel, message, nextMessage,
          haveread, handler, raced>>

-----------------------------------------------------------------------------
(***************************************************************************)
(* Handlers.  pc names the next statement of the handler, "idle" a free    *)
(* goroutine and "reply" one whose response has not reached the client.    *)
(* base is a history field: haveread as it was when messages were selected.*)
(***************************************************************************)

Idle == [pc |-> "idle", user |-> NoUser, channel_id |-> NoChannel, last |-> 0,
         rows |-> {}, todo |-> {}, unread |-> {}, base |-> 0, status |-> 0]

Insert == "insertMessage"
Commit == "commitMessage"
Jsonify == "selectUser"
Upsert == "upsertHaveread"
ReadMark == "selectHaveread"
Count == "countMessage"
DelUser == "deleteUser"
DelChannel == "deleteChannel"
DelMessage == "deleteMessage"
DelHaveread == "deleteHaveread"

Statements == {Insert, Commit, Jsonify, Upsert, ReadMark, Count,
               DelUser, DelChannel, DelMessage, DelHaveread}

PCs == {"idle", "reply"} \cup Statements

Counts == Channels \X Nat

Codes == {0, 200, 204, 303, 500}

Handler == [pc : PCs,
            user : Users \cup {NoUser},
            channel_id : Channels \cup {NoChannel},
            last : Nat,
            rows : SUBSET Row,
            todo : SUBSET Channels,
            unread : SUBSET Counts,
            base : Nat,
            status : Codes]

\* The handler is done with its statements and answers with the status.
Reply(h, status) == [handler[h] EXCEPT !.pc = "reply", !.status = status]

\* Mutant: ORDER BY id, without DESC.
OldestMutant(rows, n) ==
    {r \in rows : Cardinality({s \in rows : s.id < r.id}) < n}

\* ORDER BY id DESC LIMIT n
Newest(rows, n) ==
    {r \in rows : Cardinality({s \in rows : s.id > r.id}) < n}

InChannel(c) == {r \in message : r.channel_id = c}

After(c, id) == {r \in InChannel(c) : r.id > id}

\* Mutant: the mark is taken from the oldest message of the answer.
IsLastMutant(r, rows) == r \in rows /\ \A s \in rows : r.id <= s.id

\* r is messages[0], the row with the largest id
IsFirst(r, rows) == r \in rows /\ \A s \in rows : s.id <= r.id

\* Mutant: the session is trusted.
SessionMutant(u) == u \in issuedUser

\* ensureLogin: the user of the session still has a row
LoggedIn(u) == u \in user

-----------------------------------------------------------------------------
Init ==
    /\ user = InitialUsers
    /\ issuedUser = InitialUsers
    /\ channel = InitialChannels
    /\ issuedChannel = InitialChannels
    /\ message = InitialRows
    /\ nextMessage = InitialMessages + 1
    /\ haveread = [u \in Users |-> [c \in Channels |-> 0]]
    /\ handler = [h \in Handlers |-> Idle]
    /\ raced = {}

\* Mutant: the id of the new user can be issued again.
PostRegisterMutant(u) ==
    /\ u \in Users \ issuedUser
    /\ user' = user \cup {u}
    /\ UNCHANGED <<issuedUser, channel, issuedChannel, message, nextMessage,
                   haveread, handler, raced>>

\* POST /register; the name and password checks belong to module Accounts.
PostRegister(u) ==
    /\ u \in Users \ issuedUser
    /\ user' = user \cup {u}
    /\ issuedUser' = issuedUser \cup {u}
    /\ UNCHANGED <<channel, issuedChannel, message, nextMessage, haveread,
                   handler, raced>>

\* POST /add_channel: the new row does not depend on the user, so the two
\* statements of the handler make one step.
PostAddChannel(u, c) ==
    /\ u \in user
    /\ c \in Channels \ issuedChannel
    /\ channel' = channel \cup {c}
    /\ issuedChannel' = issuedChannel \cup {c}
    /\ UNCHANGED <<user, issuedUser, message, nextMessage, haveread,
                   handler, raced>>

(***************************************************************************)
(* POST /message.  A session cookie names a user that was issued, not one  *)
(* that still exists: ensureLogin looks the user up.                       *)
(***************************************************************************)
Accepted == {h \in Handlers : handler[h].pc = Insert}

PostMessage(h, u, c) ==
    /\ handler[h] = Idle
    /\ u \in issuedUser
    /\ nextMessage + Cardinality(Accepted) <= MaxMessage
    /\ handler' =
         [handler EXCEPT ![h] =
            IF LoggedIn(u)
            THEN [Idle EXCEPT !.pc = Insert, !.user = u, !.channel_id = c]
            ELSE [Idle EXCEPT !.pc = "reply", !.status = 303]]
    /\ UNCHANGED <<tables, raced>>

NewRow(h, id) == [id |-> id, channel_id |-> handler[h].channel_id,
                  user_id |-> handler[h].user]

\* Mutant: the id is one more than the largest visible one.
InsertMessageMutant(h) ==
    /\ handler[h].pc = Insert
    /\ \E id \in 1 .. nextMessage :
          /\ \A r \in message : r.id < id
          /\ id > 1 => \E r \in message : r.id = id - 1
          /\ handler' = [handler EXCEPT ![h] =
                           [@ EXCEPT !.pc = Commit, !.rows = {NewRow(h, id)}]]
          /\ nextMessage' = id + 1
    /\ UNCHANGED <<user, issuedUser, channel, issuedChannel, message,
                   haveread, raced>>

InsertMessage(h) ==
    /\ handler[h].pc = Insert
    /\ handler' = [handler EXCEPT ![h] =
                     [@ EXCEPT !.pc = Commit,
                               !.rows = {NewRow(h, nextMessage)}]]
    /\ nextMessage' = nextMessage + 1
    /\ UNCHANGED <<user, issuedUser, channel, issuedChannel, message,
                   haveread, raced>>

CommitMessage(h) ==
    /\ handler[h].pc = Commit
    /\ message' = message \cup handler[h].rows
    /\ handler' = [handler EXCEPT ![h] = Reply(h, 204)]
    /\ UNCHANGED <<user, issuedUser, channel, issuedChannel, nextMessage,
                   haveread, raced>>

(***************************************************************************)
(* GET /message.  The session is not looked up; the first statement is     *)
(* queryMessages.  jsonifyMessage reads the author of one message at a     *)
(* time: users only disappear, so reading them all in one step has the     *)
(* same outcomes.  Only an answer that holds messages moves haveread.      *)
(***************************************************************************)
GetMessage(h, u, c, last) ==
    /\ handler[h] = Idle
    /\ u \in issuedUser
    /\ handler' = [handler EXCEPT ![h] =
                     [Idle EXCEPT !.pc = Jsonify, !.user = u,
                                  !.channel_id = c, !.last = last,
                                  !.rows = Newest(After(c, last), Limit),
                                  !.base = haveread[u][c]]]
    /\ UNCHANGED <<tables, raced>>

JsonifyMessage(h) ==
    LET H == handler[h]
        known == \A r \in H.rows : r.user_id \in user
    IN  /\ H.pc = Jsonify
        /\ handler' = [handler EXCEPT ![h] =
              IF ~known THEN Reply(h, 500)
              ELSE IF H.rows = {} THEN Reply(h, 200)
              ELSE [H EXCEPT !.pc = Upsert]]
        /\ UNCHANGED <<tables, raced>>

\* Mutant: the mark is the newest message there is, not the newest answered.
UpsertHavereadMutant(h) ==
    LET H == handler[h]
    IN  /\ H.pc = Upsert
        /\ \E r \in InChannel(H.channel_id) :
              /\ IsFirst(r, InChannel(H.channel_id))
              /\ haveread' = [haveread EXCEPT ![H.user][H.channel_id] = r.id]
        /\ handler' = [handler EXCEPT ![h] = Reply(h, 200)]
        /\ UNCHANGED <<user, issuedUser, channel, issuedChannel, message,
                       nextMessage, raced>>

UpsertHaveread(h) ==
    LET H == handler[h]
    IN  /\ H.pc = Upsert
        /\ \E r \in H.rows :
              /\ IsFirst(r, H.rows)
              /\ haveread' = [haveread EXCEPT ![H.user][H.channel_id] = r.id]
        /\ handler' = [handler EXCEPT ![h] = Reply(h, 200)]
        /\ UNCHANGED <<user, issuedUser, channel, issuedChannel, message,
                       nextMessage, raced>>

(***************************************************************************)
(* GET /fetch: queryChannels, then for every channel queryHaveRead and a   *)
(* SELECT COUNT.  queryChannels has no ORDER BY.                           *)
(***************************************************************************)
FetchUnread(h, u) ==
    /\ handler[h] = Idle
    /\ u \in issuedUser
    /\ handler' = [handler EXCEPT ![h] =
          IF channel = {}
          THEN [Idle EXCEPT !.pc = "reply", !.status = 200, !.user = u]
          ELSE [Idle EXCEPT !.pc = ReadMark, !.user = u, !.todo = channel]]
    /\ UNCHANGED <<tables, raced>>

QueryHaveRead(h, c) ==
    /\ handler[h].pc = ReadMark
    /\ c \in handler[h].todo
    /\ handler' = [handler EXCEPT ![h] =
                     [@ EXCEPT !.pc = Count, !.channel_id = c,
                               !.last = haveread[handler[h].user][c]]]
    /\ UNCHANGED <<tables, raced>>

CountUnread(h) ==
    LET H == handler[h]
        cnt == IF H.last > 0 THEN Cardinality(After(H.channel_id, H.last))
                             ELSE Cardinality(InChannel(H.channel_id))
        rest == H.todo \ {H.channel_id}
        next == [H EXCEPT !.pc = ReadMark, !.todo = rest,
                          !.unread = @ \cup {<<H.channel_id, cnt>>}]
    IN  /\ H.pc = Count
        /\ handler' = [handler EXCEPT ![h] =
              IF rest = {} THEN [next EXCEPT !.pc = "reply", !.status = 200]
                           ELSE next]
        /\ UNCHANGED <<tables, raced>>

(***************************************************************************)
(* GET /initialize: five DELETE statements, in this order.  The one on     *)
(* table image is the business of module Accounts.                         *)
(***************************************************************************)
GetInitialize(h) ==
    /\ handler[h] = Idle
    /\ handler' = [handler EXCEPT ![h] = [Idle EXCEPT !.pc = DelUser]]
    /\ UNCHANGED <<tables, raced>>

\* users a running POST /message has already accepted
Posting == {handler[h].user : h \in {g \in Handlers :
                                       handler[g].pc \in {Insert, Commit}}}

DeleteUser(h) ==
    /\ handler[h].pc = DelUser
    /\ user' = user \cap InitialUsers
    /\ raced' = raced \cup (Posting \ InitialUsers)
    /\ handler' = [handler EXCEPT ![h] = [@ EXCEPT !.pc = DelChannel]]
    /\ UNCHANGED <<issuedUser, channel, issuedChannel, message, nextMessage,
                   haveread>>

DeleteChannel(h) ==
    /\ handler[h].pc = DelChannel
    /\ channel' = channel \cap InitialChannels
    /\ handler' = [handler EXCEPT ![h] = [@ EXCEPT !.pc = DelMessage]]
    /\ UNCHANGED <<user, issuedUser, issuedChannel, message, nextMessage,
                   haveread, raced>>

\* Mutant: the last message of the data set is deleted with the others.
DeleteMessageMutant(h) ==
    /\ handler[h].pc = DelMessage
    /\ message' = {r \in message : r.id < InitialMessages}
    /\ handler' = [handler EXCEPT ![h] = [@ EXCEPT !.pc = DelHaveread]]
    /\ UNCHANGED <<user, issuedUser, channel, issuedChannel, nextMessage,
                   haveread, raced>>

DeleteMessage(h) ==
    /\ handler[h].pc = DelMessage
    /\ message' = {r \in message : r.id <= InitialMessages}
    /\ handler' = [handler EXCEPT ![h] = [@ EXCEPT !.pc = DelHaveread]]
    /\ UNCHANGED <<user, issuedUser, channel, issuedChannel, nextMessage,
                   haveread, raced>>

DeleteHaveread(h) ==
    /\ handler[h].pc = DelHaveread
    /\ haveread' = [u \in Users |-> [c \in Channels |-> 0]]
    /\ handler' = [handler EXCEPT ![h] = Reply(h, 204)]
    /\ UNCHANGED <<user, issuedUser, channel, issuedChannel, message,
                   nextMessage, raced>>

(***************************************************************************)
(* A statement fails: the handler returns the error at once (MustExec      *)
(* panics, which ends the request too) and keeps what the earlier          *)
(* statements did.  A failed INSERT may have taken effect all the same; an *)
(* upsert or a DELETE that did differs from a successful one only in the   *)
(* status.                                                                 *)
(***************************************************************************)
StatementFails(h) ==
    /\ DBFaults
    /\ handler[h].pc \in Statements
    /\ handler' = [handler EXCEPT ![h] = Reply(h, 500)]
    /\ \/ UNCHANGED message
       \/ /\ handler[h].pc = Commit
          /\ message' = message \cup handler[h].rows
    /\ UNCHANGED <<user, issuedUser, channel, issuedChannel, nextMessage,
                   haveread, raced>>

\* The response reaches the client, or finds no one waiting for it.
Respond(h) ==
    /\ handler[h].pc = "reply"
    /\ handler' = [handler EXCEPT ![h] = Idle]
    /\ UNCHANGED <<tables, raced>>

\* The statements a handler still has to run.
Continue(h) ==
    \/ InsertMessage(h)
    \/ CommitMessage(h)
    \/ JsonifyMessage(h)
    \/ UpsertHaveread(h)
    \/ \E c \in Channels : QueryHaveRead(h, c)
    \/ CountUnread(h)
    \/ DeleteUser(h)
    \/ DeleteChannel(h)
    \/ DeleteMessage(h)
    \/ DeleteHaveread(h)
    \/ StatementFails(h)

\* A request arrives.  The ids a client can name are those issued so far.
Request(h) ==
    \/ \E u \in Users, c \in Channels : PostMessage(h, u, c)
    \/ \E u \in Users, c \in Channels, last \in 0 .. nextMessage - 1 :
          GetMessage(h, u, c, last)
    \/ \E u \in Users : FetchUnread(h, u)
    \/ GetInitialize(h)

Next ==
    \/ \E u \in Users : PostRegister(u)
    \/ \E u \in Users, c \in Channels : PostAddChannel(u, c)
    \/ \E h \in Handlers : Request(h) \/ Continue(h) \/ Respond(h)

Spec == Init /\ [][Next]_vars

-----------------------------------------------------------------------------
\* Between its statements a handler knows whose request it serves, the
\* statements that name a channel know it, and an INSERT commits one row.
Addressed(H) ==
    /\ H.pc \in {Insert, Commit, Jsonify, Upsert, ReadMark, Count} =>
          H.user \in Users
    /\ H.pc \in {Insert, Commit, Jsonify, Upsert, Count} =>
          H.channel_id \in Channels
    /\ H.pc = Commit => \E r \in H.rows : H.rows = {r}

TypeOK ==
    /\ issuedUser \in SUBSET Users
    /\ user \in SUBSET issuedUser
    /\ issuedChannel \in SUBSET Channels
    /\ channel \in SUBSET issuedChannel
    /\ message \in SUBSET Row
    /\ IsFiniteSet(message)
    /\ nextMessage \in Nat \ {0}
    /\ haveread \in [Users -> [Channels -> Nat]]
    /\ handler \in [Handlers -> Handler]
    /\ \A h \in Handlers : Addressed(handler[h])
    /\ raced \in SUBSET Users

\* The handlers whose INSERT INTO message has an id and is not yet visible.
Pending == {h \in Handlers : handler[h].pc = Commit}

\* Every id goes to one row: a pending row has an id of its own, which no
\* visible row has and which AUTO_INCREMENT will not give away again.
FreshIds ==
    /\ \A r \in message : r.id < nextMessage
    /\ \A r, s \in message : r.id = s.id => r = s
    /\ \A h \in Pending : \E r \in handler[h].rows :
          /\ handler[h].rows = {r}
          /\ r.channel_id = handler[h].channel_id
          /\ r.user_id = handler[h].user
          /\ r.id < nextMessage
          /\ \A s \in message : s.id # r.id
    /\ \A g, h \in Pending : g # h =>
          \A r \in handler[g].rows, s \in handler[h].rows : r.id # s.id

\* The handlers of GET /message between queryMessages and their answer.
Reading == {h \in Handlers : handler[h].pc \in {Jsonify, Upsert}}

\* What a reader holds, and what haveread names, has been visible: it is
\* not the id of a row that is still pending or not yet inserted.
Seen(id) ==
    /\ id < nextMessage
    /\ \A h \in Pending : \A r \in handler[h].rows : r.id # id

SeenOnly ==
    /\ \A u \in Users, c \in Channels : Seen(haveread[u][c])
    /\ \A h \in Reading :
          /\ Seen(handler[h].base)
          /\ \A r \in handler[h].rows : Seen(r.id)

\* A reader that holds nothing as new as the mark it started from started
\* from the mark of a row that was deleted.
BaseDeleted ==
    \A h \in Reading :
       /\ handler[h].rows # {}
       /\ \A r \in handler[h].rows : r.id < handler[h].base
       => \A s \in InChannel(handler[h].channel_id) : s.id # handler[h].base

MarksInv == FreshIds /\ SeenOnly /\ BaseDeleted

(***************************************************************************)
(* The read mark of a user in a channel moves back only when /initialize   *)
(* deletes it, when a reader overwrites a mark that changed since it       *)
(* selected its messages, or when the row the mark names is gone.  Readers *)
(* that do not overlap never lose each other's marks, whatever             *)
(* last_message_id they send.                                              *)
(***************************************************************************)
Overtaken(u, c) ==
    \E h \in Handlers : /\ handler[h].pc = Upsert
                        /\ handler[h].user = u
                        /\ handler[h].channel_id = c
                        /\ handler[h].base # haveread[u][c]

RegressOnlyIf ==
    \A u \in Users, c \in Channels :
       haveread'[u][c] < haveread[u][c] =>
          \/ \E h \in Handlers : handler[h].pc = DelHaveread
          \/ Overtaken(u, c)
          \/ \A r \in InChannel(c) : r.id # haveread[u][c]

RegressExplained == [][RegressOnlyIf]_vars

(***************************************************************************)
(* jsonifyMessage fails, and the channel with it, when the author of a     *)
(* message has no row.  Outside a running /initialize that is so only for  *)
(* a user that was deleted between ensureLogin and the insert of a post.   *)
(***************************************************************************)
Initializing == \E h \in Handlers : handler[h].pc \in {DelChannel, DelMessage}

OrphanExplained ==
    ~DBFaults /\ ~Initializing =>
       \A m \in message : m.user_id \in user \cup raced

(***************************************************************************)
(* What other requests may rely on: the table message is a MessageTable.   *)
(* Through addMessage and getInitialize, a channel only gains messages,    *)
(* one at a time and under an id that no channel shows, until /initialize  *)
(* cuts it back to the data set and to nothing less.                       *)
(***************************************************************************)
IdsIn(rows, c) == {r.id : r \in {s \in rows : s.channel_id = c}}

Table == INSTANCE MessageTable
         WITH log <- [c \in Channels |-> IdsIn(message, c)],
              InitialLog <- [c \in Channels |-> IdsIn(InitialRows, c)]

ImplementsTable == Table!TableSpec
=============================================================================
