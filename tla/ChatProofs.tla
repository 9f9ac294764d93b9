----------------------------- MODULE ChatProofs -----------------------------
(***************************************************************************)
(* What the message service and the pages over it promise, for every set   *)
(* of users, channels, handlers and tabs and every number of messages:     *)
(* first the theorems of module Chat, then those of ChatTab, whose pages   *)
(* show their messages in order and without holes and whose read marks     *)
(* never run ahead of them, with lost requests and failing statements.     *)
(***************************************************************************)
EXTENDS ChatTab, FiniteSetTheorems, TLAPS

-----------------------------------------------------------------------------
(***************************************************************************)
(* Type correctness.  Every step of a handler replaces its record; so a    *)
(* step keeps the type of handler when the new record is well formed.      *)
(***************************************************************************)
WellFormed(H) == H \in Handler /\ Addressed(H)

HandlersOK == /\ handler \in [Handlers -> Handler]
              /\ \A h \in Handlers : Addressed(handler[h])

LEMMA HandlerStep ==
  ASSUME HandlersOK, NEW h \in Handlers, NEW H, WellFormed(H),
         handler' = [handler EXCEPT ![h] = H]
  PROVE  HandlersOK'
  BY DEF HandlersOK, WellFormed, Addressed

LEMMA AddressedWellFormed ==
  ASSUME NEW H \in Handler, H.user \in Users, H.channel_id \in Channels,
         H.pc # Commit
  PROVE  WellFormed(H)
  BY DEF WellFormed, Addressed

\* A handler with no statement left, or one of /initialize, needs neither
\* user nor channel.
LEMMA QuietWellFormed ==
  ASSUME NEW H \in Handler,
         H.pc \in {"idle", "reply", DelUser, DelChannel, DelMessage,
                   DelHaveread}
  PROVE  WellFormed(H)
  BY DEF WellFormed, Addressed, Insert, Commit, Jsonify, Upsert, ReadMark,
         Count, DelUser, DelChannel, DelMessage, DelHaveread

LEMMA IdleWellFormed == WellFormed(Idle)
<1>1. Idle \in Handler
  BY DEF Idle, Handler, PCs, Codes
<1>2. Idle.pc = "idle"
  BY DEF Idle
<1> QED
  BY <1>1, <1>2, QuietWellFormed

LEMMA ReplyWellFormed ==
  ASSUME NEW h \in Handlers, handler[h] \in Handler,
         NEW status \in {200, 204, 303, 500}
  PROVE  WellFormed(Reply(h, status))
<1>1. status \in Codes /\ "reply" \in PCs
  BY DEF PCs, Codes
<1>2. Reply(h, status) \in Handler
  BY <1>1 DEF Reply, Handler
<1>3. Reply(h, status).pc = "reply"
  BY <1>1 DEF Reply, Handler
<1> QED
  BY <1>2, <1>3, QuietWellFormed

LEMMA InitType == Init => TypeOK
  BY SetsAssumption, NumbersAssumption, RowsAssumption, IdleWellFormed
     DEF Init, TypeOK, WellFormed, Row

LEMMA NextType == TypeOK /\ [Next]_vars => TypeOK'
<1> SUFFICES ASSUME TypeOK, [Next]_vars PROVE TypeOK'
  OBVIOUS
<1>a. HandlersOK
  BY DEF TypeOK, HandlersOK
<1>b. \A h \in Handlers : handler[h] \in Handler
  BY DEF TypeOK
<1>1. ASSUME NEW u \in Users, PostRegister(u) PROVE TypeOK'
  BY <1>1 DEF PostRegister, TypeOK
<1>2. ASSUME NEW u \in Users, NEW c \in Channels, PostAddChannel(u, c)
      PROVE TypeOK'
  BY <1>2 DEF PostAddChannel, TypeOK
<1>3. ASSUME NEW h \in Handlers, NEW u \in Users, NEW c \in Channels,
             PostMessage(h, u, c)
      PROVE TypeOK'
  <2> DEFINE A == [Idle EXCEPT !.pc = Insert, !.user = u, !.channel_id = c]
             B == [Idle EXCEPT !.pc = "reply", !.status = 303]
  <2>1. A \in Handler /\ A.user = u /\ A.channel_id = c /\ A.pc = Insert
    BY DEF Handler, Idle, PCs, Statements, Codes
  <2>2. WellFormed(A)
    BY <2>1, AddressedWellFormed DEF Insert, Commit
  <2>3. B \in Handler /\ B.pc = "reply"
    <3>1. Idle \in Handler /\ "reply" \in PCs /\ 303 \in Codes
      BY IdleWellFormed DEF WellFormed, PCs, Codes
    <3> QED
      BY <3>1 DEF Handler
  <2>4. WellFormed(B)
    BY <2>3, QuietWellFormed
  <2>5. handler' = [handler EXCEPT ![h] = IF LoggedIn(u) THEN A ELSE B]
    BY <1>3 DEF PostMessage
  <2>6. HandlersOK'
    <3> HIDE DEF A, B
    <3> QED
      BY <1>a, <2>2, <2>4, <2>5, HandlerStep
  <2> QED
    BY <1>3, <2>6 DEF PostMessage, TypeOK, HandlersOK, tables
<1>4. ASSUME NEW h \in Handlers, InsertMessage(h) PROVE TypeOK'
  <2> DEFINE r == NewRow(h, nextMessage)
             H == [handler[h] EXCEPT !.pc = Commit, !.rows = {r}]
  <2>1. handler[h].user \in Users /\ handler[h].channel_id \in Channels
    BY <1>4, <1>a DEF InsertMessage, HandlersOK, Addressed
  <2>2. r \in Row
    BY <2>1 DEF NewRow, Row, TypeOK
  <2>3. H \in Handler
    BY <2>2, <1>b DEF Handler, PCs, Statements
  <2>4. /\ H.user = handler[h].user
        /\ H.channel_id = handler[h].channel_id
        /\ H.rows = {r}
    BY <1>b DEF Handler
  <2>5. WellFormed(H)
    BY <2>1, <2>2, <2>3, <2>4 DEF WellFormed, Addressed
  <2>6. HandlersOK'
    BY <1>4, <1>a, <2>5, HandlerStep DEF InsertMessage
  <2> QED
    BY <1>4, <2>6 DEF InsertMessage, TypeOK, HandlersOK
<1>5. ASSUME NEW h \in Handlers, CommitMessage(h) PROVE TypeOK'
  <2>1. WellFormed(Reply(h, 204))
    BY <1>b, ReplyWellFormed
  <2>2. HandlersOK'
    BY <1>5, <1>a, <2>1, HandlerStep DEF CommitMessage
  <2>3. PICK r \in Row : handler[h].rows = {r}
    <3>1. \E r \in handler[h].rows : handler[h].rows = {r}
      BY <1>5, <1>a DEF CommitMessage, HandlersOK, Addressed
    <3> QED
      BY <3>1, <1>b DEF Handler
  <2>4. message \cup {r} \in SUBSET Row /\ IsFiniteSet(message \cup {r})
    BY FS_AddElement DEF TypeOK
  <2> QED
    BY <1>5, <2>2, <2>3, <2>4 DEF CommitMessage, TypeOK, HandlersOK
<1>6. ASSUME NEW h \in Handlers, NEW u \in Users, NEW c \in Channels,
             NEW last \in 0 .. nextMessage - 1, GetMessage(h, u, c, last)
      PROVE TypeOK'
  <2> DEFINE H == [Idle EXCEPT !.pc = Jsonify, !.user = u, !.channel_id = c,
                               !.last = last,
                               !.rows = Newest(After(c, last), Limit),
                               !.base = haveread[u][c]]
  <2>0. last \in Nat /\ haveread[u][c] \in Nat
    BY DEF TypeOK
  <2>1. Newest(After(c, last), Limit) \in SUBSET Row
    BY DEF Newest, After, InChannel, TypeOK
  <2>2. /\ H \in Handler
        /\ H.user = u /\ H.channel_id = c /\ H.pc = Jsonify
    BY <2>1, <2>0 DEF Handler, Idle, PCs, Statements, Codes
  <2>3. WellFormed(H)
    BY <2>2, AddressedWellFormed DEF Jsonify, Commit
  <2>4. HandlersOK'
    BY <1>6, <1>a, <2>3, HandlerStep DEF GetMessage
  <2> QED
    BY <1>6, <2>4 DEF GetMessage, TypeOK, HandlersOK, tables
<1>7. ASSUME NEW h \in Handlers, JsonifyMessage(h) PROVE TypeOK'
  <2> DEFINE H == [handler[h] EXCEPT !.pc = Upsert]
  <2>1. H \in Handler /\ H.pc = Upsert
    BY <1>b DEF Handler, PCs, Statements
  <2>2. handler[h].user \in Users /\ handler[h].channel_id \in Channels
    BY <1>7, <1>a DEF JsonifyMessage, HandlersOK, Addressed
  <2>3. H.user = handler[h].user /\ H.channel_id = handler[h].channel_id
    BY <1>b DEF Handler
  <2>4. WellFormed(H)
    BY <2>1, <2>2, <2>3, AddressedWellFormed DEF Upsert, Commit
  <2>5. WellFormed(Reply(h, 200)) /\ WellFormed(Reply(h, 500))
    BY <1>b, ReplyWellFormed
  <2>6. \/ handler' = [handler EXCEPT ![h] = H]
        \/ handler' = [handler EXCEPT ![h] = Reply(h, 200)]
        \/ handler' = [handler EXCEPT ![h] = Reply(h, 500)]
    BY <1>7 DEF JsonifyMessage
  <2>7. HandlersOK'
    <3> HIDE DEF H
    <3> QED
      BY <1>a, <2>4, <2>5, <2>6, HandlerStep
  <2> QED
    BY <1>7, <2>7 DEF JsonifyMessage, TypeOK, HandlersOK, tables
<1>8. ASSUME NEW h \in Handlers, UpsertHaveread(h) PROVE TypeOK'
  <2>1. WellFormed(Reply(h, 200))
    BY <1>b, ReplyWellFormed
  <2>2. HandlersOK'
    BY <1>8, <1>a, <2>1, HandlerStep DEF UpsertHaveread
  <2>3. PICK r \in handler[h].rows :
             haveread' = [haveread EXCEPT
                            ![handler[h].user][handler[h].channel_id] = r.id]
    BY <1>8 DEF UpsertHaveread
  <2>4. r \in Row
    BY <1>b DEF Handler
  <2>5. r.id \in Nat
    BY <2>4 DEF Row
  <2>6. haveread' \in [Users -> [Channels -> Nat]]
    BY <2>3, <2>5 DEF TypeOK
  <2> QED
    BY <1>8, <2>2, <2>6 DEF UpsertHaveread, TypeOK, HandlersOK
<1>9. ASSUME NEW h \in Handlers, NEW u \in Users, FetchUnread(h, u)
      PROVE TypeOK'
  <2> DEFINE A == [Idle EXCEPT !.pc = "reply", !.status = 200, !.user = u]
             B == [Idle EXCEPT !.pc = ReadMark, !.user = u, !.todo = channel]
  <2>1. A \in Handler /\ A.pc = "reply"
    BY DEF Handler, Idle, PCs, Codes
  <2>2. WellFormed(A)
    BY <2>1, QuietWellFormed
  <2>3. channel \in SUBSET Channels
    BY DEF TypeOK
  <2>4. B \in Handler /\ B.pc = ReadMark /\ B.user = u
    BY <2>3 DEF Handler, Idle, PCs, Statements, Codes
  <2>5. WellFormed(B)
    BY <2>4 DEF WellFormed, Addressed, Insert, Commit, Jsonify, Upsert,
                ReadMark, Count
  <2>6. handler' = [handler EXCEPT ![h] = IF channel = {} THEN A ELSE B]
    BY <1>9 DEF FetchUnread
  <2>7. HandlersOK'
    <3> HIDE DEF A, B
    <3> QED
      BY <1>a, <2>2, <2>5, <2>6, HandlerStep
  <2> QED
    BY <1>9, <2>7 DEF FetchUnread, TypeOK, HandlersOK, tables
<1>10. ASSUME NEW h \in Handlers, NEW c \in Channels, QueryHaveRead(h, c)
       PROVE TypeOK'
  <2> DEFINE last == haveread[handler[h].user][c]
             H == [handler[h] EXCEPT !.pc = Count, !.channel_id = c,
                                     !.last = last]
  <2>1. handler[h].user \in Users
    BY <1>10, <1>a DEF QueryHaveRead, HandlersOK, Addressed
  <2>2. last \in Nat
    BY <2>1 DEF TypeOK
  <2>3. /\ H \in Handler
        /\ H.user = handler[h].user /\ H.channel_id = c /\ H.pc = Count
    <3> HIDE DEF last
    <3> QED
      BY <2>2, <1>b DEF Handler, PCs, Statements
  <2>4. WellFormed(H)
    BY <2>1, <2>3, AddressedWellFormed DEF Count, Commit
  <2>5. HandlersOK'
    BY <1>10, <1>a, <2>4, HandlerStep DEF QueryHaveRead
  <2> QED
    BY <1>10, <2>5 DEF QueryHaveRead, TypeOK, HandlersOK, tables
<1>11. ASSUME NEW h \in Handlers, CountUnread(h) PROVE TypeOK'
  <2> DEFINE c == handler[h].channel_id
             cnt == IF handler[h].last > 0
                    THEN Cardinality(After(c, handler[h].last))
                    ELSE Cardinality(InChannel(c))
             rest == handler[h].todo \ {c}
             N == [handler[h] EXCEPT !.pc = ReadMark, !.todo = rest,
                                     !.unread = @ \cup {<<c, cnt>>}]
             R == [N EXCEPT !.pc = "reply", !.status = 200]
  <2>1. handler[h].user \in Users /\ c \in Channels
    BY <1>11, <1>a DEF CountUnread, HandlersOK, Addressed
  <2>2. InChannel(c) \in SUBSET message
        /\ After(c, handler[h].last) \in SUBSET message
    BY DEF InChannel, After
  <2>3. cnt \in Nat
    <3>1. Cardinality(InChannel(c)) \in Nat
      BY <2>2, FS_Subset, FS_CardinalityType DEF TypeOK
    <3>2. Cardinality(After(c, handler[h].last)) \in Nat
      BY <2>2, FS_Subset, FS_CardinalityType DEF TypeOK
    <3> QED
      BY <3>1, <3>2
  <2>4. handler[h].unread \cup {<<c, cnt>>} \in SUBSET Counts
    <3> HIDE DEF cnt, c
    <3> QED
      BY <2>1, <2>3, <1>b DEF Handler, Counts
  <2>5. rest \in SUBSET Channels
    BY <1>b DEF Handler
  <2>6. N \in Handler /\ N.pc = ReadMark /\ N.user = handler[h].user
    <3> HIDE DEF cnt, c, rest
    <3> QED
      BY <2>4, <2>5, <1>b DEF Handler, PCs, Statements
  <2>7. WellFormed(N)
    <3> HIDE DEF N
    <3> QED
      BY <2>1, <2>6 DEF WellFormed, Addressed, Insert, Commit, Jsonify, Upsert,
                        ReadMark, Count
  <2>8. R \in Handler /\ R.pc = "reply"
    <3> HIDE DEF N
    <3>1. "reply" \in PCs /\ 200 \in Codes
      BY DEF PCs, Codes
    <3> QED
      BY <2>6, <3>1 DEF Handler
  <2>9. WellFormed(R)
    <3> HIDE DEF R
    <3> QED
      BY <2>8, QuietWellFormed
  <2>10. handler' = [handler EXCEPT ![h] = IF rest = {} THEN R ELSE N]
    BY <1>11 DEF CountUnread
  <2>11. HandlersOK'
    <3> HIDE DEF R, N, rest
    <3> QED
      BY <1>a, <2>7, <2>9, <2>10, HandlerStep
  <2> QED
    BY <1>11, <2>11 DEF CountUnread, TypeOK, HandlersOK, tables
<1>12. ASSUME NEW h \in Handlers, GetInitialize(h) PROVE TypeOK'
  <2> DEFINE H == [Idle EXCEPT !.pc = DelUser]
  <2>1. H \in Handler /\ H.pc = DelUser
    BY IdleWellFormed DEF WellFormed, Handler, PCs, Statements
  <2>2. WellFormed(H)
    BY <2>1, QuietWellFormed
  <2>3. HandlersOK'
    BY <1>12, <1>a, <2>2, HandlerStep DEF GetInitialize
  <2> QED
    BY <1>12, <2>3 DEF GetInitialize, TypeOK, HandlersOK, tables
<1>13. ASSUME NEW h \in Handlers, DeleteUser(h) PROVE TypeOK'
  <2> DEFINE H == [handler[h] EXCEPT !.pc = DelChannel]
  <2>1. H \in Handler /\ H.pc = DelChannel
    BY <1>b DEF Handler, PCs, Statements
  <2>2. WellFormed(H)
    BY <2>1, QuietWellFormed
  <2>3. HandlersOK'
    BY <1>13, <1>a, <2>2, HandlerStep DEF DeleteUser
  <2>4. \A g \in Handlers : handler[g].pc \in {Insert, Commit} =>
                               handler[g].user \in Users
    BY <1>a DEF HandlersOK, Addressed
  <2>5. raced' \in SUBSET Users
    BY <1>13, <2>4 DEF DeleteUser, Posting, TypeOK
  <2> QED
    BY <1>13, <2>3, <2>5 DEF DeleteUser, TypeOK, HandlersOK
<1>14. ASSUME NEW h \in Handlers, DeleteChannel(h) PROVE TypeOK'
  <2> DEFINE H == [handler[h] EXCEPT !.pc = DelMessage]
  <2>1. H \in Handler /\ H.pc = DelMessage
    BY <1>b DEF Handler, PCs, Statements
  <2>2. WellFormed(H)
    BY <2>1, QuietWellFormed
  <2>3. HandlersOK'
    BY <1>14, <1>a, <2>2, HandlerStep DEF DeleteChannel
  <2> QED
    BY <1>14, <2>3 DEF DeleteChannel, TypeOK, HandlersOK
<1>15. ASSUME NEW h \in Handlers, DeleteMessage(h) PROVE TypeOK'
  <2> DEFINE H == [handler[h] EXCEPT !.pc = DelHaveread]
  <2>1. H \in Handler /\ H.pc = DelHaveread
    BY <1>b DEF Handler, PCs, Statements
  <2>2. WellFormed(H)
    BY <2>1, QuietWellFormed
  <2>3. HandlersOK'
    BY <1>15, <1>a, <2>2, HandlerStep DEF DeleteMessage
  <2>4. message' \in SUBSET message
    BY <1>15 DEF DeleteMessage
  <2>5. IsFiniteSet(message')
    BY <2>4, FS_Subset DEF TypeOK
  <2> QED
    BY <1>15, <2>3, <2>4, <2>5 DEF DeleteMessage, TypeOK, HandlersOK
<1>16. ASSUME NEW h \in Handlers, DeleteHaveread(h) PROVE TypeOK'
  <2>1. WellFormed(Reply(h, 204))
    BY <1>b, ReplyWellFormed
  <2>2. HandlersOK'
    BY <1>16, <1>a, <2>1, HandlerStep DEF DeleteHaveread
  <2> QED
    BY <1>16, <2>2 DEF DeleteHaveread, TypeOK, HandlersOK
<1>17. ASSUME NEW h \in Handlers, StatementFails(h) PROVE TypeOK'
  <2>1. WellFormed(Reply(h, 500))
    BY <1>b, ReplyWellFormed
  <2>2. HandlersOK'
    BY <1>17, <1>a, <2>1, HandlerStep DEF StatementFails
  <2>3. CASE UNCHANGED message
    BY <1>17, <2>2, <2>3 DEF StatementFails, TypeOK, HandlersOK
  <2>4. CASE handler[h].pc = Commit /\ message' = message \cup handler[h].rows
    <3>1. PICK r \in Row : handler[h].rows = {r}
      <4>1. \E r \in handler[h].rows : handler[h].rows = {r}
        BY <2>4, <1>a DEF HandlersOK, Addressed
      <4> QED
        BY <4>1, <1>b DEF Handler
    <3>2. message \cup {r} \in SUBSET Row /\ IsFiniteSet(message \cup {r})
      BY FS_AddElement DEF TypeOK
    <3> QED
      BY <1>17, <2>2, <2>4, <3>1, <3>2 DEF StatementFails, TypeOK, HandlersOK
  <2> QED
    BY <1>17, <2>3, <2>4 DEF StatementFails
<1>18. ASSUME NEW h \in Handlers, Respond(h) PROVE TypeOK'
  <2>1. HandlersOK'
    BY <1>18, <1>a, IdleWellFormed, HandlerStep DEF Respond
  <2> QED
    BY <1>18, <2>1 DEF Respond, TypeOK, HandlersOK, tables
<1>19. CASE UNCHANGED vars
  BY <1>19 DEF vars, TypeOK, Addressed
<1> QED
  BY <1>1, <1>2, <1>3, <1>4, <1>5, <1>6, <1>7, <1>8, <1>9, <1>10, <1>11,
     <1>12, <1>13, <1>14, <1>15, <1>16, <1>17, <1>18, <1>19
     DEF Next, Request, Continue

\* Every variable keeps its type, and no handler runs a statement without the
\* user and the channel that the statement names (app.go's handlers).
THEOREM TypeCorrect == Spec => []TypeOK
  BY InitType, NextType, PTL DEF Spec

-----------------------------------------------------------------------------
(***************************************************************************)
(* Message ids and read marks.  Most steps make no row visible, give no id *)
(* away and start no reader; the others are taken one by one.              *)
(***************************************************************************)
LEMMA OneHandler ==
  ASSUME TypeOK, NEW h \in Handlers, NEW H,
         handler' = [handler EXCEPT ![h] = H]
  PROVE  /\ handler'[h] = H
         /\ \A g \in Handlers \ {h} : handler'[g] = handler[g]
  BY DEF TypeOK

LEMMA QuietStep ==
  ASSUME TypeOK, MarksInv, NEW h \in Handlers, NEW H,
         handler' = [handler EXCEPT ![h] = H],
         H.pc \notin {Commit, Jsonify, Upsert},
         message' \subseteq message,
         nextMessage' = nextMessage,
         \A u \in Users, c \in Channels : Seen(haveread'[u][c])
  PROVE  MarksInv'
<1>1. \A g \in Pending' : g \in Pending /\ handler'[g] = handler[g]
  BY OneHandler DEF Pending
<1>2. \A g \in Reading' : g \in Reading /\ handler'[g] = handler[g]
  BY OneHandler DEF Reading
<1>3. FreshIds'
  BY <1>1 DEF MarksInv, FreshIds
<1>4. SeenOnly'
  BY <1>1, <1>2 DEF MarksInv, SeenOnly, Seen
<1>5. BaseDeleted'
  BY <1>2 DEF MarksInv, BaseDeleted, InChannel
<1> QED
  BY <1>3, <1>4, <1>5 DEF MarksInv

\* The row of h becomes visible.
LEMMA CommitStep ==
  ASSUME TypeOK, MarksInv, NEW h \in Handlers, NEW H,
         handler' = [handler EXCEPT ![h] = H],
         handler[h].pc = Commit,
         H.pc \notin {Commit, Jsonify, Upsert},
         message' = message \cup handler[h].rows,
         nextMessage' = nextMessage,
         haveread' = haveread
  PROVE  MarksInv'
<1>1. /\ \A g \in Pending' : g \in Pending /\ g # h /\ handler'[g] = handler[g]
      /\ h \in Pending
  BY OneHandler DEF Pending
<1>2. \A g \in Reading' : g \in Reading /\ handler'[g] = handler[g]
  BY OneHandler DEF Reading
<1>3. PICK r \in handler[h].rows :
         /\ handler[h].rows = {r}
         /\ r.id < nextMessage
         /\ \A s \in message : s.id # r.id
  BY <1>1 DEF MarksInv, FreshIds
<1>4. message' = message \cup {r}
  BY <1>3
<1>5. FreshIds'
  BY <1>1, <1>3, <1>4 DEF MarksInv, FreshIds
<1>6. SeenOnly'
  BY <1>1, <1>2 DEF MarksInv, SeenOnly, Seen
<1>7. \A g \in Reading : handler[g].base # r.id
  BY <1>1, <1>3 DEF MarksInv, SeenOnly, Seen
<1>8. BaseDeleted'
  BY <1>2, <1>4, <1>7 DEF MarksInv, BaseDeleted, InChannel
<1> QED
  BY <1>5, <1>6, <1>8 DEF MarksInv

LEMMA InsertStep ==
  ASSUME TypeOK, MarksInv, NEW h \in Handlers, InsertMessage(h)
  PROVE  MarksInv'
<1> DEFINE r == NewRow(h, nextMessage)
           H == [handler[h] EXCEPT !.pc = Commit, !.rows = {r}]
<1>1. handler[h] \in Handler /\ handler[h].pc = Insert
  BY DEF TypeOK, InsertMessage
<1>2. /\ H.pc = Commit /\ H.rows = {r}
      /\ H.channel_id = handler[h].channel_id
      /\ H.user = handler[h].user
  BY <1>1 DEF Handler
<1>3. /\ r.id = nextMessage
      /\ r.channel_id = handler[h].channel_id
      /\ r.user_id = handler[h].user
  BY DEF NewRow
<1>4. /\ handler' = [handler EXCEPT ![h] = H]
      /\ nextMessage' = nextMessage + 1
      /\ message' = message
      /\ haveread' = haveread
  BY DEF InsertMessage
<1> HIDE DEF H, r
<1>5. handler'[h] = H /\ \A g \in Handlers \ {h} : handler'[g] = handler[g]
  BY <1>4, OneHandler
<1>6. /\ \A g \in Pending' \ {h} : g \in Pending /\ handler'[g] = handler[g]
      /\ h \notin Pending
  BY <1>1, <1>5 DEF Pending, Insert, Commit
<1>7. \A g \in Reading' : g \in Reading /\ handler'[g] = handler[g]
  BY <1>2, <1>5 DEF Reading, Commit, Jsonify, Upsert
<1>8. /\ nextMessage \in Nat
      /\ \A s \in message : s.id \in Nat
      /\ \A g \in Pending : \A s \in handler[g].rows :
            s.id \in Nat /\ s.id < nextMessage
  BY DEF TypeOK, Handler, Row, MarksInv, FreshIds, Pending
<1>9. FreshIds'
  <2>1. /\ \A s \in message' : s.id < nextMessage'
        /\ \A s, t \in message' : s.id = t.id => s = t
    BY <1>4, <1>8 DEF MarksInv, FreshIds
  <2>2. \A g \in Pending' : \E s \in handler'[g].rows :
           /\ handler'[g].rows = {s}
           /\ s.channel_id = handler'[g].channel_id
           /\ s.user_id = handler'[g].user
           /\ s.id < nextMessage'
           /\ \A t \in message' : t.id # s.id
    <3> SUFFICES ASSUME NEW g \in Pending'
                 PROVE  \E s \in handler'[g].rows :
                           /\ handler'[g].rows = {s}
                           /\ s.channel_id = handler'[g].channel_id
                           /\ s.user_id = handler'[g].user
                           /\ s.id < nextMessage'
                           /\ \A t \in message' : t.id # s.id
      OBVIOUS
    <3>1. CASE g = h
      BY <3>1, <1>2, <1>3, <1>4, <1>5, <1>8 DEF MarksInv, FreshIds
    <3>2. CASE g # h
      BY <3>2, <1>4, <1>6, <1>8 DEF MarksInv, FreshIds
    <3> QED
      BY <3>1, <3>2
  <2>3. \A f, g \in Pending' : f # g =>
           \A s \in handler'[f].rows, t \in handler'[g].rows : s.id # t.id
    BY <1>2, <1>3, <1>5, <1>6, <1>8 DEF MarksInv, FreshIds
  <2> QED
    BY <2>1, <2>2, <2>3 DEF FreshIds
<1>10. \A id \in Nat : Seen(id) =>
          /\ id < nextMessage'
          /\ \A g \in Pending' : \A s \in handler'[g].rows : s.id # id
  BY <1>2, <1>3, <1>4, <1>5, <1>6, <1>8 DEF Seen
<1>11. /\ \A u \in Users, c \in Channels : haveread[u][c] \in Nat
       /\ \A g \in Reading : /\ handler[g].base \in Nat
                             /\ \A s \in handler[g].rows : s.id \in Nat
  BY DEF TypeOK, Handler, Row, Reading
<1>12. SeenOnly'
  BY <1>4, <1>7, <1>10, <1>11 DEF MarksInv, SeenOnly, Seen
<1>13. BaseDeleted'
  BY <1>4, <1>7 DEF MarksInv, BaseDeleted, InChannel
<1> QED
  BY <1>9, <1>12, <1>13 DEF MarksInv

\* ORDER BY id DESC LIMIT n leaves out no row that is newer than one it keeps.
LEMMA NewestUpward ==
  ASSUME NEW S \in SUBSET Row, IsFiniteSet(S), NEW n \in Nat,
         NEW r \in Newest(S, n), NEW s \in S, s.id > r.id
  PROVE  s \in Newest(S, n)
<1> DEFINE above(x) == {t \in S : t.id > x.id}
<1>1. r.id \in Nat /\ s.id \in Nat /\ \A t \in S : t.id \in Nat
  BY DEF Newest, Row
<1>2. above(s) \subseteq above(r)
  BY <1>1
<1>3. IsFiniteSet(above(r)) /\ IsFiniteSet(above(s))
  BY FS_Subset
<1>4. Cardinality(above(s)) <= Cardinality(above(r))
  BY <1>2, <1>3, FS_Subset
<1>5. Cardinality(above(s)) \in Nat /\ Cardinality(above(r)) \in Nat
  BY <1>3, FS_CardinalityType
<1>6. Cardinality(above(r)) < n
  BY DEF Newest
<1>7. Cardinality(above(s)) < n
  BY <1>4, <1>5, <1>6
<1> QED
  BY <1>7 DEF Newest

LEMMA ReadStep ==
  ASSUME TypeOK, MarksInv, NEW h \in Handlers, NEW u \in Users,
         NEW c \in Channels, NEW last \in Nat, GetMessage(h, u, c, last)
  PROVE  MarksInv'
<1> DEFINE rows == Newest(After(c, last), Limit)
           H == [Idle EXCEPT !.pc = Jsonify, !.user = u, !.channel_id = c,
                             !.last = last, !.rows = rows,
                             !.base = haveread[u][c]]
<1>1. /\ H.pc = Jsonify /\ H.channel_id = c
      /\ H.rows = rows /\ H.base = haveread[u][c]
  BY DEF Idle
<1>2. /\ handler' = [handler EXCEPT ![h] = H]
      /\ nextMessage' = nextMessage
      /\ message' = message
      /\ haveread' = haveread
  BY DEF GetMessage, tables
<1> HIDE DEF H
<1>3. handler'[h] = H /\ \A g \in Handlers \ {h} : handler'[g] = handler[g]
  BY <1>2, OneHandler
<1>4. \A g \in Pending' : g \in Pending /\ handler'[g] = handler[g]
  BY <1>1, <1>3 DEF Pending, Commit, Jsonify
<1>5. \A g \in Reading' \ {h} : g \in Reading /\ handler'[g] = handler[g]
  BY <1>3 DEF Reading
<1>6. FreshIds'
  BY <1>2, <1>4 DEF MarksInv, FreshIds
<1>7. rows \subseteq After(c, last) /\ After(c, last) \subseteq message
  BY DEF Newest, After, InChannel
<1>8. \A r \in rows : Seen(r.id)
  BY <1>7 DEF Seen, MarksInv, FreshIds
<1>9. SeenOnly'
  BY <1>1, <1>2, <1>3, <1>4, <1>5, <1>8 DEF MarksInv, SeenOnly, Seen
<1>10. ASSUME NEW r \in rows, r.id < haveread[u][c],
              NEW s \in InChannel(c), s.id = haveread[u][c],
              \A t \in rows : t.id < haveread[u][c]
       PROVE  FALSE
  <2>1. After(c, last) \in SUBSET Row /\ IsFiniteSet(After(c, last))
    BY <1>7, FS_Subset DEF TypeOK
  <2>2. r \in After(c, last) /\ s \in message
    BY <1>7 DEF InChannel
  <2>3. r.id \in Nat /\ s.id \in Nat /\ r.id > last
    BY <2>1, <2>2 DEF TypeOK, Row, After
  <2>4. s \in After(c, last)
    BY <1>10, <2>3 DEF After
  <2>5. s \in rows
    BY <1>10, <2>1, <2>3, <2>4, NewestUpward, NumbersAssumption
  <2> QED
    BY <1>10, <2>3, <2>5
<1>11. BaseDeleted'
  <2> SUFFICES ASSUME NEW g \in Reading', (handler[g].rows # {})',
                      (\A r \in handler[g].rows : r.id < handler[g].base)',
                      NEW s \in InChannel(handler[g].channel_id)',
                      s.id = handler'[g].base
               PROVE  FALSE
    BY DEF BaseDeleted
  <2>1. CASE g = h
    BY <2>1, <1>1, <1>2, <1>3, <1>10 DEF InChannel
  <2>2. CASE g # h
    BY <2>2, <1>2, <1>5 DEF MarksInv, BaseDeleted, InChannel
  <2> QED
    BY <2>1, <2>2
<1> QED
  BY <1>6, <1>9, <1>11 DEF MarksInv

\* Every author has a row, the reader goes on to its upsert.
LEMMA ReadOnStep ==
  ASSUME TypeOK, MarksInv, NEW h \in Handlers, handler[h].pc = Jsonify,
         handler' = [handler EXCEPT ![h] = [handler[h] EXCEPT !.pc = Upsert]],
         UNCHANGED tables
  PROVE  MarksInv'
<1> DEFINE H == [handler[h] EXCEPT !.pc = Upsert]
<1>1. handler[h] \in Handler
  BY DEF TypeOK
<1>2. /\ H.pc = Upsert
      /\ H.rows = handler[h].rows
      /\ H.base = handler[h].base
      /\ H.channel_id = handler[h].channel_id
  BY <1>1 DEF Handler
<1>3. handler' = [handler EXCEPT ![h] = H]
  OBVIOUS
<1> HIDE DEF H
<1>4. handler'[h] = H /\ \A g \in Handlers \ {h} : handler'[g] = handler[g]
  BY <1>3, OneHandler
<1>5. \A g \in Pending' : g \in Pending /\ handler'[g] = handler[g]
  BY <1>2, <1>4 DEF Pending, Commit, Upsert
<1>6. \A g \in Reading' : /\ g \in Reading
                          /\ handler'[g].rows = handler[g].rows
                          /\ handler'[g].base = handler[g].base
                          /\ handler'[g].channel_id = handler[g].channel_id
  BY <1>2, <1>4 DEF Reading
<1>7. FreshIds'
  BY <1>5 DEF MarksInv, FreshIds, tables
<1>8. SeenOnly'
  BY <1>5, <1>6 DEF MarksInv, SeenOnly, Seen, tables
<1>9. BaseDeleted'
  BY <1>6 DEF MarksInv, BaseDeleted, InChannel, tables
<1> QED
  BY <1>7, <1>8, <1>9 DEF MarksInv

\* A handler answers; no row becomes visible, no mark is written but one seen.
LEMMA ReplyStep ==
  ASSUME TypeOK, MarksInv, NEW h \in Handlers, NEW status,
         handler' = [handler EXCEPT ![h] = Reply(h, status)],
         UNCHANGED <<message, nextMessage>>,
         \A u \in Users, c \in Channels : Seen(haveread'[u][c])
  PROVE  MarksInv'
<1>1. handler[h] \in Handler
  BY DEF TypeOK
<1>2. Reply(h, status).pc = "reply"
  BY <1>1 DEF Reply, Handler
<1>3. Reply(h, status).pc \notin {Commit, Jsonify, Upsert}
  BY <1>2 DEF Commit, Jsonify, Upsert
<1> QED
  BY <1>3, QuietStep

LEMMA InitMarks == Init => MarksInv
<1> SUFFICES ASSUME Init PROVE MarksInv
  OBVIOUS
<1>1. Pending = {} /\ Reading = {}
  BY DEF Init, Idle, Pending, Reading, Commit, Jsonify, Upsert
<1>2. \A r \in message : r.id \in Nat /\ r.id < nextMessage
  BY RowsAssumption, NumbersAssumption DEF Init, Row
<1>3. FreshIds
  BY <1>1, <1>2, RowsAssumption DEF Init, FreshIds
<1>4. SeenOnly
  BY <1>1, NumbersAssumption DEF Init, SeenOnly, Seen
<1> QED
  BY <1>1, <1>3, <1>4 DEF MarksInv, BaseDeleted

LEMMA NextMarks == TypeOK /\ MarksInv /\ [Next]_vars => MarksInv'
<1> SUFFICES ASSUME TypeOK, MarksInv, [Next]_vars PROVE MarksInv'
  OBVIOUS
<1> USE DEF tables
<1>a. \A u \in Users, c \in Channels : Seen(haveread[u][c])
  BY DEF MarksInv, SeenOnly
<1>b. \A h \in Handlers : handler[h] \in Handler
  BY DEF TypeOK
<1>c. \A u \in Users, c \in Channels :
         UNCHANGED haveread => Seen(haveread'[u][c])
  BY <1>a
<1>0. CASE UNCHANGED <<message, nextMessage, haveread, handler>>
  BY <1>0 DEF MarksInv, FreshIds, SeenOnly, BaseDeleted, Pending, Reading,
              Seen, InChannel
<1>1. ASSUME NEW u \in Users, PostRegister(u) PROVE MarksInv'
  BY <1>0, <1>1 DEF PostRegister
<1>2. ASSUME NEW u \in Users, NEW c \in Channels, PostAddChannel(u, c)
      PROVE MarksInv'
  BY <1>0, <1>2 DEF PostAddChannel
<1>3. ASSUME NEW h \in Handlers, NEW u \in Users, NEW c \in Channels,
             PostMessage(h, u, c)
      PROVE MarksInv'
  <2> DEFINE H == IF LoggedIn(u)
                  THEN [Idle EXCEPT !.pc = Insert, !.user = u,
                                    !.channel_id = c]
                  ELSE [Idle EXCEPT !.pc = "reply", !.status = 303]
  <2>1. H.pc \notin {Commit, Jsonify, Upsert}
    BY DEF Idle, Insert, Commit, Jsonify, Upsert
  <2>2. handler' = [handler EXCEPT ![h] = H]
    BY <1>3 DEF PostMessage
  <2> QED
    BY <1>3, <1>c, <2>1, <2>2, QuietStep DEF PostMessage
<1>4. ASSUME NEW h \in Handlers, InsertMessage(h) PROVE MarksInv'
  BY <1>4, InsertStep
<1>5. ASSUME NEW h \in Handlers, CommitMessage(h) PROVE MarksInv'
  <2>1. Reply(h, 204).pc \notin {Commit, Jsonify, Upsert}
    BY <1>b DEF Reply, Handler, Commit, Jsonify, Upsert
  <2> QED
    BY <1>5, <2>1, CommitStep DEF CommitMessage
<1>6. ASSUME NEW h \in Handlers, NEW u \in Users, NEW c \in Channels,
             NEW last \in 0 .. nextMessage - 1, GetMessage(h, u, c, last)
      PROVE MarksInv'
  <2>1. last \in Nat
    OBVIOUS
  <2> QED
    BY <1>6, <2>1, ReadStep
<1>7. ASSUME NEW h \in Handlers, JsonifyMessage(h) PROVE MarksInv'
  <2> DEFINE H == [handler[h] EXCEPT !.pc = Upsert]
  <2>1. \/ handler' = [handler EXCEPT ![h] = H]
        \/ handler' = [handler EXCEPT ![h] = Reply(h, 200)]
        \/ handler' = [handler EXCEPT ![h] = Reply(h, 500)]
    BY <1>7 DEF JsonifyMessage
  <2>2. UNCHANGED tables /\ handler[h].pc = Jsonify
    BY <1>7 DEF JsonifyMessage
  <2> QED
    BY <1>c, <2>1, <2>2, ReadOnStep, ReplyStep
<1>8. ASSUME NEW h \in Handlers, UpsertHaveread(h) PROVE MarksInv'
  <2>1. handler[h].pc = Upsert /\ h \in Reading
    BY <1>8 DEF UpsertHaveread, Reading
  <2>2. PICK r \in handler[h].rows :
             haveread' = [haveread EXCEPT
                            ![handler[h].user][handler[h].channel_id] = r.id]
    BY <1>8 DEF UpsertHaveread
  <2>3. Seen(r.id)
    BY <2>1, <2>2 DEF MarksInv, SeenOnly
  <2>4. \A u \in Users, c \in Channels :
           haveread'[u][c] = haveread[u][c] \/ haveread'[u][c] = r.id
    BY <2>2 DEF TypeOK
  <2>5. \A u \in Users, c \in Channels : Seen(haveread'[u][c])
    BY <1>a, <2>3, <2>4
  <2> QED
    BY <1>8, <2>5, ReplyStep DEF UpsertHaveread
<1>9. ASSUME NEW h \in Handlers, NEW u \in Users, FetchUnread(h, u)
      PROVE MarksInv'
  <2> DEFINE H == IF channel = {}
                  THEN [Idle EXCEPT !.pc = "reply", !.status = 200,
                                    !.user = u]
                  ELSE [Idle EXCEPT !.pc = ReadMark, !.user = u,
                                    !.todo = channel]
  <2>1. H.pc \notin {Commit, Jsonify, Upsert}
    BY DEF Idle, ReadMark, Commit, Jsonify, Upsert
  <2>2. handler' = [handler EXCEPT ![h] = H]
    BY <1>9 DEF FetchUnread
  <2> QED
    BY <1>9, <1>c, <2>1, <2>2, QuietStep DEF FetchUnread
<1>10. ASSUME NEW h \in Handlers, NEW c \in Channels, QueryHaveRead(h, c)
       PROVE MarksInv'
  <2> DEFINE H == [handler[h] EXCEPT !.pc = Count, !.channel_id = c,
                                     !.last = haveread[handler[h].user][c]]
  <2>1. H.pc \notin {Commit, Jsonify, Upsert}
    BY <1>b DEF Handler, Count, Commit, Jsonify, Upsert
  <2>2. handler' = [handler EXCEPT ![h] = H]
    BY <1>10 DEF QueryHaveRead
  <2> QED
    BY <1>10, <1>c, <2>1, <2>2, QuietStep DEF QueryHaveRead
<1>11. ASSUME NEW h \in Handlers, CountUnread(h) PROVE MarksInv'
  <2>1. PICK H : /\ handler' = [handler EXCEPT ![h] = H]
                 /\ H.pc \in {ReadMark, "reply"}
    <3> DEFINE cnt == IF handler[h].last > 0
                      THEN Cardinality(After(handler[h].channel_id,
                                             handler[h].last))
                      ELSE Cardinality(InChannel(handler[h].channel_id))
               rest == handler[h].todo \ {handler[h].channel_id}
               N == [handler[h] EXCEPT
                       !.pc = ReadMark, !.todo = rest,
                       !.unread = @ \cup {<<handler[h].channel_id, cnt>>}]
               R == [N EXCEPT !.pc = "reply", !.status = 200]
    <3>1. N.pc = ReadMark /\ R.pc = "reply"
      BY <1>b DEF Handler
    <3>2. handler' = [handler EXCEPT ![h] = IF rest = {} THEN R ELSE N]
      BY <1>11 DEF CountUnread
    <3> HIDE DEF N, R, rest
    <3> QED
      BY <3>1, <3>2
  <2>2. H.pc \notin {Commit, Jsonify, Upsert}
    BY <2>1 DEF ReadMark, Commit, Jsonify, Upsert
  <2> QED
    BY <1>11, <1>c, <2>1, <2>2, QuietStep DEF CountUnread
<1>12. ASSUME NEW h \in Handlers, GetInitialize(h) PROVE MarksInv'
  <2> DEFINE H == [Idle EXCEPT !.pc = DelUser]
  <2>1. H.pc \notin {Commit, Jsonify, Upsert}
    BY DEF Idle, DelUser, Commit, Jsonify, Upsert
  <2>2. handler' = [handler EXCEPT ![h] = H]
    BY <1>12 DEF GetInitialize
  <2> QED
    BY <1>12, <1>c, <2>1, <2>2, QuietStep DEF GetInitialize
<1>13. ASSUME NEW h \in Handlers,
              DeleteUser(h) \/ DeleteChannel(h) \/ DeleteMessage(h)
       PROVE MarksInv'
  <2>1. PICK pc \in {DelChannel, DelMessage, DelHaveread} :
             handler' = [handler EXCEPT ![h] = [handler[h] EXCEPT !.pc = pc]]
    BY <1>13 DEF DeleteUser, DeleteChannel, DeleteMessage
  <2> DEFINE H == [handler[h] EXCEPT !.pc = pc]
  <2>2. H.pc = pc
    BY <1>b DEF Handler
  <2>3. H.pc \notin {Commit, Jsonify, Upsert}
    BY <2>1, <2>2 DEF DelChannel, DelMessage, DelHaveread, Commit, Jsonify,
                      Upsert
  <2>4. /\ message' \subseteq message /\ nextMessage' = nextMessage
        /\ haveread' = haveread
    BY <1>13 DEF DeleteUser, DeleteChannel, DeleteMessage
  <2>5. handler' = [handler EXCEPT ![h] = H]
    BY <2>1
  <2> HIDE DEF H
  <2> QED
    BY <1>c, <2>3, <2>4, <2>5, QuietStep
<1>14. ASSUME NEW h \in Handlers, DeleteHaveread(h) PROVE MarksInv'
  <2>1. \A g \in Pending : \A r \in handler[g].rows : r.id # 0
    BY <1>b DEF Pending, Handler, Row
  <2>2. Seen(0)
    BY <2>1 DEF Seen, TypeOK
  <2>3. \A u \in Users, c \in Channels : Seen(haveread'[u][c])
    BY <1>14, <2>2 DEF DeleteHaveread
  <2> QED
    BY <1>14, <2>3, ReplyStep DEF DeleteHaveread
<1>15. ASSUME NEW h \in Handlers, StatementFails(h) PROVE MarksInv'
  <2>1. CASE UNCHANGED message
    BY <1>15, <1>c, <2>1, ReplyStep DEF StatementFails
  <2>2. CASE handler[h].pc = Commit /\ message' = message \cup handler[h].rows
    <3>1. Reply(h, 500).pc \notin {Commit, Jsonify, Upsert}
      BY <1>b DEF Reply, Handler, Commit, Jsonify, Upsert
    <3>2. /\ handler' = [handler EXCEPT ![h] = Reply(h, 500)]
          /\ UNCHANGED <<nextMessage, haveread>>
      BY <1>15 DEF StatementFails
    <3> QED
      BY <2>2, <3>1, <3>2, CommitStep
  <2> QED
    BY <1>15, <2>1, <2>2 DEF StatementFails
<1>16. ASSUME NEW h \in Handlers, Respond(h) PROVE MarksInv'
  <2>1. Idle.pc \notin {Commit, Jsonify, Upsert}
    BY DEF Idle, Commit, Jsonify, Upsert
  <2> QED
    BY <1>16, <1>c, <2>1, QuietStep DEF Respond
<1>17. CASE UNCHANGED vars
  BY <1>0, <1>17 DEF vars
<1> QED
  BY <1>1, <1>2, <1>3, <1>4, <1>5, <1>6, <1>7, <1>8, <1>9, <1>10, <1>11,
     <1>12, <1>13, <1>14, <1>15, <1>16, <1>17 DEF Next, Request, Continue

\* Message ids are given once, also to rows that are not visible yet; a read
\* mark names a row that has been visible; and a reader that holds nothing as
\* new as its mark started from a deleted row (addMessage, getMessage).
THEOREM MarksCorrect == Spec => []MarksInv
<1>1. TypeOK /\ MarksInv /\ [Next]_vars => MarksInv'
  BY NextMarks
<1> QED
  BY <1>1, InitMarks, TypeCorrect, PTL DEF Spec

-----------------------------------------------------------------------------
(***************************************************************************)
(* Read marks over time.  Only two statements write haveread.              *)
(***************************************************************************)
LEMMA WhoWritesMarks ==
  ASSUME [Next]_vars
  PROVE  \/ UNCHANGED haveread
         \/ \E h \in Handlers : UpsertHaveread(h) \/ DeleteHaveread(h)
<1>1. ASSUME NEW h \in Handlers, Request(h) \/ Respond(h)
      PROVE  UNCHANGED haveread
  BY <1>1 DEF Request, Respond, PostMessage, GetMessage, FetchUnread,
              GetInitialize, tables
<1>2. ASSUME NEW h \in Handlers, Continue(h)
      PROVE  UNCHANGED haveread \/ UpsertHaveread(h) \/ DeleteHaveread(h)
  BY <1>2 DEF Continue, InsertMessage, CommitMessage, JsonifyMessage,
              QueryHaveRead, CountUnread, DeleteUser, DeleteChannel,
              DeleteMessage, StatementFails, tables
<1>3. ASSUME NEW u \in Users, PostRegister(u) PROVE UNCHANGED haveread
  BY <1>3 DEF PostRegister
<1>4. ASSUME NEW u \in Users, NEW c \in Channels, PostAddChannel(u, c)
      PROVE UNCHANGED haveread
  BY <1>4 DEF PostAddChannel
<1>5. CASE UNCHANGED vars
  BY <1>5 DEF vars
<1> QED
  BY <1>1, <1>2, <1>3, <1>4, <1>5 DEF Next

LEMMA RegressStep == TypeOK /\ MarksInv /\ [Next]_vars => RegressOnlyIf
<1> SUFFICES ASSUME TypeOK, MarksInv, [Next]_vars,
                    NEW u \in Users, NEW c \in Channels,
                    haveread'[u][c] < haveread[u][c]
             PROVE  \/ \E h \in Handlers : handler[h].pc = DelHaveread
                    \/ Overtaken(u, c)
                    \/ \A r \in InChannel(c) : r.id # haveread[u][c]
  BY DEF RegressOnlyIf
<1>1. haveread[u][c] \in Nat
  BY DEF TypeOK
<1>2. CASE UNCHANGED haveread
  BY <1>1, <1>2
<1>3. ASSUME NEW h \in Handlers, DeleteHaveread(h)
      PROVE  handler[h].pc = DelHaveread
  BY <1>3 DEF DeleteHaveread
<1>4. ASSUME NEW h \in Handlers, UpsertHaveread(h)
      PROVE  \/ Overtaken(u, c)
             \/ \A r \in InChannel(c) : r.id # haveread[u][c]
  <2>1. handler[h].pc = Upsert /\ h \in Reading
    BY <1>4 DEF UpsertHaveread, Reading
  <2>2. PICK r \in handler[h].rows :
           /\ IsFirst(r, handler[h].rows)
           /\ haveread' = [haveread EXCEPT
                             ![handler[h].user][handler[h].channel_id] = r.id]
    BY <1>4 DEF UpsertHaveread
  <2>3. \A s \in handler[h].rows : s.id \in Nat
    BY DEF TypeOK, Handler, Row
  <2>4. /\ handler[h].user = u /\ handler[h].channel_id = c
        /\ r.id < haveread[u][c]
    BY <1>1, <2>2 DEF TypeOK
  <2>5. CASE handler[h].base # haveread[u][c]
    BY <2>1, <2>4, <2>5 DEF Overtaken
  <2>6. CASE handler[h].base = haveread[u][c]
    <3>1. \A s \in handler[h].rows : s.id < handler[h].base
      BY <1>1, <2>2, <2>3, <2>4, <2>6 DEF IsFirst
    <3> QED
      BY <2>1, <2>2, <2>4, <2>6, <3>1 DEF MarksInv, BaseDeleted
  <2> QED
    BY <2>5, <2>6
<1> QED
  BY <1>2, <1>3, <1>4, WhoWritesMarks

\* A read mark moves back only by /initialize, by a reader that was overtaken,
\* or when its message is gone (getMessage): no mark is lost between readers
\* that do not overlap.
THEOREM RegressCorrect == Spec => RegressExplained
<1>1. TypeOK /\ MarksInv /\ [Next]_vars => [RegressOnlyIf]_vars
  BY RegressStep
<1> QED
  BY <1>1, TypeCorrect, MarksCorrect, PTL DEF Spec, RegressExplained

-----------------------------------------------------------------------------
(***************************************************************************)
(* Authors.  A message of the data set has an author of the data set, whom *)
(* no /initialize deletes; the author of any other had a row when the post *)
(* was accepted, and has one still unless /initialize came in between.     *)
(***************************************************************************)
Posts(h) == handler[h].pc \in {Insert, Commit}

AuthorsInv ==
  /\ InitialUsers \subseteq user
  /\ InitialMessages < nextMessage
  /\ \A r \in message : r.id <= InitialMessages => r.user_id \in InitialUsers
  /\ \A h \in Pending : \A r \in handler[h].rows : InitialMessages < r.id
  /\ \A h \in Handlers : Posts(h) => handler[h].user \in user \cup raced
  /\ OrphanExplained

LEMMA InitAuthors == Init => AuthorsInv
<1> SUFFICES ASSUME Init PROVE AuthorsInv
  OBVIOUS
<1>1. \A h \in Handlers : handler[h].pc = "idle"
  BY DEF Init, Idle
<1>2. Pending = {} /\ \A h \in Handlers : ~Posts(h)
  BY <1>1 DEF Pending, Posts, Insert, Commit
<1>3. OrphanExplained
  BY RowsAssumption DEF Init, OrphanExplained
<1> QED
  BY <1>2, <1>3, RowsAssumption, NumbersAssumption DEF Init, AuthorsInv

\* A step that stores no message, deletes no user and lets no handler of
\* /initialize go on.
LEMMA AuthorsKept ==
  ASSUME TypeOK, AuthorsInv, NEW h \in Handlers, NEW H,
         handler' = [handler EXCEPT ![h] = H],
         H.pc \notin {Insert, Commit},
         handler[h].pc \notin {DelChannel, DelMessage},
         UNCHANGED <<user, message, nextMessage, raced>>
  PROVE  AuthorsInv'
<1>1. handler'[h] = H /\ \A g \in Handlers \ {h} : handler'[g] = handler[g]
  BY OneHandler
<1>2. \A g \in Handlers : Posts(g)' => Posts(g) /\ handler'[g] = handler[g]
  BY <1>1 DEF Posts
<1>3. \A g \in Pending' : g \in Pending /\ handler'[g] = handler[g]
  BY <1>1 DEF Pending
<1>4. Initializing => Initializing'
  BY <1>1 DEF Initializing
<1> QED
  BY <1>2, <1>3, <1>4 DEF AuthorsInv, OrphanExplained

\* Authors of posts that are stored, or on their way, stay accounted for.
LEMMA NextAuthors ==
  TypeOK /\ MarksInv /\ AuthorsInv /\ [Next]_vars => AuthorsInv'
<1> SUFFICES ASSUME TypeOK, MarksInv, AuthorsInv, [Next]_vars
             PROVE  AuthorsInv'
  OBVIOUS
<1> USE DEF tables
<1>b. \A h \in Handlers : handler[h] \in Handler
  BY DEF TypeOK
<1>d. \A h \in Handlers : \A status :
        Reply(h, status).pc \notin {Insert, Commit}
  BY <1>b DEF Reply, Handler, Insert, Commit
<1>0. CASE UNCHANGED <<user, message, nextMessage, handler, raced>>
  BY <1>0 DEF AuthorsInv, OrphanExplained, Initializing, Pending, Posts
<1>1. ASSUME NEW u \in Users, PostRegister(u) PROVE AuthorsInv'
  BY <1>1 DEF PostRegister, AuthorsInv, OrphanExplained, Initializing,
              Pending, Posts
<1>2. ASSUME NEW u \in Users, NEW c \in Channels, PostAddChannel(u, c)
      PROVE AuthorsInv'
  BY <1>0, <1>2 DEF PostAddChannel
<1>3. ASSUME NEW h \in Handlers, NEW u \in Users, NEW c \in Channels,
             PostMessage(h, u, c)
      PROVE AuthorsInv'
  <2>1. handler[h].pc \notin {DelChannel, DelMessage}
    BY <1>3 DEF PostMessage, Idle, DelChannel, DelMessage
  <2>2. CASE LoggedIn(u)
    <3> DEFINE H == [Idle EXCEPT !.pc = Insert, !.user = u, !.channel_id = c]
    <3>1. H.pc = Insert /\ H.user = u
      BY DEF Idle
    <3>2. handler' = [handler EXCEPT ![h] = H]
      BY <1>3, <2>2 DEF PostMessage
    <3>3. UNCHANGED <<user, message, nextMessage, raced>>
      BY <1>3 DEF PostMessage
    <3> HIDE DEF H
    <3>4. handler'[h] = H /\ \A g \in Handlers \ {h} : handler'[g] = handler[g]
      BY <3>2, OneHandler
    <3>5. \A g \in Pending' : g \in Pending /\ handler'[g] = handler[g]
      BY <3>1, <3>4 DEF Pending, Insert, Commit
    <3>6. \A g \in Handlers : Posts(g)' => handler'[g].user \in user \cup raced
      BY <2>2, <3>1, <3>4 DEF Posts, LoggedIn, AuthorsInv
    <3>7. Initializing => Initializing'
      BY <2>1, <3>4 DEF Initializing
    <3> QED
      BY <3>3, <3>5, <3>6, <3>7 DEF AuthorsInv, OrphanExplained
  <2>3. CASE ~LoggedIn(u)
    <3> DEFINE H == [Idle EXCEPT !.pc = "reply", !.status = 303]
    <3>1. H.pc \notin {Insert, Commit}
      BY DEF Idle, Insert, Commit
    <3>2. handler' = [handler EXCEPT ![h] = H]
      BY <1>3, <2>3 DEF PostMessage
    <3> QED
      BY <1>3, <2>1, <3>1, <3>2, AuthorsKept DEF PostMessage
  <2> QED
    BY <2>2, <2>3
<1>4. ASSUME NEW h \in Handlers, InsertMessage(h) PROVE AuthorsInv'
  <2> DEFINE r == NewRow(h, nextMessage)
             H == [handler[h] EXCEPT !.pc = Commit, !.rows = {r}]
  <2>1. /\ H.pc = Commit /\ H.rows = {r} /\ H.user = handler[h].user
        /\ r.id = nextMessage
    BY <1>b DEF Handler, NewRow
  <2>2. /\ handler' = [handler EXCEPT ![h] = H]
        /\ nextMessage' = nextMessage + 1
        /\ UNCHANGED <<user, message, raced>>
    BY <1>4 DEF InsertMessage
  <2> HIDE DEF H, r
  <2>3. handler'[h] = H /\ \A g \in Handlers \ {h} : handler'[g] = handler[g]
    BY <2>2, OneHandler
  <2>4. Posts(h) /\ handler[h].pc \notin {DelChannel, DelMessage}
    BY <1>4 DEF InsertMessage, Posts, Insert, DelChannel, DelMessage
  <2>5. \A g \in Pending' \ {h} : g \in Pending /\ handler'[g] = handler[g]
    BY <2>3 DEF Pending
  <2>6. \A g \in Handlers : Posts(g)' => handler'[g].user \in user \cup raced
    BY <2>1, <2>3, <2>4 DEF Posts, AuthorsInv
  <2>7. Initializing => Initializing'
    BY <2>3, <2>4 DEF Initializing
  <2>8. InitialMessages \in Nat /\ nextMessage \in Nat
    BY NumbersAssumption DEF TypeOK
  <2>9. \A g \in Pending' : \A s \in handler'[g].rows : InitialMessages < s.id
    BY <2>1, <2>3, <2>5, <2>8 DEF AuthorsInv
  <2> QED
    BY <2>2, <2>6, <2>7, <2>8, <2>9 DEF AuthorsInv, OrphanExplained
<1>5. ASSUME NEW h \in Handlers, NEW status, handler[h].pc = Commit,
             handler' = [handler EXCEPT ![h] = Reply(h, status)],
             message' = message \cup handler[h].rows,
             UNCHANGED <<user, nextMessage, raced>>
      PROVE AuthorsInv'
  <2>1. /\ handler'[h] = Reply(h, status)
        /\ \A g \in Handlers \ {h} : handler'[g] = handler[g]
    BY <1>5, OneHandler
  <2>2. PICK r \in handler[h].rows :
           handler[h].rows = {r} /\ r.user_id = handler[h].user
    BY <1>5 DEF MarksInv, FreshIds, Pending
  <2>3. r.user_id \in user \cup raced /\ InitialMessages < r.id
    BY <1>5, <2>2 DEF AuthorsInv, Posts, Pending
  <2>4. r.id \in Nat
    BY <1>b DEF Handler, Row
  <2>5. \A g \in Pending' : g \in Pending /\ handler'[g] = handler[g]
    BY <1>d, <2>1 DEF Pending
  <2>6. \A g \in Handlers : Posts(g)' => Posts(g) /\ handler'[g] = handler[g]
    BY <1>d, <2>1 DEF Posts
  <2>7. Initializing => Initializing'
    BY <1>5, <2>1 DEF Initializing, Commit, DelChannel, DelMessage
  <2>8. \A s \in message' : s.id <= InitialMessages =>
                                s.user_id \in InitialUsers
    BY <1>5, <2>2, <2>3, <2>4, NumbersAssumption DEF AuthorsInv
  <2>9. OrphanExplained'
    BY <1>5, <2>2, <2>3, <2>7 DEF AuthorsInv, OrphanExplained
  <2> QED
    BY <1>5, <2>5, <2>6, <2>8, <2>9 DEF AuthorsInv
<1>6. ASSUME NEW h \in Handlers, CommitMessage(h) PROVE AuthorsInv'
  BY <1>5, <1>6 DEF CommitMessage
<1>7. ASSUME NEW h \in Handlers, NEW u \in Users, NEW c \in Channels,
             NEW last \in 0 .. nextMessage - 1, GetMessage(h, u, c, last)
      PROVE AuthorsInv'
  <2> DEFINE H == [Idle EXCEPT !.pc = Jsonify, !.user = u,
                               !.channel_id = c, !.last = last,
                               !.rows = Newest(After(c, last), Limit),
                               !.base = haveread[u][c]]
  <2>1. H.pc \notin {Insert, Commit}
    BY DEF Idle, Jsonify, Insert, Commit
  <2>2. handler' = [handler EXCEPT ![h] = H]
    BY <1>7 DEF GetMessage
  <2>3. handler[h].pc \notin {DelChannel, DelMessage}
    BY <1>7 DEF GetMessage, Idle, DelChannel, DelMessage
  <2> QED
    BY <1>7, <2>1, <2>2, <2>3, AuthorsKept DEF GetMessage
<1>8. ASSUME NEW h \in Handlers, JsonifyMessage(h) PROVE AuthorsInv'
  <2> DEFINE H == [handler[h] EXCEPT !.pc = Upsert]
  <2>1. H.pc \notin {Insert, Commit}
    BY <1>b DEF Handler, Upsert, Insert, Commit
  <2>2. \/ handler' = [handler EXCEPT ![h] = H]
        \/ handler' = [handler EXCEPT ![h] = Reply(h, 200)]
        \/ handler' = [handler EXCEPT ![h] = Reply(h, 500)]
    BY <1>8 DEF JsonifyMessage
  <2>3. handler[h].pc \notin {DelChannel, DelMessage}
    BY <1>8 DEF JsonifyMessage, Jsonify, DelChannel, DelMessage
  <2>4. UNCHANGED tables /\ UNCHANGED raced
    BY <1>8 DEF JsonifyMessage
  <2> HIDE DEF H
  <2> QED
    BY <1>d, <2>1, <2>2, <2>3, <2>4, AuthorsKept
<1>9. ASSUME NEW h \in Handlers, UpsertHaveread(h) PROVE AuthorsInv'
  BY <1>9, <1>d, AuthorsKept
     DEF UpsertHaveread, Upsert, DelChannel, DelMessage
<1>10. ASSUME NEW h \in Handlers, NEW u \in Users, FetchUnread(h, u)
       PROVE AuthorsInv'
  <2> DEFINE H == IF channel = {}
                  THEN [Idle EXCEPT !.pc = "reply", !.status = 200,
                                    !.user = u]
                  ELSE [Idle EXCEPT !.pc = ReadMark, !.user = u,
                                    !.todo = channel]
  <2>1. H.pc \notin {Insert, Commit}
    BY DEF Idle, ReadMark, Insert, Commit
  <2>2. handler' = [handler EXCEPT ![h] = H]
    BY <1>10 DEF FetchUnread
  <2>3. handler[h].pc \notin {DelChannel, DelMessage}
    BY <1>10 DEF FetchUnread, Idle, DelChannel, DelMessage
  <2> QED
    BY <1>10, <2>1, <2>2, <2>3, AuthorsKept DEF FetchUnread
<1>11. ASSUME NEW h \in Handlers, NEW c \in Channels, QueryHaveRead(h, c)
       PROVE AuthorsInv'
  <2> DEFINE H == [handler[h] EXCEPT !.pc = Count, !.channel_id = c,
                                     !.last = haveread[handler[h].user][c]]
  <2>1. H.pc \notin {Insert, Commit}
    BY <1>b DEF Handler, Count, Insert, Commit
  <2>2. handler' = [handler EXCEPT ![h] = H]
    BY <1>11 DEF QueryHaveRead
  <2>3. handler[h].pc \notin {DelChannel, DelMessage}
    BY <1>11 DEF QueryHaveRead, ReadMark, DelChannel, DelMessage
  <2> QED
    BY <1>11, <2>1, <2>2, <2>3, AuthorsKept DEF QueryHaveRead
<1>12. ASSUME NEW h \in Handlers, CountUnread(h) PROVE AuthorsInv'
  <2>1. PICK H : /\ handler' = [handler EXCEPT ![h] = H]
                 /\ H.pc \in {ReadMark, "reply"}
    <3> DEFINE cnt == IF handler[h].last > 0
                      THEN Cardinality(After(handler[h].channel_id,
                                             handler[h].last))
                      ELSE Cardinality(InChannel(handler[h].channel_id))
               rest == handler[h].todo \ {handler[h].channel_id}
               N == [handler[h] EXCEPT
                       !.pc = ReadMark, !.todo = rest,
                       !.unread = @ \cup {<<handler[h].channel_id, cnt>>}]
               R == [N EXCEPT !.pc = "reply", !.status = 200]
    <3>1. N.pc = ReadMark /\ R.pc = "reply"
      BY <1>b DEF Handler
    <3>2. handler' = [handler EXCEPT ![h] = IF rest = {} THEN R ELSE N]
      BY <1>12 DEF CountUnread
    <3> HIDE DEF N, R, rest
    <3> QED
      BY <3>1, <3>2
  <2>2. H.pc \notin {Insert, Commit}
    BY <2>1 DEF ReadMark, Insert, Commit
  <2>3. handler[h].pc \notin {DelChannel, DelMessage}
    BY <1>12 DEF CountUnread, Count, DelChannel, DelMessage
  <2> QED
    BY <1>12, <2>1, <2>2, <2>3, AuthorsKept DEF CountUnread
<1>13. ASSUME NEW h \in Handlers, GetInitialize(h) PROVE AuthorsInv'
  <2> DEFINE H == [Idle EXCEPT !.pc = DelUser]
  <2>1. H.pc \notin {Insert, Commit}
    BY DEF Idle, DelUser, Insert, Commit
  <2>2. handler' = [handler EXCEPT ![h] = H]
    BY <1>13 DEF GetInitialize
  <2>3. handler[h].pc \notin {DelChannel, DelMessage}
    BY <1>13 DEF GetInitialize, Idle, DelChannel, DelMessage
  <2> QED
    BY <1>13, <2>1, <2>2, <2>3, AuthorsKept DEF GetInitialize
<1>14. ASSUME NEW h \in Handlers, NEW pc \in {DelChannel, DelMessage},
              handler' = [handler EXCEPT ![h] = [@ EXCEPT !.pc = pc]],
              UNCHANGED <<message, nextMessage>>,
              user' = user \/ DeleteUser(h),
              raced' = raced \/ DeleteUser(h)
       PROVE AuthorsInv'
  <2> DEFINE H == [handler[h] EXCEPT !.pc = pc]
  <2>1. H.pc = pc
    BY <1>b DEF Handler
  <2>2. handler' = [handler EXCEPT ![h] = H]
    BY <1>14
  <2> HIDE DEF H
  <2>3. handler'[h] = H /\ \A g \in Handlers \ {h} : handler'[g] = handler[g]
    BY <2>2, OneHandler
  <2>4. \A g \in Handlers : Posts(g)' => Posts(g) /\ handler'[g] = handler[g]
    BY <1>14, <2>1, <2>3 DEF Posts, Insert, Commit, DelChannel, DelMessage
  <2>5. \A g \in Pending' : g \in Pending /\ handler'[g] = handler[g]
    BY <1>14, <2>1, <2>3 DEF Pending, Commit, DelChannel, DelMessage
  <2>6. Initializing'
    BY <1>14, <2>1, <2>3 DEF Initializing
  <2>7. \A g \in Handlers : Posts(g) => handler[g].user \in user' \cup raced'
    BY <1>14 DEF AuthorsInv, DeleteUser, Posting, Posts
  <2>8. InitialUsers \subseteq user'
    BY <1>14 DEF AuthorsInv, DeleteUser
  <2> QED
    BY <1>14, <2>4, <2>5, <2>6, <2>7, <2>8 DEF AuthorsInv, OrphanExplained
<1>15. ASSUME NEW h \in Handlers, DeleteUser(h) \/ DeleteChannel(h)
       PROVE AuthorsInv'
  BY <1>14, <1>15 DEF DeleteUser, DeleteChannel
<1>16. ASSUME NEW h \in Handlers, DeleteMessage(h) PROVE AuthorsInv'
  <2> DEFINE H == [handler[h] EXCEPT !.pc = DelHaveread]
  <2>1. H.pc = DelHaveread
    BY <1>b DEF Handler
  <2>2. handler' = [handler EXCEPT ![h] = H]
    BY <1>16 DEF DeleteMessage
  <2> HIDE DEF H
  <2>3. handler'[h] = H /\ \A g \in Handlers \ {h} : handler'[g] = handler[g]
    BY <2>2, OneHandler
  <2>4. \A g \in Handlers : Posts(g)' => Posts(g) /\ handler'[g] = handler[g]
    BY <2>1, <2>3 DEF Posts, Insert, Commit, DelHaveread
  <2>5. \A g \in Pending' : g \in Pending /\ handler'[g] = handler[g]
    BY <2>1, <2>3 DEF Pending, Commit, DelHaveread
  <2>6. \A r \in message' : r \in message /\ r.user_id \in user
    BY <1>16 DEF DeleteMessage, AuthorsInv
  <2>7. OrphanExplained'
    BY <1>16, <2>6 DEF DeleteMessage, OrphanExplained
  <2> QED
    BY <1>16, <2>4, <2>5, <2>6, <2>7 DEF DeleteMessage, AuthorsInv
<1>17. ASSUME NEW h \in Handlers, DeleteHaveread(h) PROVE AuthorsInv'
  BY <1>17, <1>d, AuthorsKept
     DEF DeleteHaveread, DelHaveread, DelChannel, DelMessage
<1>18. ASSUME NEW h \in Handlers, StatementFails(h) PROVE AuthorsInv'
  <2>1. CASE UNCHANGED message
    <3>1. /\ handler'[h] = Reply(h, 500)
          /\ \A g \in Handlers \ {h} : handler'[g] = handler[g]
      BY <1>18, OneHandler DEF StatementFails
    <3>2. \A g \in Handlers : Posts(g)' => Posts(g) /\ handler'[g] = handler[g]
      BY <1>d, <3>1 DEF Posts
    <3>3. \A g \in Pending' : g \in Pending /\ handler'[g] = handler[g]
      BY <1>d, <3>1 DEF Pending
    <3>4. OrphanExplained'
      BY <1>18 DEF StatementFails, OrphanExplained
    <3> QED
      BY <1>18, <2>1, <3>2, <3>3, <3>4 DEF StatementFails, AuthorsInv
  <2>2. CASE handler[h].pc = Commit /\ message' = message \cup handler[h].rows
    BY <1>5, <1>18, <2>2 DEF StatementFails
  <2> QED
    BY <1>18, <2>1, <2>2 DEF StatementFails
<1>19. ASSUME NEW h \in Handlers, Respond(h) PROVE AuthorsInv'
  BY <1>19, AuthorsKept
     DEF Respond, Idle, Insert, Commit, DelChannel, DelMessage
<1>20. CASE UNCHANGED vars
  BY <1>0, <1>20 DEF vars
<1> QED
  BY <1>1, <1>2, <1>3, <1>4, <1>6, <1>7, <1>8, <1>9, <1>10, <1>11, <1>12,
     <1>13, <1>15, <1>16, <1>17, <1>18, <1>19, <1>20
     DEF Next, Request, Continue

\* Unless a statement fails, the only messages whose author has no row are,
\* outside a running /initialize, those of users it deleted while their post
\* was accepted and not yet stored (getInitialize, postMessage).
THEOREM OrphanCorrect == Spec => []OrphanExplained
<1>1. TypeOK /\ MarksInv /\ AuthorsInv /\ [Next]_vars => AuthorsInv'
  BY NextAuthors
<1>2. AuthorsInv => OrphanExplained
  BY DEF AuthorsInv
<1> QED
  BY <1>1, <1>2, InitAuthors, TypeCorrect, MarksCorrect, PTL DEF Spec

-----------------------------------------------------------------------------
(***************************************************************************)
(* The message service implements the message table.                       *)
(***************************************************************************)
\* An INSERT that commits stores one message of one channel, under a new id.
LEMMA CommitStores ==
  ASSUME TypeOK, MarksInv, NEW h \in Handlers, handler[h].pc = Commit,
         message' = message \cup handler[h].rows
  PROVE  Table!TableNext
<1> DEFINE L == [c \in Channels |-> IdsIn(message, c)]
<1>1. h \in Pending
  BY DEF Pending
<1>2. PICK r \in handler[h].rows :
         handler[h].rows = {r} /\ \A s \in message : s.id # r.id
  BY <1>1 DEF MarksInv, FreshIds
<1>3. r \in Row /\ r.channel_id \in Channels
  BY <1>2 DEF TypeOK, Handler, Row
<1>4. \A c \in Channels :
         IdsIn(message', c) = IF c = r.channel_id
                              THEN IdsIn(message, c) \cup {r.id}
                              ELSE IdsIn(message, c)
  BY <1>2 DEF IdsIn
<1>5. \A d \in Channels : r.id \notin L[d]
  BY <1>2 DEF IdsIn
<1>6. [c \in Channels |-> IdsIn(message', c)]
         = [L EXCEPT ![r.channel_id] = @ \cup {r.id}]
  BY <1>3, <1>4
<1>7. r.id \in [c \in Channels |-> IdsIn(message', c)][r.channel_id]
  BY <1>3, <1>4
<1> QED
  BY <1>3, <1>5, <1>6, <1>7 DEF Table!TableNext, Table!Store

LEMMA TableStep ==
  TypeOK /\ MarksInv /\ [Next]_vars
    => Table!TableNext
         \/ UNCHANGED [c \in Channels |-> IdsIn(message, c)]
<1> SUFFICES ASSUME TypeOK, MarksInv, [Next]_vars
             PROVE  \/ Table!TableNext
                    \/ UNCHANGED [c \in Channels |-> IdsIn(message, c)]
  OBVIOUS
<1>0. CASE UNCHANGED message
  BY <1>0 DEF IdsIn
<1>1. ASSUME NEW h \in Handlers, Request(h) \/ Respond(h)
      PROVE  UNCHANGED message
  BY <1>1 DEF Request, Respond, PostMessage, GetMessage, FetchUnread,
              GetInitialize, tables
<1>2. ASSUME NEW h \in Handlers, Continue(h)
      PROVE  \/ UNCHANGED message \/ CommitMessage(h) \/ DeleteMessage(h)
             \/ StatementFails(h)
  BY <1>2 DEF Continue, InsertMessage, JsonifyMessage, UpsertHaveread,
              QueryHaveRead, CountUnread, DeleteUser, DeleteChannel,
              DeleteHaveread, tables
<1>3. ASSUME NEW u \in Users, PostRegister(u) PROVE UNCHANGED message
  BY <1>3 DEF PostRegister
<1>4. ASSUME NEW u \in Users, NEW c \in Channels, PostAddChannel(u, c)
      PROVE UNCHANGED message
  BY <1>4 DEF PostAddChannel
<1>5. CASE UNCHANGED vars
  BY <1>0, <1>5 DEF vars
<1>6. ASSUME NEW h \in Handlers, CommitMessage(h) PROVE Table!TableNext
  BY <1>6, CommitStores DEF CommitMessage
<1>7. ASSUME NEW h \in Handlers, StatementFails(h)
      PROVE  UNCHANGED message \/ Table!TableNext
  BY <1>7, CommitStores DEF StatementFails
<1>8. ASSUME NEW h \in Handlers, DeleteMessage(h) PROVE Table!TableNext
  <2>1. \A c \in Channels :
           IdsIn(message', c) =
             {id \in IdsIn(message, c) : id <= InitialMessages}
    BY <1>8 DEF DeleteMessage, IdsIn
  <2> QED
    BY <2>1 DEF Table!TableNext, Table!Purge
<1> QED
  BY <1>0, <1>1, <1>2, <1>3, <1>4, <1>5, <1>6, <1>7, <1>8 DEF Next

\* Under every interleaving of requests, with failing statements or without,
\* a channel gains one message at a time under a fresh id and is cut back to
\* the data set by /initialize alone (addMessage, getInitialize).
THEOREM TableCorrect == Spec => ImplementsTable
<1>1. Init => Table!TableInit
  BY DEF Init, Table!TableInit
<1>2. TypeOK /\ MarksInv /\ [Next]_vars
        => [Table!TableNext]_([c \in Channels |-> IdsIn(message, c)])
  BY TableStep
<1> QED
  BY <1>1, <1>2, TypeCorrect, MarksCorrect, PTL
     DEF Spec, ImplementsTable, Table!TableSpec

-----------------------------------------------------------------------------
(***************************************************************************)
(* Finite sets of numbers: how many members are larger than one.           *)
(***************************************************************************)
Rank(S, id) == Cardinality({j \in S : j > id})

LEMMA RankType ==
  ASSUME NEW S \in SUBSET Nat, IsFiniteSet(S), NEW id \in Nat
  PROVE  Rank(S, id) \in Nat /\ (id \in S => Rank(S, id) < Cardinality(S))
<1> DEFINE R == {j \in S : j > id}
<1>1. R \in SUBSET S
  OBVIOUS
<1>2. /\ IsFiniteSet(R) /\ Cardinality(R) <= Cardinality(S)
      /\ Cardinality(S) = Cardinality(R) => S = R
  BY <1>1, FS_Subset
<1>3. Cardinality(R) \in Nat /\ Cardinality(S) \in Nat
  BY <1>2, FS_CardinalityType
<1>4. id \notin R
  OBVIOUS
<1> QED
  BY <1>2, <1>3, <1>4 DEF Rank

LEMMA RankFalls ==
  ASSUME NEW S \in SUBSET Nat, IsFiniteSet(S), NEW i \in S, NEW j \in S, i < j
  PROVE  Rank(S, j) < Rank(S, i)
<1> DEFINE R == {k \in S : k > j}
           Q == {k \in S : k > i}
<1>0. i \in Nat /\ j \in Nat /\ \A k \in S : k \in Nat
  OBVIOUS
<1>1. R \in SUBSET Q /\ Q \in SUBSET S
  <2>1. \A k \in Nat : k > j => k > i
    BY <1>0
  <2> QED
    BY <1>0, <2>1
<1>2. IsFiniteSet(Q)
  BY <1>1, FS_Subset
<1>3. /\ Cardinality(R) <= Cardinality(Q) /\ IsFiniteSet(R)
      /\ Cardinality(Q) = Cardinality(R) => Q = R
  BY <1>1, <1>2, FS_Subset
<1>4. Cardinality(R) \in Nat /\ Cardinality(Q) \in Nat
  BY <1>2, <1>3, FS_CardinalityType
<1>5. j \in Q /\ j \notin R
  OBVIOUS
<1> QED
  BY <1>3, <1>4, <1>5 DEF Rank

\* Every place is taken: n members have the ranks 0 to n - 1.
LEMMA RankOnto ==
  ASSUME NEW S \in SUBSET Nat, IsFiniteSet(S)
  PROVE  [id \in S |-> Rank(S, id)] \in Bijection(S, 0 .. Cardinality(S) - 1)
<1> DEFINE f == [id \in S |-> Rank(S, id)]
           T == 0 .. Cardinality(S) - 1
<1>1. Cardinality(S) \in Nat
  BY FS_CardinalityType
<1>2. IsFiniteSet(T) /\ Cardinality(T) = Cardinality(S)
  <2>1. PICK n \in Nat : n = Cardinality(S)
    BY <1>1
  <2>2. /\ IsFiniteSet(0 .. n - 1)
        /\ Cardinality(0 .. n - 1) = IF 0 > n - 1 THEN 0 ELSE (n - 1) - 0 + 1
    BY FS_Interval
  <2> QED
    BY <2>1, <2>2
<1>3. f \in [S -> T]
  BY <1>1, RankType
<1>4. ASSUME NEW i \in S, NEW j \in S, f[i] = f[j]
      PROVE  i = j
  <2>1. Rank(S, i) = Rank(S, j) /\ Rank(S, i) \in Nat
    BY <1>4, RankType
  <2>2. i \in Nat /\ j \in Nat
    OBVIOUS
  <2>3. CASE i < j
    BY <2>1, <2>3, RankFalls
  <2>4. CASE j < i
    BY <2>1, <2>4, RankFalls
  <2> QED
    BY <2>2, <2>3, <2>4
<1>5. f \in Injection(S, T)
  BY <1>3, <1>4 DEF Injection, IsInjective
<1>6. f \in Surjection(S, T)
  BY <1>2, <1>5, FS_Injection
<1> QED
  BY <1>5, <1>6 DEF Bijection

\* The form in which it is used.
LEMMA Ranked ==
  ASSUME NEW S \in SUBSET Nat, IsFiniteSet(S), NEW n \in Nat,
         n = Cardinality(S)
  PROVE  /\ \A i \in S : Rank(S, i) \in 0 .. n - 1
         /\ \A i, j \in S : i < j <=> Rank(S, j) < Rank(S, i)
         /\ \A k \in 0 .. n - 1 : \E i \in S : Rank(S, i) = k
<1>1. PICK f : f = [id \in S |-> Rank(S, id)]
  OBVIOUS
<1>2. f \in Bijection(S, 0 .. n - 1)
  BY <1>1, RankOnto
<1>3. /\ f \in [S -> 0 .. n - 1]
      /\ \A k \in 0 .. n - 1 : \E i \in S : f[i] = k
  BY <1>2 DEF Bijection, Injection, Surjection
<1>4. ASSUME NEW i \in S, NEW j \in S
      PROVE  i < j <=> Rank(S, j) < Rank(S, i)
  <2>1. Rank(S, i) \in Nat /\ Rank(S, j) \in Nat
    BY RankType
  <2>2. i < j => Rank(S, j) < Rank(S, i)
    BY RankFalls
  <2>3. j < i => Rank(S, i) < Rank(S, j)
    BY RankFalls
  <2>4. i \in Nat /\ j \in Nat
    OBVIOUS
  <2>5. CASE i = j
    BY <2>1, <2>4, <2>5
  <2>6. CASE i # j
    BY <2>1, <2>2, <2>3, <2>4, <2>6
  <2> QED
    BY <2>5, <2>6
<1> QED
  BY <1>1, <1>3, <1>4

LEMMA MaxOf ==
  ASSUME NEW S \in SUBSET Nat, IsFiniteSet(S), S # {}
  PROVE  Max(S) \in S /\ \A j \in S : j <= Max(S)
<1>1. PICK n \in Nat : n = Cardinality(S)
  BY FS_CardinalityType
<1>2. n > 0
  BY <1>1, FS_EmptySet
<1>3. PICK i \in S : Rank(S, i) = 0
  BY <1>1, <1>2, Ranked
<1>4. ASSUME NEW j \in S PROVE i >= j
  <2>1. Rank(S, j) \in Nat
    BY RankType
  <2>2. ~(i < j)
    BY <1>1, <1>3, <2>1, Ranked
  <2> QED
    BY <2>2
<1>5. \E x \in S : \A y \in S : x >= y
  BY <1>4
<1>6. PICK m : m = Max(S)
  OBVIOUS
<1>7. m \in S /\ \A y \in S : m >= y
  BY <1>5, <1>6 DEF Max
<1> QED
  BY <1>6, <1>7

Increasing(s) == \A i, j \in DOMAIN s : i < j => s[i] < s[j]

LEMMA AscendingOf ==
  ASSUME NEW S \in SUBSET Nat, IsFiniteSet(S), NEW a, a = Ascending(S)
  PROVE  /\ a \in Seq(S) /\ Len(a) = Cardinality(S)
         /\ Increasing(a)
         /\ \A x \in S : \E i \in DOMAIN a : a[i] = x
<1>1. PICK n \in Nat : n = Cardinality(S)
  BY FS_CardinalityType
<1>2. \E s \in [1 .. n -> S] : \A i, j \in DOMAIN s : i < j => s[i] < s[j]
  <2>1. PICK g : g = [k \in 1 .. n |-> CHOOSE i \in S : Rank(S, i) = n - k]
    OBVIOUS
  <2>2. ASSUME NEW k \in 1 .. n
        PROVE  g[k] \in S /\ Rank(S, g[k]) = n - k
    <3>1. n - k \in 0 .. n - 1
      OBVIOUS
    <3>2. \E i \in S : Rank(S, i) = n - k
      BY <1>1, <3>1, Ranked
    <3> QED
      BY <2>1, <3>2
  <2>3. ASSUME NEW k \in 1 .. n, NEW l \in 1 .. n, k < l
        PROVE  g[k] < g[l]
    <3>1. n - l < n - k
      BY <2>3
    <3>2. PICK x \in S : x = g[k] /\ Rank(S, x) = n - k
      BY <2>2
    <3>3. PICK y \in S : y = g[l] /\ Rank(S, y) = n - l
      BY <2>2
    <3>4. x < y <=> Rank(S, y) < Rank(S, x)
      BY <1>1, Ranked
    <3> QED
      BY <3>1, <3>2, <3>3, <3>4
  <2>4. g \in [1 .. n -> S] /\ DOMAIN g = 1 .. n
    BY <2>1, <2>2
  <2> QED
    BY <2>3, <2>4
<1>3. /\ a \in [1 .. n -> S]
      /\ \A i, j \in DOMAIN a : i < j => a[i] < a[j]
  BY <1>1, <1>2 DEF Ascending
<1>4. a \in Seq(S) /\ Len(a) = n /\ DOMAIN a = 1 .. n
  BY <1>3
<1>5. a \in Injection(1 .. n, S)
  <2>1. ASSUME NEW i \in 1 .. n, NEW j \in 1 .. n, a[i] = a[j]
        PROVE  i = j
    <3>1. a[i] \in Nat /\ i \in Nat /\ j \in Nat
      <4>1. PICK x : x = a[i]
        OBVIOUS
      <4>2. x \in S
        BY <1>3, <4>1
      <4>3. x \in Nat
        BY <4>2
      <4> QED
        BY <4>1, <4>3
    <3>2. CASE i < j
      BY <1>3, <2>1, <3>1, <3>2
    <3>3. CASE j < i
      BY <1>3, <2>1, <3>1, <3>3
    <3> QED
      BY <3>1, <3>2, <3>3
  <2> QED
    BY <1>3, <2>1 DEF Injection, IsInjective
<1>6. IsFiniteSet(1 .. n) /\ Cardinality(1 .. n) = n
  BY FS_Interval
<1>7. a \in Surjection(1 .. n, S)
  BY <1>1, <1>5, <1>6, FS_Injection
<1> QED
  BY <1>1, <1>3, <1>4, <1>7 DEF Surjection, Increasing

-----------------------------------------------------------------------------
(***************************************************************************)
(* Rows: the newest of a channel, and the page they are appended to.       *)
(***************************************************************************)
LEMMA IdsOf ==
  ASSUME NEW S \in SUBSET Row, IsFiniteSet(S),
         \A r, s \in S : r.id = s.id => r = s
  PROVE  /\ Ids(S) \in SUBSET Nat /\ IsFiniteSet(Ids(S))
         /\ Cardinality(Ids(S)) = Cardinality(S)
<1>1. Ids(S) \in SUBSET Nat
  BY DEF Ids, Row
<1>2. PICK I : I = Ids(S)
  OBVIOUS
<1>3. PICK f : f = [r \in S |-> r.id]
  OBVIOUS
<1>4. f \in Bijection(S, I)
  <2>1. f \in [S -> I]
    BY <1>2, <1>3 DEF Ids
  <2>2. \A r, s \in S : f[r] = f[s] => r = s
    BY <1>3
  <2>3. \A i \in I : \E r \in S : f[r] = i
    BY <1>2, <1>3 DEF Ids
  <2> QED
    BY <2>1, <2>2, <2>3 DEF Bijection, Injection, IsInjective, Surjection
<1>5. IsFiniteSet(I) /\ Cardinality(S) = Cardinality(I)
  BY <1>4, FS_Bijection DEF ExistsBijection
<1> QED
  BY <1>1, <1>2, <1>5

\* Who is not among the newest is older than all of them, and they are as many
\* as the LIMIT allows.
LEMMA CutOff ==
  ASSUME NEW S \in SUBSET Row, IsFiniteSet(S),
         \A r, s \in S : r.id = s.id => r = s,
         NEW n \in Nat, NEW r \in S, r \notin Newest(S, n)
  PROVE  /\ \A s \in Newest(S, n) : r.id < s.id
         /\ Cardinality(Newest(S, n)) >= n
<1>1. PICK I \in SUBSET Nat : I = Ids(S) /\ IsFiniteSet(I)
  BY IdsOf
<1>2. PICK k \in Nat : k = Cardinality(I)
  BY <1>1, FS_CardinalityType
<1>r. \A s \in S : s.id \in I /\ s.id \in Nat
  BY <1>1 DEF Ids, Row
<1>3. ASSUME NEW s \in S
      PROVE  Cardinality({t \in S : t.id > s.id}) = Rank(I, s.id)
  <2>1. PICK Q : Q = {t \in S : t.id > s.id}
    OBVIOUS
  <2>2. Q \in SUBSET Row /\ IsFiniteSet(Q) /\ Q \in SUBSET S
    BY <2>1, FS_Subset
  <2>3. Cardinality(Ids(Q)) = Cardinality(Q)
    BY <2>2, IdsOf
  <2>4. Ids(Q) = {j \in I : j > s.id}
    BY <1>1, <2>1 DEF Ids
  <2> QED
    BY <2>1, <2>3, <2>4 DEF Rank
<1>4. ~(Rank(I, r.id) < n)
  BY <1>3 DEF Newest
<1>5. Rank(I, r.id) \in 0 .. k - 1
  BY <1>1, <1>2, <1>r, Ranked
<1>6. n <= k /\ \A j \in 0 .. n - 1 : j \in 0 .. k - 1
  BY <1>4, <1>5
<1>7. PICK W : W = Newest(S, n)
  OBVIOUS
<1>8. W \in SUBSET S /\ \A s \in S : s \in W <=> Rank(I, s.id) < n
  BY <1>3, <1>7 DEF Newest
<1>9. ASSUME NEW s \in W PROVE r.id < s.id
  <2>1. s \in S /\ Rank(I, s.id) < n
    BY <1>8
  <2>2. Rank(I, s.id) \in 0 .. k - 1
    BY <1>1, <1>2, <1>r, <2>1, Ranked
  <2>3. Rank(I, s.id) < Rank(I, r.id)
    BY <1>4, <1>5, <2>1, <2>2
  <2> QED
    BY <1>1, <1>2, <1>r, <2>1, <2>3, Ranked
<1>10. Cardinality(W) >= n
  <2>1. PICK f : f = [s \in W |-> Rank(I, s.id)]
    OBVIOUS
  <2>2. f \in Surjection(W, 0 .. n - 1)
    <3>1. ASSUME NEW s \in W PROVE f[s] \in 0 .. n - 1
      <4>1. Rank(I, s.id) < n /\ s \in S
        BY <1>8
      <4>2. Rank(I, s.id) \in 0 .. k - 1
        BY <1>1, <1>2, <1>r, <4>1, Ranked
      <4> QED
        BY <2>1, <4>1, <4>2
    <3>2. ASSUME NEW j \in 0 .. n - 1 PROVE \E s \in W : f[s] = j
      <4>1. j \in 0 .. k - 1
        BY <1>6
      <4>2. PICK i \in I : Rank(I, i) = j
        BY <1>1, <1>2, <4>1, Ranked
      <4>3. PICK s \in S : s.id = i
        BY <1>1, <4>2 DEF Ids
      <4> QED
        BY <1>8, <2>1, <4>2, <4>3
    <3> QED
      BY <2>1, <3>1, <3>2 DEF Surjection
  <2>3. IsFiniteSet(W)
    BY <1>8, FS_Subset
  <2>4. IsFiniteSet(0 .. n - 1) /\ Cardinality(0 .. n - 1) = n
    <3>1. Cardinality(0 .. n - 1) = IF 0 > n - 1 THEN 0 ELSE (n - 1) - 0 + 1
      BY FS_Interval
    <3> QED
      BY <3>1, FS_Interval
  <2>5. Cardinality(0 .. n - 1) <= Cardinality(W)
    BY <2>2, <2>3, FS_Surjection
  <2>6. Cardinality(W) \in Nat
    BY <2>3, FS_CardinalityType
  <2> QED
    BY <2>4, <2>5, <2>6
<1> QED
  BY <1>7, <1>9, <1>10

\* append shows the old messages and the new ones in order, and drops none but
\* the oldest.
LEMMA Appended ==
  ASSUME NEW old \in Seq(Nat), Increasing(old), NEW last \in Nat,
         \A i \in DOMAIN old : old[i] <= last,
         NEW rows \in SUBSET Row, IsFiniteSet(rows),
         \A r, s \in rows : r.id = s.id => r = s,
         \A r \in rows : last < r.id,
         NEW new, new = Append100(old, rows)
  PROVE  /\ new \in Seq(Nat) /\ Increasing(new) /\ Len(new) <= Trim
         /\ \A i \in DOMAIN new : new[i] \in Range(old) \cup Ids(rows)
         /\ \A x \in Range(old) \cup Ids(rows) :
              x \in Range(new) \/ (Len(new) >= Trim /\ x < Head(new))
         /\ \A x \in Nat : Len(old) >= Trim /\ x < Head(old) =>
                             Len(new) >= Trim /\ x < Head(new)
         /\ Cardinality(rows) >= Trim =>
              Len(new) >= Trim /\ Head(new) \in Ids(rows)
<1>S. PICK S \in SUBSET Nat : /\ S = Ids(rows) /\ IsFiniteSet(S)
                              /\ Cardinality(S) = Cardinality(rows)
  BY IdsOf
<1>a. PICK a : a = Ascending(S)
  OBVIOUS
<1>1. /\ a \in Seq(S) /\ Len(a) = Cardinality(S) /\ Increasing(a)
      /\ \A x \in S : \E i \in DOMAIN a : a[i] = x
  BY <1>S, <1>a, AscendingOf
<1>m. PICK m \in Nat : m = Len(a)
  BY <1>1
<1>k. PICK k \in Nat : k = Len(old)
  OBVIOUS
<1>2. /\ \A i \in 1 .. m : a[i] \in S /\ a[i] \in Nat /\ last < a[i]
      /\ \A i, j \in 1 .. m : i < j => a[i] < a[j]
      /\ \A x \in S : \E i \in 1 .. m : a[i] = x
  <2>1. DOMAIN a = 1 .. m
    BY <1>1, <1>m
  <2>2. ASSUME NEW i \in 1 .. m PROVE a[i] \in S
    BY <1>1, <1>m, <2>2
  <2>3. \A x \in S : x \in Nat /\ last < x
    BY <1>S DEF Ids
  <2> QED
    BY <1>1, <2>1, <2>2, <2>3 DEF Increasing
<1>3. /\ \A i \in 1 .. k : old[i] \in Nat /\ old[i] <= last
      /\ \A i, j \in 1 .. k : i < j => old[i] < old[j]
      /\ DOMAIN old = 1 .. k
  <2>1. DOMAIN old = 1 .. k
    BY <1>k
  <2>2. ASSUME NEW i \in 1 .. k PROVE old[i] \in Nat /\ old[i] <= last
    BY <1>k, <2>1
  <2>3. \A i, j \in 1 .. k : i < j => old[i] < old[j]
    BY <2>1 DEF Increasing
  <2> QED
    BY <2>1, <2>2, <2>3
<1>o. PICK all : all = old \o a
  OBVIOUS
<1>4. /\ all \in Seq(Nat) /\ Len(all) = k + m
      /\ \A i \in 1 .. k : all[i] = old[i]
      /\ \A i \in 1 .. m : all[k + i] = a[i]
  <2>1. a \in Seq(Nat)
    BY <1>1, <1>S
  <2> QED
    BY <1>o, <1>m, <1>k, <2>1
<1>5. \A i \in k + 1 .. k + m : i - k \in 1 .. m /\ all[i] = a[i - k]
  <2> TAKE i \in k + 1 .. k + m
  <2>1. PICK j \in 1 .. m : j = i - k /\ k + j = i
    OBVIOUS
  <2> QED
    BY <1>4, <2>1
<1>6. ASSUME NEW i \in 1 .. k + m, NEW j \in 1 .. k + m, i < j
      PROVE  all[i] < all[j]
  <2>1. CASE j <= k
    BY <1>3, <1>4, <1>6, <2>1
  <2>2. CASE i > k
    <3>1. i - k \in 1 .. m /\ j - k \in 1 .. m /\ i - k < j - k
      BY <1>6, <2>2
    <3>2. all[i] = a[i - k] /\ all[j] = a[j - k]
      BY <1>5, <1>6, <2>2
    <3> QED
      BY <1>2, <3>1, <3>2
  <2>3. CASE i <= k /\ j > k
    <3>1. all[i] = old[i] /\ old[i] \in Nat /\ old[i] <= last
      BY <1>3, <1>4, <2>3
    <3>2. all[j] = a[j - k] /\ j - k \in 1 .. m
      BY <1>5, <2>3
    <3>3. a[j - k] \in Nat /\ last < a[j - k]
      BY <1>2, <3>2
    <3> QED
      BY <3>1, <3>2, <3>3
  <2> QED
    BY <2>1, <2>2, <2>3
<1>t. Trim \in Nat /\ Trim >= 1
  BY TabsAssumption, NumbersAssumption
<1>off. PICK off \in Nat : off = IF k + m <= Trim THEN 0 ELSE k + m - Trim
  <2>1. CASE k + m <= Trim
    BY <2>1
  <2>2. CASE ~(k + m <= Trim)
    <3>1. k + m - Trim \in Nat
      BY <1>t, <2>2
    <3> QED
      BY <2>2, <3>1
  <2> QED
    BY <2>1, <2>2
<1>f. \/ off = 0 /\ k + m <= Trim
      \/ off > 0 /\ k + m = off + Trim
  <2>1. CASE k + m <= Trim
    BY <1>off, <2>1
  <2>2. CASE ~(k + m <= Trim)
    <3>1. off = k + m - Trim
      BY <1>off, <2>2
    <3> QED
      BY <1>t, <2>2, <3>1
  <2> QED
    BY <2>1, <2>2
<1>n. PICK n \in Nat : n = k + m - off /\ off + n = k + m
  <2>1. k + m - off \in Nat
    BY <1>t, <1>f
  <2> QED
    BY <2>1
<1>7. /\ off > 0 => n = Trim
      /\ k + m >= Trim => n = Trim
      /\ off = 0 => k + m <= Trim
      /\ n <= Trim
  BY <1>t, <1>f, <1>n
<1>A. new = IF Len(all) <= Trim THEN all
            ELSE SubSeq(all, Len(all) - Trim + 1, Len(all))
  BY <1>S, <1>a, <1>o DEF Append100
<1>8. /\ new \in Seq(Nat) /\ Len(new) = n
      /\ \A i \in 1 .. n : new[i] = all[i + off]
  <2>1. CASE off = 0
    <3>1. new = all
      BY <1>4, <1>7, <1>A, <2>1
    <3> QED
      BY <1>4, <1>n, <2>1, <3>1
  <2>2. CASE off > 0
    <3>1. /\ ~(k + m <= Trim) /\ off = k + m - Trim
          /\ off + 1 >= 1 /\ off + 1 <= k + m + 1
      BY <1>t, <1>f, <2>2
    <3>2. new = SubSeq(all, off + 1, k + m)
      <4>1. new = SubSeq(all, k + m - Trim + 1, k + m)
        <5>1. Len(all) = k + m
          BY <1>4
        <5>2. ~(Len(all) <= Trim)
          BY <3>1, <5>1
        <5>3. new = SubSeq(all, Len(all) - Trim + 1, Len(all))
          BY <1>A, <5>2
        <5>4. Len(all) - Trim + 1 = k + m - Trim + 1
          BY <1>t, <5>1
        <5> QED
          BY <5>1, <5>3, <5>4, Zenon
      <4>2. k + m - Trim + 1 = off + 1
        BY <1>t, <3>1
      <4> QED
        BY <4>1, <4>2
    <3>3. PICK from \in Nat : from = off + 1 /\ 1 <= from /\ from <= k + m + 1
      BY <3>1
    <3>4. PICK to \in Nat : to = k + m
      OBVIOUS
    <3>5. /\ SubSeq(all, from, to) \in Seq(Nat)
          /\ Len(SubSeq(all, from, to)) = to - from + 1
          /\ \A i \in 1 .. to - from + 1 :
                SubSeq(all, from, to)[i] = all[from + i - 1]
      BY <1>4, <3>3, <3>4
    <3>6. new = SubSeq(all, from, to) /\ to - from + 1 = n
      BY <1>n, <3>2, <3>3, <3>4
    <3>7. \A i \in 1 .. n : from + i - 1 = i + off
      BY <3>3
    <3> QED
      BY <3>5, <3>6, <3>7
  <2> QED
    BY <2>1, <2>2
<1>9. \A i \in 1 .. n : i + off \in 1 .. k + m
  BY <1>n
<1>10. DOMAIN new = 1 .. n
  BY <1>8
<1>11. Increasing(new)
  <2> SUFFICES ASSUME NEW i \in 1 .. n, NEW j \in 1 .. n, i < j
               PROVE  new[i] < new[j]
    BY <1>10 DEF Increasing
  <2>1. /\ i + off \in 1 .. k + m /\ j + off \in 1 .. k + m
        /\ i + off < j + off
    BY <1>9
  <2> QED
    BY <1>6, <1>8, <2>1
<1>12. \A i \in 1 .. k + m : all[i] \in Range(old) \cup S
  <2> TAKE i \in 1 .. k + m
  <2>1. CASE i <= k
    <3>1. i \in DOMAIN old /\ all[i] = old[i]
      BY <1>3, <1>4, <2>1
    <3> QED
      BY <3>1 DEF Range
  <2>2. CASE i > k
    BY <1>2, <1>5, <2>2
  <2> QED
    BY <2>1, <2>2
<1>13. ASSUME NEW x, x \in Range(old) \cup S
       PROVE  \E i \in 1 .. k + m : all[i] = x
  <2>1. CASE x \in Range(old)
    <3>1. PICK i \in 1 .. k : old[i] = x
      BY <1>3, <2>1 DEF Range
    <3> QED
      BY <1>4, <3>1
  <2>2. CASE x \in S
    <3>1. PICK i \in 1 .. m : a[i] = x
      BY <1>2, <2>2
    <3>2. k + i \in 1 .. k + m /\ all[k + i] = x
      BY <1>4, <3>1
    <3> QED
      BY <3>2
  <2> QED
    BY <1>13, <2>1, <2>2
<1>14. n >= 1 => Head(new) = all[off + 1] /\ off + 1 \in 1 .. k + m
  <2> SUFFICES ASSUME n >= 1
               PROVE  Head(new) = all[off + 1] /\ off + 1 \in 1 .. k + m
    OBVIOUS
  <2>1. 1 \in 1 .. n /\ 1 + off = off + 1
    OBVIOUS
  <2>2. Head(new) = new[1]
    BY <1>8, <2>1
  <2> QED
    BY <1>8, <1>9, <2>1, <2>2
<1>15. ASSUME NEW i \in 1 .. k + m
       PROVE  all[i] \in Range(new) \/ (n >= Trim /\ all[i] < Head(new))
  <2>1. CASE i <= off
    <3>1. n = Trim /\ n >= 1
      BY <1>7, <1>t, <2>1
    <3>2. i < off + 1
      BY <2>1
    <3>3. all[i] < Head(new)
      BY <1>6, <1>14, <3>1, <3>2
    <3> QED
      BY <1>t, <3>1, <3>3
  <2>2. CASE i > off
    <3>1. PICK j \in 1 .. n : j = i - off /\ j + off = i
      BY <1>n, <2>2
    <3>2. new[j] = all[i]
      BY <1>8, <3>1
    <3> QED
      BY <1>10, <3>2 DEF Range
  <2> QED
    BY <2>1, <2>2
<1>16. ASSUME NEW x \in Nat, k >= Trim, x < Head(old)
       PROVE  n >= Trim /\ x < Head(new)
  <2>1. n = Trim /\ n >= 1 /\ k >= 1 /\ 1 \in 1 .. k
    BY <1>7, <1>t, <1>16
  <2>2. Head(old) = old[1] /\ old[1] = all[1] /\ all[1] \in Nat
    BY <1>3, <1>4, <1>k, <2>1
  <2>3. Head(new) = all[off + 1] /\ off + 1 \in 1 .. k + m
    BY <1>14, <2>1
  <2>4. all[off + 1] \in Nat
    BY <1>4, <2>3
  <2>5. 1 < off + 1 => all[1] < all[off + 1]
    BY <1>6, <2>3
  <2>6. 1 = off + 1 \/ 1 < off + 1
    OBVIOUS
  <2> QED
    BY <1>t, <1>16, <2>1, <2>2, <2>3, <2>4, <2>5, <2>6
<1>17. ASSUME m >= Trim PROVE n >= Trim /\ Head(new) \in S
  <2>1. n = Trim /\ n >= 1
    BY <1>7, <1>t, <1>17
  <2>2. off + 1 > k /\ off + 1 \in k + 1 .. k + m
    BY <1>n, <1>t, <1>17, <2>1
  <2>3. all[off + 1] \in S
    BY <1>2, <1>5, <2>2
  <2> QED
    BY <1>14, <1>t, <2>1, <2>3
<1>18. \A i \in DOMAIN new : new[i] \in Range(old) \cup S
  BY <1>8, <1>9, <1>10, <1>12
<1>19. \A x \in Range(old) \cup S :
         x \in Range(new) \/ (n >= Trim /\ x < Head(new))
  BY <1>13, <1>15
<1>20. Cardinality(rows) = m
  BY <1>S, <1>1, <1>m
<1> QED
  BY <1>S, <1>k, <1>7, <1>8, <1>11, <1>16, <1>17, <1>18, <1>19, <1>20

-----------------------------------------------------------------------------
(***************************************************************************)
(* The inductive invariant.                                                *)
(***************************************************************************)
\* No post is accepted that would need an id above MaxMessage.
Room ==
    /\ IsFiniteSet(Accepted)
    /\ nextMessage + Cardinality(Accepted) <= MaxMessage + 1

\* The fields of a handler by the request it serves: nothing is deleted, an
\* answer to /fetch holds no messages and one to /message no counts.
ByRequest(H) ==
    /\ H.pc \notin {DelUser, DelChannel, DelMessage, DelHaveread}
    /\ H.pc \in {ReadMark, Count} => H.rows = {}
    /\ H.unread # {} => H.rows = {}
    /\ H.pc \in {Insert, Commit, Jsonify, Upsert} => H.unread = {}

\* r is a message the page has to do without: it became visible after a newer
\* one, or the LIMIT cut it off.
Missed(r, rows) ==
    \/ r.id \in late
    \/ Cardinality(rows) >= Limit /\ \A n \in rows : r.id < n.id

\* What a request of a tab holds follows what the tab knows, without a hole.
Follows(H, T, t) ==
    /\ H.pc \in {Jsonify, Upsert, ReadMark, Count, "reply"}
    /\ H.pc \in {Jsonify, Upsert} =>
         H.user = Owner[t] /\ H.channel_id = Page[t]
    /\ H.rows \subseteq InChannel(Page[t])
    /\ \A r \in H.rows : T.last < r.id
    /\ \A r \in InChannel(Page[t]) \ H.rows :
          T.last < r.id /\ (\E n \in H.rows : r.id <= n.id)
             => Missed(r, H.rows)

Flights ==
    /\ \A t \in Tabs : \A h \in tab[t].requests :
         Follows(handler[h], tab[t], t)
    /\ \A t \in Tabs : \A g, h \in tab[t].requests : g = h
    /\ \A s, t \in Tabs : s # t => tab[s].requests \cap tab[t].requests = {}

\* r is on the page, or the page does without it.
Shown(T, r) ==
    \/ r.id \in Range(T.timeline)
    \/ r.id \in late
    \/ Len(T.timeline) >= Trim /\ r.id < Head(T.timeline)

Timeline(T, t) ==
    /\ Increasing(T.timeline) /\ Len(T.timeline) <= Trim
    /\ \A i \in DOMAIN T.timeline : T.timeline[i] <= T.last
    /\ T.last = 0 \/ \E n \in InChannel(Page[t]) : n.id = T.last
    /\ \A r \in InChannel(Page[t]) : r.id <= T.last => Shown(T, r)

Timelines == \A t \in Tabs : Timeline(tab[t], t)

\* A reader whose answer no page awaits has left a note.
Abandoned ==
    \A h \in Reading :
       \/ \E t \in Tabs : h \in tab[t].requests
       \/ \A r \in handler[h].rows :
             <<handler[h].user, handler[h].channel_id, r.id>> \in lost

\* The newest id a tab has moved the mark to: that of the answer on its way to
\* the tab, once the mark is written, or else the newest the tab knows.
Upserted(t) == {h \in tab[t].requests : /\ handler[h].pc = "reply"
                                        /\ handler[h].status = 200
                                        /\ handler[h].rows # {}}

Claims(t, m) ==
    /\ Upserted(t) = {} => m = tab[t].last
    /\ \A h \in Upserted(t) : \E r \in handler[h].rows :
          r.id = m /\ IsFirst(r, handler[h].rows)

Marks ==
    \A u \in Users, c \in Channels :
       \/ haveread[u][c] = 0
       \/ \E t \in Tabs : /\ Owner[t] = u /\ Page[t] = c
                          /\ Claims(t, haveread[u][c])
       \/ <<u, c, haveread[u][c]>> \in lost

TabInv ==
    /\ TypeOK /\ MarksInv /\ TabTypeOK
    /\ Room
    /\ \A h \in Handlers : ByRequest(handler[h])
    /\ Flights /\ Timelines /\ Abandoned /\ Marks

-----------------------------------------------------------------------------
(***************************************************************************)
(* What the invariant says of one tab and of the rows there are.           *)
(***************************************************************************)
LEMMA RowsBound ==
  ASSUME TypeOK, FreshIds, Room
  PROVE  /\ \A r \in message : r.id \in 1 .. MaxMessage /\ r.id < nextMessage
         /\ nextMessage \in Nat /\ nextMessage >= 1
<1>1. PICK k \in Nat : k = Cardinality(Accepted)
  BY FS_CardinalityType DEF Room
<1>2. nextMessage \in Nat /\ nextMessage >= 1 /\ MaxMessage \in Nat
      /\ nextMessage + k <= MaxMessage + 1
  BY <1>1, NumbersAssumption DEF TypeOK, Room
<1>3. ASSUME NEW r \in message
      PROVE  r.id \in 1 .. MaxMessage /\ r.id < nextMessage
  <2>1. r.id \in Nat \ {0} /\ r.id < nextMessage
    BY DEF TypeOK, FreshIds, Row
  <2> QED
    BY <1>2, <2>1
<1> QED
  BY <1>2, <1>3

LEMMA ChannelRows ==
  ASSUME TypeOK, FreshIds, NEW c
  PROVE  /\ InChannel(c) \in SUBSET Row /\ IsFiniteSet(InChannel(c))
         /\ InChannel(c) \subseteq message
         /\ \A r, s \in InChannel(c) : r.id = s.id => r = s
         /\ \A r \in InChannel(c) : r.id \in Nat
<1>1. InChannel(c) \subseteq message
  BY DEF InChannel
<1>2. IsFiniteSet(InChannel(c))
  BY <1>1, FS_Subset DEF TypeOK
<1>3. InChannel(c) \in SUBSET Row
  BY <1>1 DEF TypeOK
<1>4. \A r \in Row : r.id \in Nat
  BY DEF Row
<1> QED
  BY <1>1, <1>2, <1>3, <1>4 DEF FreshIds

LEMMA TabFacts ==
  ASSUME TabInv, NEW t \in Tabs
  PROVE  /\ Owner[t] \in Users /\ Owner[t] \in InitialUsers
         /\ Page[t] \in Channels
         /\ tab[t] \in Tab /\ Timeline(tab[t], t)
         /\ tab[t].last \in 0 .. MaxMessage /\ tab[t].last < nextMessage
         /\ tab[t].requests \subseteq Handlers
<1>1. /\ Owner[t] \in Users /\ Owner[t] \in InitialUsers
      /\ Page[t] \in Channels
  BY TabsAssumption, SetsAssumption
<1>2. tab[t] \in Tab /\ Timeline(tab[t], t)
  BY DEF TabInv, TabTypeOK, Timelines
<1>3. tab[t].last \in 0 .. MaxMessage /\ tab[t].requests \subseteq Handlers
  BY <1>2 DEF Tab
<1>4. tab[t].last < nextMessage
  <2>1. /\ \A r \in message : r.id < nextMessage
        /\ nextMessage \in Nat /\ nextMessage >= 1
    BY RowsBound DEF TabInv, MarksInv
  <2>2. CASE tab[t].last = 0
    BY <2>1, <2>2
  <2>3. CASE tab[t].last # 0
    <3>1. PICK n \in InChannel(Page[t]) : n.id = tab[t].last
      BY <1>2, <2>3 DEF Timeline
    <3> QED
      BY <2>1, <3>1 DEF InChannel
  <2> QED
    BY <2>2, <2>3
<1> QED
  BY <1>1, <1>2, <1>3, <1>4

LEMMA FlightFacts ==
  ASSUME TabInv, NEW t \in Tabs, NEW h \in tab[t].requests
  PROVE  /\ h \in Handlers /\ handler[h] \in Handler
         /\ Follows(handler[h], tab[t], t) /\ ByRequest(handler[h])
         /\ handler[h] # Idle
         /\ tab[t].requests = {h}
         /\ handler[h].rows \in SUBSET Row /\ IsFiniteSet(handler[h].rows)
         /\ \A r, s \in handler[h].rows : r.id = s.id => r = s
         /\ \A r \in handler[h].rows : r.id \in 1 .. MaxMessage
<1>1. h \in Handlers
  BY TabFacts
<1>2. handler[h] \in Handler /\ ByRequest(handler[h])
  BY <1>1 DEF TabInv, TypeOK
<1>3. Follows(handler[h], tab[t], t) /\ tab[t].requests = {h}
  BY DEF TabInv, Flights
<1>4. handler[h] # Idle
  BY <1>3 DEF Follows, Idle, Jsonify, Upsert, ReadMark, Count
<1>5. handler[h].rows \subseteq InChannel(Page[t])
  BY <1>3 DEF Follows
<1>6. /\ InChannel(Page[t]) \in SUBSET Row
      /\ IsFiniteSet(InChannel(Page[t]))
      /\ InChannel(Page[t]) \subseteq message
      /\ \A r, s \in InChannel(Page[t]) : r.id = s.id => r = s
  BY ChannelRows DEF TabInv, MarksInv
<1>7. IsFiniteSet(handler[h].rows)
  BY <1>5, <1>6, FS_Subset
<1>8. \A r \in message : r.id \in 1 .. MaxMessage
  BY RowsBound DEF TabInv, MarksInv
<1> QED
  BY <1>1, <1>2, <1>3, <1>4, <1>5, <1>6, <1>7, <1>8

LEMMA HeldIs ==
  ASSUME NEW t \in Tabs, NEW id
  PROVE  id \in Held(t) <=> \/ id = tab[t].last
                            \/ \E h \in tab[t].requests :
                                  \E r \in handler[h].rows : id = r.id
<1>1. PICK Q : Q = tab[t].requests
  OBVIOUS
<1>2. PICK U : U = UNION {Ids(handler[h].rows) : h \in Q}
  OBVIOUS
<1>3. id \in U <=> \E h \in Q : id \in Ids(handler[h].rows)
  <2>1. id \in U <=> \E z \in {Ids(handler[h].rows) : h \in Q} : id \in z
    BY <1>2
  <2>2. (\E z \in {Ids(handler[h].rows) : h \in Q} : id \in z) <=>
        \E h \in Q : id \in Ids(handler[h].rows)
    OBVIOUS
  <2> QED
    BY <2>1, <2>2
<1>4. Held(t) = U \cup {tab[t].last}
  BY <1>1, <1>2 DEF Held
<1>5. \A h \in Q : id \in Ids(handler[h].rows) <=>
                     \E r \in handler[h].rows : id = r.id
  BY DEF Ids
<1> QED
  BY <1>1, <1>3, <1>4, <1>5

\* A tab notes only ids there are.
LEMMA NoteType ==
  ASSUME TabInv, NEW t \in Tabs
  PROVE  /\ Note(t, Held(t)) \subseteq Users \X Channels \X (0 .. MaxMessage)
         /\ <<Owner[t], Page[t], tab[t].last>> \in Note(t, Held(t))
         /\ \A h \in tab[t].requests : \A r \in handler[h].rows :
               <<Owner[t], Page[t], r.id>> \in Note(t, Held(t))
<1>1. ASSUME NEW id \in Held(t) PROVE id \in 0 .. MaxMessage
  <2>1. CASE id = tab[t].last
    BY <2>1, TabFacts
  <2>2. CASE id # tab[t].last
    <3>1. PICK h \in tab[t].requests : \E r \in handler[h].rows : id = r.id
      BY <1>1, <2>2, HeldIs
    <3>2. PICK r \in handler[h].rows : id = r.id
      BY <3>1
    <3>3. \A s \in handler[h].rows : s.id \in 1 .. MaxMessage
      BY FlightFacts
    <3>4. id \in 1 .. MaxMessage
      BY <3>2, <3>3
    <3>5. \A i \in 1 .. MaxMessage : i \in 0 .. MaxMessage
      BY NumbersAssumption
    <3> QED
      BY <3>4, <3>5
  <2> QED
    BY <2>1, <2>2
<1>2. Owner[t] \in Users /\ Page[t] \in Channels
  BY TabFacts
<1>3. tab[t].last \in Held(t)
  BY HeldIs
<1>4. ASSUME NEW h \in tab[t].requests, NEW r \in handler[h].rows
      PROVE  r.id \in Held(t)
  BY HeldIs
<1>5. PICK H : H = Held(t)
  OBVIOUS
<1>6. Note(t, Held(t)) = {<<Owner[t], Page[t], id>> : id \in H}
  BY <1>5 DEF Note
<1>7. \A id \in H : id \in 0 .. MaxMessage
  BY <1>1, <1>5
<1>8. tab[t].last \in H
  BY <1>3, <1>5
<1>9. \A h \in tab[t].requests : \A r \in handler[h].rows : r.id \in H
  BY <1>4, <1>5
<1>10. \A id \in H :
         <<Owner[t], Page[t], id>> \in Users \X Channels \X (0 .. MaxMessage)
  BY <1>2, <1>7
<1>11. \A id \in H : <<Owner[t], Page[t], id>> \in Note(t, Held(t))
  BY <1>6
<1>12. Note(t, Held(t)) \subseteq Users \X Channels \X (0 .. MaxMessage)
  <2> SUFFICES ASSUME NEW x \in Note(t, Held(t))
               PROVE  x \in Users \X Channels \X (0 .. MaxMessage)
    OBVIOUS
  <2>1. PICK id \in H : x = <<Owner[t], Page[t], id>>
    BY <1>6
  <2> QED
    BY <1>10, <2>1
<1> QED
  BY <1>8, <1>9, <1>11, <1>12

-----------------------------------------------------------------------------
(***************************************************************************)
(* The server's part of a step.                                            *)
(***************************************************************************)
\* The steps of the tabs and of the server are steps of module Chat.
LEMMA StepsAreChat ==
  ASSUME TabInv, [TabNext]_allVars
  PROVE  [Next]_vars
<1>1. ASSUME NEW t \in Tabs, NEW h \in Handlers, Open(t, h)
      PROVE  Next
  <2>1. GetMessage(h, Owner[t], Page[t], 0)
    BY <1>1 DEF Open
  <2>2. 0 \in 0 .. nextMessage - 1
    BY RowsBound DEF TabInv, MarksInv
  <2> QED
    BY <2>1, <2>2, TabFacts DEF Next, Request
<1>2. ASSUME NEW t \in Tabs, NEW h \in Handlers, SendGet(t, h)
      PROVE  Next
  <2>1. GetMessage(h, Owner[t], Page[t], tab[t].last)
    BY <1>2 DEF SendGet
  <2>2. tab[t].last \in 0 .. nextMessage - 1
    <3>1. nextMessage \in Nat /\ MaxMessage \in Nat
      BY RowsBound, NumbersAssumption DEF TabInv, MarksInv
    <3> QED
      BY <3>1, TabFacts
  <2> QED
    BY <2>1, <2>2, TabFacts DEF Next, Request
<1>3. ASSUME NEW t \in Tabs, NEW h \in Handlers, Send(t, h)
      PROVE  Next
  BY <1>3, TabFacts DEF Send, Next, Request
<1>4. ASSUME NEW t \in Tabs, NEW h \in Handlers, Poll(t, h)
      PROVE  Next
  BY <1>4, TabFacts DEF Poll, Next, Request
<1>5. ASSUME NEW t \in Tabs, NEW h \in Handlers,
             ReceiveMessages(t, h) \/ ReceiveFetch(t, h) \/ Refused(t, h)
      PROVE  Next
  BY <1>5 DEF ReceiveMessages, ReceiveFetch, Refused, Answered, Next
<1>6. ASSUME NEW t \in Tabs, RequestLost(t) PROVE UNCHANGED vars
  BY <1>6 DEF RequestLost
<1>7. ASSUME NEW h \in Handlers, Serve(h) \/ Unheard(h) PROVE Next
  BY <1>7 DEF Serve, Unheard, Next
<1>8. ASSUME UNCHANGED allVars PROVE UNCHANGED vars
  BY <1>8 DEF allVars
<1> QED
  BY <1>1, <1>2, <1>3, <1>4, <1>5, <1>6, <1>7, <1>8 DEF TabNext, TabStep

LEMMA ServerKept ==
  ASSUME TabInv, [TabNext]_allVars
  PROVE  TypeOK' /\ MarksInv'
<1>1. [Next]_vars
  BY StepsAreChat
<1> QED
  BY <1>1, NextType, NextMarks DEF TabInv

\* One handler moves from K to H, the others stay.
Moves(h, K, H) == /\ handler[h] = K
                  /\ handler' = [handler EXCEPT ![h] = H]

LEMMA Moved ==
  ASSUME TypeOK, NEW h \in Handlers, NEW K, NEW H, Moves(h, K, H)
  PROVE  /\ handler'[h] = H
         /\ \A g \in Handlers : g # h => handler'[g] = handler[g]
  BY DEF Moves, TypeOK

\* A post is accepted within the bound, and an id is given to it once.
LEMMA RoomKept ==
  ASSUME TypeOK, Room, NEW h \in Handlers, NEW K, NEW H, Moves(h, K, H),
         \/ H.pc # Insert /\ nextMessage' = nextMessage
         \/ K.pc = Insert /\ H.pc # Insert /\ nextMessage' = nextMessage + 1
         \/ /\ nextMessage + Cardinality(Accepted) <= MaxMessage
            /\ nextMessage' = nextMessage
  PROVE  Room'
<1>1. PICK A, B : A = Accepted /\ B = Accepted'
  OBVIOUS
<1>2. PICK n, m : n = nextMessage /\ m = nextMessage'
  OBVIOUS
<1>3. IsFiniteSet(A) /\ n \in Nat /\ MaxMessage \in Nat
  BY <1>1, <1>2, NumbersAssumption DEF Room, TypeOK
<1>4. PICK k \in Nat : k = Cardinality(A)
  BY <1>3, FS_CardinalityType
<1>5. n + k <= MaxMessage + 1
  BY <1>1, <1>2, <1>4 DEF Room
<1>6. /\ \A g \in Handlers : g # h => (g \in B <=> g \in A)
      /\ h \in A <=> K.pc = Insert
      /\ h \in B <=> H.pc = Insert
      /\ A \subseteq Handlers /\ B \subseteq Handlers
  BY <1>1, Moved DEF Accepted, Moves
<1>7. CASE H.pc # Insert
  <2>1. B = A \ {h}
    BY <1>6, <1>7
  <2>2. IsFiniteSet(B) /\ Cardinality(B) = IF h \in A THEN k - 1 ELSE k
    BY <1>3, <1>4, <2>1, FS_RemoveElement
  <2>3. m = n \/ (h \in A /\ m = n + 1)
    <3>1. CASE nextMessage' = nextMessage
      BY <1>2, <3>1
    <3>2. CASE K.pc = Insert /\ nextMessage' = nextMessage + 1
      BY <1>2, <1>6, <3>2
    <3> QED
      BY <3>1, <3>2
  <2>4. PICK b : b = Cardinality(B)
    OBVIOUS
  <2>5. m + b <= MaxMessage + 1
    <3>1. CASE h \in A
      BY <1>3, <1>4, <1>5, <2>2, <2>3, <2>4, <3>1
    <3>2. CASE h \notin A
      BY <1>3, <1>4, <1>5, <2>2, <2>3, <2>4, <3>2
    <3> QED
      BY <3>1, <3>2
  <2> QED
    BY <1>1, <1>2, <2>2, <2>4, <2>5 DEF Room
<1>8. CASE H.pc = Insert
  <2>1. n + k <= MaxMessage /\ m = n
    BY <1>1, <1>2, <1>4, <1>8
  <2>2. B = A \cup {h}
    BY <1>6, <1>8
  <2>3. IsFiniteSet(B) /\ Cardinality(B) = IF h \in A THEN k ELSE k + 1
    BY <1>3, <1>4, <2>2, FS_AddElement
  <2>4. PICK b : b = Cardinality(B)
    OBVIOUS
  <2>5. m + b <= MaxMessage + 1
    <3>1. CASE h \in A
      BY <1>3, <1>4, <1>5, <2>1, <2>3, <2>4, <3>1
    <3>2. CASE h \notin A
      BY <1>3, <1>4, <1>5, <2>1, <2>3, <2>4, <3>2
    <3> QED
      BY <3>1, <3>2
  <2> QED
    BY <1>1, <1>2, <2>3, <2>4, <2>5 DEF Room
<1> QED
  BY <1>7, <1>8

LEMMA RequestsKept ==
  ASSUME TypeOK, \A g \in Handlers : ByRequest(handler[g]),
         NEW h \in Handlers, NEW K, NEW H, Moves(h, K, H), ByRequest(H)
  PROVE  \A g \in Handlers : ByRequest(handler[g])'
<1> TAKE g \in Handlers
<1>1. PICK G : G = handler'[g]
  OBVIOUS
<1>2. ByRequest(G)
  <2>1. CASE g = h
    BY <1>1, <2>1, Moved
  <2>2. CASE g # h
    BY <1>1, <2>2, Moved
  <2> QED
    BY <2>1, <2>2
<1> QED
  BY <1>1, <1>2 DEF ByRequest

-----------------------------------------------------------------------------
(***************************************************************************)
(* The table only gains rows under ids of their own, and one that comes    *)
(* after a newer one of its channel is late.                               *)
(***************************************************************************)
Grows ==
    /\ message \subseteq message' /\ late \subseteq late'
    /\ \A r \in message' \ message : \A n \in message :
          /\ r.id # n.id
          /\ n.channel_id = r.channel_id /\ r.id < n.id => r.id \in late'

Stays == message' = message /\ late' = late

LEMMA StaysGrows == ASSUME Stays PROVE Grows
  BY DEF Stays, Grows

LEMMA ChannelGrows ==
  ASSUME Grows, NEW c
  PROVE  /\ InChannel(c) \subseteq InChannel(c)'
         /\ \A r \in InChannel(c)' : r \notin InChannel(c) =>
               /\ r \in message' \ message /\ r.channel_id = c
  BY DEF Grows, InChannel

LEMMA FollowsKept ==
  ASSUME TypeOK, TypeOK', MarksInv, MarksInv', Grows,
         NEW t \in Tabs, NEW H, NEW T, Follows(H, T, t)
  PROVE  Follows(H, T, t)'
<1>1. PICK B, A : B = InChannel(Page[t]) /\ A = InChannel(Page[t])'
  OBVIOUS
<1>2. /\ B \subseteq A /\ B \subseteq message
      /\ \A r \in A : r \notin B =>
            r \in message' \ message /\ r.channel_id = Page[t]
      /\ \A n \in B : n.channel_id = Page[t]
  BY <1>1, ChannelGrows DEF InChannel
<1>3. \A r \in A : r.id \in Nat
  <2>1. \A r \in message' : r \in Row
    BY DEF TypeOK
  <2> QED
    BY <1>1, <2>1 DEF InChannel, Row
<1>4. /\ H.rows \subseteq B
      /\ \A r \in B \ H.rows :
            T.last < r.id /\ (\E n \in H.rows : r.id <= n.id)
               => Missed(r, H.rows)
  BY <1>1 DEF Follows
<1>5. ASSUME NEW r \in A \ H.rows, T.last < r.id,
             NEW n \in H.rows, r.id <= n.id
      PROVE  r.id \in late' \/ (Cardinality(H.rows) >= Limit
                                  /\ \A k \in H.rows : r.id < k.id)
  <2>1. CASE r \in B
    BY <1>4, <1>5, <2>1 DEF Missed, Grows
  <2>2. CASE r \notin B
    <3>1. /\ r \in message' \ message /\ n \in message
          /\ n.channel_id = r.channel_id
      BY <1>2, <1>4, <2>2
    <3>2. r.id # n.id
      BY <3>1 DEF Grows
    <3>3. r.id < n.id
      BY <1>2, <1>3, <1>4, <1>5, <3>2
    <3> QED
      BY <3>1, <3>3 DEF Grows
  <2> QED
    BY <2>1, <2>2
<1>6. \A r \in A \ H.rows :
         T.last < r.id /\ (\E n \in H.rows : r.id <= n.id)
            => Missed(r, H.rows)'
  BY <1>5 DEF Missed
<1>7. H.rows \subseteq A
  BY <1>2, <1>4
<1> QED
  BY <1>1, <1>6, <1>7 DEF Follows

LEMMA TimelineKept ==
  ASSUME TypeOK, TypeOK', Grows, NEW t \in Tabs, NEW T,
         T.last \in Nat, Timeline(T, t)
  PROVE  Timeline(T, t)'
<1>1. PICK B, A : B = InChannel(Page[t]) /\ A = InChannel(Page[t])'
  OBVIOUS
<1>2. /\ B \subseteq A /\ B \subseteq message
      /\ \A r \in A : r \notin B =>
            r \in message' \ message /\ r.channel_id = Page[t]
      /\ \A n \in B : n.channel_id = Page[t]
  BY <1>1, ChannelGrows DEF InChannel
<1>3. \A r \in A : r.id \in Nat \ {0}
  <2>1. \A r \in message' : r \in Row
    BY DEF TypeOK
  <2> QED
    BY <1>1, <2>1 DEF InChannel, Row
<1>4. /\ T.last = 0 \/ \E n \in B : n.id = T.last
      /\ \A r \in B : r.id <= T.last => Shown(T, r)
  BY <1>1 DEF Timeline
<1>5. ASSUME NEW r \in A, r.id <= T.last
      PROVE  Shown(T, r)'
  <2>1. CASE r \in B
    BY <1>4, <1>5, <2>1 DEF Shown, Grows
  <2>2. CASE r \notin B
    <3>1. PICK n \in B : n.id = T.last
      BY <1>3, <1>4, <1>5
    <3>2. r.id # n.id /\ n.channel_id = r.channel_id
      BY <1>2, <2>2 DEF Grows
    <3>3. r.id < n.id
      BY <1>3, <1>5, <3>1, <3>2
    <3>4. r.id \in late'
      BY <1>2, <2>2, <3>2, <3>3 DEF Grows
    <3> QED
      BY <3>4 DEF Shown
  <2> QED
    BY <2>1, <2>2
<1>6. T.last = 0 \/ \E n \in A : n.id = T.last
  BY <1>2, <1>4
<1> QED
  BY <1>1, <1>5, <1>6 DEF Timeline, Increasing

\* A page is its timeline and the id up to which it is known.
LEMMA TimelineSame ==
  ASSUME NEW t, NEW S, NEW T, S.last = T.last, S.timeline = T.timeline,
         Timeline(T, t)
  PROVE  Timeline(S, t)
<1>1. \A r : Shown(T, r) => Shown(S, r)
  BY DEF Shown
<1> QED
  BY <1>1 DEF Timeline, Increasing

LEMMA FollowsSame ==
  ASSUME NEW t, NEW H, NEW S, NEW T, S.last = T.last, Follows(H, T, t)
  PROVE  Follows(H, S, t)
  BY DEF Follows

-----------------------------------------------------------------------------
(***************************************************************************)
(* A step of one handler that no tab takes part in.                        *)
(***************************************************************************)
ReaderKept(K, H) ==
    H.pc \in {Jsonify, Upsert} =>
       /\ K.pc \in {Jsonify, Upsert}
       /\ H.user = K.user /\ H.channel_id = K.channel_id /\ H.rows = K.rows

LEMMA ServerStep ==
  ASSUME TabInv, TypeOK', MarksInv', Grows, late' \subseteq 1 .. MaxMessage,
         UNCHANGED <<tab, opens, failed, lost>>,
         NEW h \in Handlers, NEW K, NEW H, Moves(h, K, H), ReaderKept(K, H),
         \A t \in Tabs : h \in tab[t].requests => Follows(H, tab[t], t)
  PROVE  TabTypeOK' /\ Flights' /\ Timelines' /\ Abandoned'
<1>1. TabTypeOK'
  BY DEF TabInv, TabTypeOK
<1>2. ASSUME NEW t \in Tabs, NEW g \in tab[t].requests
      PROVE  Follows(handler[g], tab[t], t)'
  <2>1. PICK G, T : G = handler'[g] /\ T = tab[t]
    OBVIOUS
  <2>2. Follows(G, T, t)
    <3>1. CASE g = h
      <4>1. G = H
        BY <2>1, <3>1, Moved DEF TabInv
      <4> QED
        BY <2>1, <3>1, <4>1
    <3>2. CASE g # h
      <4>1. g \in Handlers /\ Follows(handler[g], tab[t], t)
        BY FlightFacts
      <4>2. G = handler[g]
        BY <2>1, <3>2, <4>1, Moved DEF TabInv
      <4> QED
        BY <2>1, <4>1, <4>2
    <3> QED
      BY <3>1, <3>2
  <2>3. Follows(G, T, t)'
    BY <2>2, FollowsKept DEF TabInv
  <2>4. tab'[t] = T
    BY <2>1
  <2> QED
    BY <2>1, <2>3, <2>4
<1>3. Flights'
  <2>1. \A t \in Tabs : tab'[t].requests = tab[t].requests
    OBVIOUS
  <2>2. /\ \A t \in Tabs : \A f, g \in tab[t].requests : f = g
        /\ \A s, t \in Tabs :
              s # t => tab[s].requests \cap tab[t].requests = {}
    BY DEF TabInv, Flights
  <2>3. \A t \in Tabs : \A g \in tab'[t].requests :
           Follows(handler[g], tab[t], t)'
    BY <1>2, <2>1
  <2> QED
    BY <2>1, <2>2, <2>3 DEF Flights
<1>4. Timelines'
  <2>1. ASSUME NEW t \in Tabs PROVE Timeline(tab[t], t)'
    <3>1. PICK T : T = tab[t]
      OBVIOUS
    <3>2. Timeline(T, t) /\ T.last \in Nat
      <4>1. T.last \in 0 .. MaxMessage
        BY <3>1, TabFacts
      <4> QED
        BY <3>1, <4>1, TabFacts
    <3>3. Timeline(T, t)'
      BY <3>2, TimelineKept DEF TabInv
    <3>4. tab'[t] = T
      BY <3>1
    <3> QED
      BY <3>3, <3>4
  <2> QED
    BY <2>1 DEF Timelines
<1>5. Abandoned'
  <2>1. ASSUME NEW g \in Handlers, handler'[g].pc \in {Jsonify, Upsert}
        PROVE  \/ \E t \in Tabs : g \in tab[t].requests
               \/ \A r \in handler'[g].rows :
                     <<handler'[g].user, handler'[g].channel_id, r.id>> \in lost
    <3>1. /\ handler[g].pc \in {Jsonify, Upsert}
          /\ handler'[g].user = handler[g].user
          /\ handler'[g].channel_id = handler[g].channel_id
          /\ handler'[g].rows = handler[g].rows
      <4>1. CASE g = h
        BY <2>1, <4>1, Moved DEF TabInv, Moves, ReaderKept
      <4>2. CASE g # h
        BY <2>1, <4>2, Moved DEF TabInv
      <4> QED
        BY <4>1, <4>2
    <3>2. g \in Reading
      BY <3>1 DEF Reading
    <3> QED
      BY <3>1, <3>2 DEF TabInv, Abandoned
  <2>2. /\ \A t \in Tabs : tab'[t].requests = tab[t].requests
        /\ lost' = lost
    OBVIOUS
  <2>3. \A g \in Reading' : /\ g \in Handlers
                            /\ handler'[g].pc \in {Jsonify, Upsert}
    BY DEF Reading
  <2> QED
    BY <2>1, <2>2, <2>3 DEF Abandoned
<1> QED
  BY <1>1, <1>3, <1>4, <1>5

\* What a tab can claim depends on what it knows and on its finished request.
LEMMA ClaimsKept ==
  ASSUME NEW t, NEW m, Claims(t, m), tab'[t].last = tab[t].last,
         Upserted(t)' = Upserted(t),
         \A h \in Upserted(t) : handler'[h].rows = handler[h].rows
  PROVE  Claims(t, m)'
  BY DEF Claims, IsFirst

\* A handler that waits for a statement has not moved the mark, and neither
\* has one that answers with an error or without messages.
Finished(H) == H.pc = "reply" /\ H.status = 200 /\ H.rows # {}

LEMMA UpsertedIs ==
  ASSUME NEW t PROVE Upserted(t) = {h \in tab[t].requests : Finished(handler[h])}
  BY DEF Upserted, Finished

LEMMA ServerMarks ==
  ASSUME TabInv, UNCHANGED <<tab, lost, haveread>>,
         NEW h \in Handlers, NEW K, NEW H, Moves(h, K, H),
         \A t \in Tabs :
            h \in tab[t].requests => ~Finished(K) /\ ~Finished(H)
  PROVE  Marks'
<1>1. ASSUME NEW t \in Tabs, NEW m, Claims(t, m)
      PROVE  Claims(t, m)'
  <2>1. \A g \in tab[t].requests : g \in Handlers
    BY TabFacts
  <2>2. \A g \in tab[t].requests : Finished(handler[g])' <=> Finished(handler[g])
    BY <2>1, Moved DEF TabInv, Moves, Finished
  <2>3. Upserted(t)' = Upserted(t)
    BY <2>2 DEF Upserted, Finished
  <2>4. \A g \in Upserted(t) : handler'[g].rows = handler[g].rows
    <3> TAKE g \in Upserted(t)
    <3>1. g \in tab[t].requests /\ Finished(handler[g])
      BY UpsertedIs
    <3>2. g # h
      BY <3>1 DEF Moves
    <3> QED
      BY <2>1, <3>1, <3>2, Moved DEF TabInv
  <2> QED
    BY <1>1, <2>3, <2>4, ClaimsKept
<1>2. ASSUME NEW u \in Users, NEW c \in Channels
      PROVE  \/ haveread'[u][c] = 0
             \/ \E t \in Tabs : /\ Owner[t] = u /\ Page[t] = c
                                /\ Claims(t, haveread[u][c])'
             \/ <<u, c, haveread'[u][c]>> \in lost'
  <2>1. PICK m : m = haveread[u][c] /\ m = haveread'[u][c]
    OBVIOUS
  <2>2. \/ m = 0
        \/ \E t \in Tabs : /\ Owner[t] = u /\ Page[t] = c /\ Claims(t, m)
        \/ <<u, c, m>> \in lost
    BY <2>1 DEF TabInv, Marks
  <2>3. (\E t \in Tabs : /\ Owner[t] = u /\ Page[t] = c /\ Claims(t, m)) =>
        \E t \in Tabs : /\ Owner[t] = u /\ Page[t] = c /\ Claims(t, m)'
    BY <1>1
  <2>4. lost' = lost
    OBVIOUS
  <2>5. ASSUME NEW t \in Tabs, Claims(t, m)'
        PROVE  Claims(t, haveread[u][c])'
    BY <2>1, <2>5
  <2> QED
    BY <2>1, <2>2, <2>3, <2>4, <2>5
<1> QED
  BY <1>2 DEF Marks

-----------------------------------------------------------------------------
(***************************************************************************)
(* The statements of the server.                                           *)
(***************************************************************************)
TabPart ==
    /\ TabTypeOK /\ Room
    /\ \A h \in Handlers : ByRequest(handler[h])
    /\ Flights /\ Timelines /\ Abandoned /\ Marks

LEMMA InvParts == TabInv <=> TypeOK /\ MarksInv /\ TabPart
  BY DEF TabInv, TabPart

\* All that a step of one handler needs that moves no mark.
LEMMA ServerPart ==
  ASSUME TabInv, TypeOK', MarksInv', Grows, late' \subseteq 1 .. MaxMessage,
         UNCHANGED <<tab, opens, failed, lost, haveread>>,
         NEW h \in Handlers, NEW K, NEW H, Moves(h, K, H), ReaderKept(K, H),
         \A t \in Tabs : h \in tab[t].requests =>
            Follows(H, tab[t], t) /\ ~Finished(K) /\ ~Finished(H),
         ByRequest(H),
         \/ H.pc # Insert /\ nextMessage' = nextMessage
         \/ K.pc = Insert /\ H.pc # Insert /\ nextMessage' = nextMessage + 1
         \/ /\ nextMessage + Cardinality(Accepted) <= MaxMessage
            /\ nextMessage' = nextMessage
  PROVE  TabPart'
<1>1. TabTypeOK' /\ Flights' /\ Timelines' /\ Abandoned'
  BY ServerStep
<1>2. Room'
  BY RoomKept DEF TabInv
<1>3. \A g \in Handlers : ByRequest(handler[g])'
  BY RequestsKept DEF TabInv
<1>4. Marks'
  BY ServerMarks
<1> QED
  BY <1>1, <1>2, <1>3, <1>4 DEF TabPart

LEMMA ReplyIs ==
  ASSUME NEW h \in Handlers, handler[h] \in Handler, NEW status,
         NEW H, H = Reply(h, status)
  PROVE  /\ H.pc = "reply" /\ H.status = status
         /\ H.rows = handler[h].rows /\ H.unread = handler[h].unread
         /\ H.user = handler[h].user
         /\ H.channel_id = handler[h].channel_id
  BY DEF Reply, Handler

\* An answer of a handler that serves the same request as before.
Answers(K, H) ==
    /\ K.pc \in Statements /\ H.pc = "reply"
    /\ H.rows = K.rows /\ H.unread = K.unread
    /\ ~Finished(H)

LEMMA ReplyPart ==
  ASSUME TabInv, TypeOK', MarksInv', Grows, late' \subseteq 1 .. MaxMessage,
         UNCHANGED <<tab, opens, failed, lost, haveread, nextMessage>>,
         NEW h \in Handlers, NEW K, NEW H, Moves(h, K, H), Answers(K, H)
  PROVE  TabPart'
<1>1. K \in Handler /\ ByRequest(K)
  BY DEF TabInv, TypeOK, Moves
<1>2. ReaderKept(K, H) /\ H.pc # Insert
  BY DEF Answers, ReaderKept, Jsonify, Upsert, Insert
<1>3. ByRequest(H)
  BY <1>1 DEF Answers, ByRequest, DelUser, DelChannel, DelMessage, DelHaveread,
              ReadMark, Count, Insert, Commit, Jsonify, Upsert
<1>4. ~Finished(H)
  BY DEF Answers
<1>5. ~Finished(K)
  BY DEF Answers, Finished, Statements, Insert, Commit, Jsonify, Upsert,
         ReadMark, Count, DelUser, DelChannel, DelMessage, DelHaveread
<1>6. ASSUME NEW t \in Tabs, h \in tab[t].requests
      PROVE  Follows(H, tab[t], t)
  <2>1. Follows(K, tab[t], t)
    BY <1>6, FlightFacts DEF Moves
  <2> QED
    BY <2>1 DEF Answers, Follows, Jsonify, Upsert
<1> QED
  BY <1>2, <1>3, <1>4, <1>5, <1>6, ServerPart

\* An error, or an answer without messages, moves no mark.
LEMMA ReplyAnswers ==
  ASSUME TypeOK, NEW h \in Handlers, handler[h].pc \in Statements,
         NEW K, K = handler[h],
         NEW status \in Codes, status \in {204, 500} \/ K.rows = {},
         handler' = [handler EXCEPT ![h] = Reply(h, status)]
  PROVE  \E H : Moves(h, K, H) /\ Answers(K, H)
<1>1. PICK H : H = Reply(h, status)
  OBVIOUS
<1>2. handler[h] \in Handler
  BY DEF TypeOK
<1>3. /\ H.pc = "reply" /\ H.status = status
      /\ H.rows = K.rows /\ H.unread = K.unread
  BY <1>1, <1>2, ReplyIs
<1>4. Answers(K, H)
  BY <1>3 DEF Answers, Finished
<1>5. Moves(h, K, H)
  BY <1>1 DEF Moves
<1> QED
  BY <1>4, <1>5

\* A statement that writes no message makes none late.
LEMMA ServeStays ==
  ASSUME NEW h, Serve(h), message' = message
  PROVE  Stays
  BY DEF Serve, Stays

LEMMA LateType ==
  ASSUME TabInv, Stays
  PROVE  late' \subseteq 1 .. MaxMessage
  BY DEF TabInv, TabTypeOK, Stays

\* The row of an INSERT becomes visible.
LEMMA StoreGrows ==
  ASSUME TabInv, TypeOK', MarksInv', NEW h \in Handlers, Serve(h),
         handler[h].pc = Commit, message' = message \cup handler[h].rows,
         UNCHANGED nextMessage
  PROVE  Grows /\ late' \subseteq 1 .. MaxMessage
<1>1. h \in Pending
  BY DEF Pending
<1>2. PICK r \in handler[h].rows :
         /\ handler[h].rows = {r}
         /\ r.id < nextMessage /\ \A s \in message : s.id # r.id
  BY <1>1 DEF TabInv, MarksInv, FreshIds
<1>3. r \notin message /\ message' = message \cup {r}
  BY <1>2
<1>4. late' = late \cup {s.id : s \in {s \in message' \ message :
                 \E n \in InChannel(s.channel_id) : n.id > s.id}}
  BY DEF Serve
<1>5. r.id \in 1 .. MaxMessage /\ \A n \in message : n.id \in Nat
  <2>1. r \in Row /\ message \in SUBSET Row
    BY <1>3 DEF TypeOK, TabInv
  <2>2. r.id \in Nat \ {0} /\ \A n \in message : n.id \in Nat
    BY <2>1 DEF Row
  <2>3. PICK k \in Nat : k = Cardinality(Accepted)
    BY FS_CardinalityType DEF TabInv, Room
  <2>4. nextMessage + k <= MaxMessage + 1 /\ nextMessage \in Nat
    BY <2>3 DEF TabInv, Room, TypeOK
  <2> QED
    BY <1>2, <2>2, <2>4, NumbersAssumption
<1>6. late \subseteq late' /\ \A i \in late' : i \in late \/ i = r.id
  BY <1>3, <1>4
<1>7. ASSUME NEW n \in message, n.channel_id = r.channel_id, r.id < n.id
      PROVE  r.id \in late'
  <2>1. n \in InChannel(r.channel_id) /\ n.id > r.id
    BY <1>5, <1>7 DEF InChannel
  <2> QED
    BY <1>3, <1>4, <2>1
<1>8. late' \subseteq 1 .. MaxMessage
  BY <1>5, <1>6 DEF TabInv, TabTypeOK
<1> QED
  BY <1>2, <1>3, <1>6, <1>7, <1>8 DEF Grows

\* Insert and Commit belong to a post, whose answer no tab awaits.
LEMMA PostUnheard ==
  ASSUME TabInv, NEW h \in Handlers,
         handler[h].pc \in {"idle", Insert, Commit}, NEW t \in Tabs
  PROVE  h \notin tab[t].requests
<1> SUFFICES ASSUME h \in tab[t].requests PROVE FALSE
  OBVIOUS
<1>1. Follows(handler[h], tab[t], t)
  BY FlightFacts
<1> QED
  BY <1>1 DEF Follows, Insert, Commit, Jsonify, Upsert, ReadMark, Count

LEMMA InsertKept ==
  ASSUME TabInv, TypeOK', MarksInv', NEW h \in Handlers, Serve(h),
         InsertMessage(h)
  PROVE  TabPart'
<1>1. PICK K, r, H : /\ K = handler[h] /\ r = NewRow(h, nextMessage)
                     /\ H = [K EXCEPT !.pc = Commit, !.rows = {r}]
  OBVIOUS
<1>2. Moves(h, K, H) /\ nextMessage' = nextMessage + 1 /\ K.pc = Insert
  BY <1>1 DEF InsertMessage, Moves
<1>3. K \in Handler /\ ByRequest(K)
  BY <1>1 DEF TabInv, TypeOK
<1>4. H.pc = Commit /\ H.unread = K.unread
  BY <1>1, <1>3 DEF Handler
<1>5. H.pc # Insert /\ ReaderKept(K, H)
  BY <1>4 DEF ReaderKept, Commit, Insert, Jsonify, Upsert
<1>6. ByRequest(H)
  BY <1>2, <1>3, <1>4 DEF ByRequest, DelUser, DelChannel, DelMessage,
       DelHaveread, ReadMark, Count, Insert, Commit, Jsonify, Upsert
<1>7. \A t \in Tabs : h \notin tab[t].requests
  BY <1>1, <1>2, PostUnheard
<1>8. Stays
  BY ServeStays DEF InsertMessage
<1>9. Grows /\ late' \subseteq 1 .. MaxMessage
  BY <1>8, StaysGrows, LateType
<1>10. UNCHANGED <<tab, opens, failed, lost, haveread>>
  BY DEF Serve, InsertMessage
<1> QED
  BY <1>2, <1>5, <1>6, <1>7, <1>9, <1>10, ServerPart

LEMMA CommitKept ==
  ASSUME TabInv, TypeOK', MarksInv', NEW h \in Handlers, Serve(h),
         CommitMessage(h)
  PROVE  TabPart'
<1>1. handler[h].pc = Commit /\ handler[h].pc \in Statements
  BY DEF CommitMessage, Statements
<1>2. UNCHANGED <<tab, opens, failed, lost, haveread, nextMessage>>
  BY DEF Serve, CommitMessage
<1>3. message' = message \cup handler[h].rows
  BY DEF CommitMessage
<1>4. Grows /\ late' \subseteq 1 .. MaxMessage
  BY <1>1, <1>2, <1>3, StoreGrows
<1>5. PICK K : K = handler[h]
  OBVIOUS
<1>6. \E H : Moves(h, K, H) /\ Answers(K, H)
  <2>1. 204 \in Codes /\ 204 \in {204, 500}
    BY DEF Codes
  <2>2. handler' = [handler EXCEPT ![h] = Reply(h, 204)]
    BY DEF CommitMessage
  <2> QED
    BY <1>1, <1>5, <2>1, <2>2, ReplyAnswers DEF TabInv
<1> QED
  BY <1>2, <1>4, <1>6, ReplyPart

LEMMA JsonifyKept ==
  ASSUME TabInv, TypeOK', MarksInv', NEW h \in Handlers, Serve(h),
         JsonifyMessage(h)
  PROVE  TabPart'
<1>1. UNCHANGED <<tab, opens, failed, lost, haveread, nextMessage>>
  BY DEF Serve, JsonifyMessage, tables
<1>2. Stays
  BY ServeStays DEF JsonifyMessage, tables
<1>3. Grows /\ late' \subseteq 1 .. MaxMessage
  BY <1>2, StaysGrows, LateType
<1>4. PICK K, H : K = handler[h] /\ H = [K EXCEPT !.pc = Upsert]
  OBVIOUS
<1>5. K.pc = Jsonify /\ handler[h].pc \in Statements
  BY <1>4 DEF JsonifyMessage, Statements
<1>6. CASE handler' = [handler EXCEPT ![h] = Reply(h, 500)]
  <2>1. 500 \in Codes /\ 500 \in {204, 500}
    BY DEF Codes
  <2>2. \E A : Moves(h, K, A) /\ Answers(K, A)
    BY <1>4, <1>5, <1>6, <2>1, ReplyAnswers DEF TabInv
  <2> QED
    BY <1>1, <1>3, <2>2, ReplyPart
<1>7. CASE /\ handler' = [handler EXCEPT ![h] = Reply(h, 200)]
           /\ handler[h].rows = {}
  <2>1. 200 \in Codes /\ K.rows = {} /\ K = handler[h]
    BY <1>4, <1>7 DEF Codes
  <2>2. handler' = [handler EXCEPT ![h] = Reply(h, 200)] /\ TypeOK
    BY <1>7 DEF TabInv
  <2>3. \E A : Moves(h, K, A) /\ Answers(K, A)
    BY <1>5, <2>1, <2>2, ReplyAnswers
  <2> QED
    BY <1>1, <1>3, <2>3, ReplyPart
<1>8. CASE handler' = [handler EXCEPT ![h] = H]
  <2>1. Moves(h, K, H)
    BY <1>4, <1>8 DEF Moves
  <2>2. K \in Handler /\ ByRequest(K)
    BY <1>4 DEF TabInv, TypeOK
  <2>3. /\ H.pc = Upsert /\ H.unread = K.unread /\ H.rows = K.rows
        /\ H.user = K.user /\ H.channel_id = K.channel_id
    BY <1>4, <2>2 DEF Handler
  <2>4. H.pc # Insert /\ ReaderKept(K, H)
    BY <1>5, <2>3 DEF ReaderKept, Upsert, Insert
  <2>5. ByRequest(H)
    BY <1>5, <2>2, <2>3 DEF ByRequest, DelUser, DelChannel, DelMessage,
         DelHaveread, ReadMark, Count, Insert, Commit, Jsonify, Upsert
  <2>6. ~Finished(K) /\ ~Finished(H)
    BY <1>5, <2>3 DEF Finished, Jsonify, Upsert
  <2>7. ASSUME NEW t \in Tabs, h \in tab[t].requests
        PROVE  Follows(H, tab[t], t)
    <3>1. Follows(K, tab[t], t)
      BY <1>4, <2>7, FlightFacts
    <3> QED
      BY <1>5, <2>3, <3>1 DEF Follows
  <2> QED
    BY <1>1, <1>3, <2>1, <2>4, <2>5, <2>6, <2>7, ServerPart
<1>9. \/ handler' = [handler EXCEPT ![h] = Reply(h, 500)]
      \/ /\ handler' = [handler EXCEPT ![h] = Reply(h, 200)]
         /\ handler[h].rows = {}
      \/ handler' = [handler EXCEPT ![h] = H]
  BY <1>4 DEF JsonifyMessage
<1> QED
  BY <1>6, <1>7, <1>8, <1>9

\* The statements of /fetch, whose handler holds no messages.
LEMMA FetchPart ==
  ASSUME TabInv, TypeOK', MarksInv', NEW h \in Handlers, Stays,
         UNCHANGED <<tab, opens, failed, lost, haveread, nextMessage>>,
         NEW K, NEW H, Moves(h, K, H), K.pc \in {ReadMark, Count},
         H.pc \in {ReadMark, Count, "reply"}, H.rows = K.rows
  PROVE  TabPart'
<1>1. Grows /\ late' \subseteq 1 .. MaxMessage
  BY StaysGrows, LateType
<1>2. ByRequest(K)
  BY DEF TabInv, Moves
<1>3. K.rows = {} /\ H.rows = {}
  BY <1>2 DEF ByRequest
<1>4. ByRequest(H) /\ ReaderKept(K, H) /\ H.pc # Insert
  BY <1>3 DEF ByRequest, ReaderKept, DelUser, DelChannel, DelMessage,
       DelHaveread, ReadMark, Count, Insert, Commit, Jsonify, Upsert
<1>5. ~Finished(K) /\ ~Finished(H)
  BY <1>3 DEF Finished
<1>6. ASSUME NEW t \in Tabs, h \in tab[t].requests
      PROVE  Follows(H, tab[t], t)
  <2>1. Follows(K, tab[t], t)
    BY <1>6, FlightFacts DEF Moves
  <2> QED
    BY <1>3, <2>1 DEF Follows, Jsonify, Upsert, ReadMark, Count
<1> QED
  BY <1>1, <1>4, <1>5, <1>6, ServerPart

LEMMA QueryKept ==
  ASSUME TabInv, TypeOK', MarksInv', NEW h \in Handlers, Serve(h),
         NEW c \in Channels, QueryHaveRead(h, c)
  PROVE  TabPart'
<1>1. UNCHANGED <<tab, opens, failed, lost, haveread, nextMessage>>
  BY DEF Serve, QueryHaveRead, tables
<1>2. Stays
  BY ServeStays DEF QueryHaveRead, tables
<1>3. PICK K : K = handler[h]
  OBVIOUS
<1>4. PICK last : last = haveread[K.user][c]
  OBVIOUS
<1>5. PICK H : H = [K EXCEPT !.pc = Count, !.channel_id = c, !.last = last]
  OBVIOUS
<1>6. Moves(h, K, H) /\ K.pc = ReadMark
  BY <1>3, <1>4, <1>5 DEF Moves, QueryHaveRead
<1>7. K \in Handler
  BY <1>3 DEF TabInv, TypeOK
<1>8. H.pc = Count /\ H.rows = K.rows
  BY <1>5, <1>7 DEF Handler
<1> QED
  BY <1>1, <1>2, <1>6, <1>8, FetchPart

LEMMA CountKept ==
  ASSUME TabInv, TypeOK', MarksInv', NEW h \in Handlers, Serve(h),
         CountUnread(h)
  PROVE  TabPart'
<1>1. UNCHANGED <<tab, opens, failed, lost, haveread, nextMessage>>
  BY DEF Serve, CountUnread, tables
<1>2. Stays
  BY ServeStays DEF CountUnread, tables
<1>3. PICK K : K = handler[h]
  OBVIOUS
<1>4. PICK cnt : cnt = IF K.last > 0
                       THEN Cardinality(After(K.channel_id, K.last))
                       ELSE Cardinality(InChannel(K.channel_id))
  OBVIOUS
<1>5. PICK rest : rest = K.todo \ {K.channel_id}
  OBVIOUS
<1>6. PICK N : N = [K EXCEPT !.pc = ReadMark, !.todo = rest,
                             !.unread = @ \cup {<<K.channel_id, cnt>>}]
  OBVIOUS
<1>7. PICK R : R = [N EXCEPT !.pc = "reply", !.status = 200]
  OBVIOUS
<1>8. Moves(h, K, N) \/ Moves(h, K, R)
  BY <1>3, <1>4, <1>5, <1>6, <1>7 DEF Moves, CountUnread
<1>9. K.pc = Count /\ K \in Handler
  BY <1>3 DEF CountUnread, TabInv, TypeOK
<1>10. /\ N.pc = ReadMark /\ N.rows = K.rows
       /\ R.pc = "reply" /\ R.rows = K.rows
  BY <1>6, <1>7, <1>9 DEF Handler
<1>11. CASE Moves(h, K, N)
  BY <1>1, <1>2, <1>9, <1>10, <1>11, FetchPart
<1>12. CASE Moves(h, K, R)
  BY <1>1, <1>2, <1>9, <1>10, <1>12, FetchPart
<1> QED
  BY <1>8, <1>11, <1>12

LEMMA FailsKept ==
  ASSUME TabInv, TypeOK', MarksInv', NEW h \in Handlers, Serve(h),
         StatementFails(h)
  PROVE  TabPart'
<1>1. UNCHANGED <<tab, opens, failed, lost, haveread, nextMessage>>
  BY DEF Serve, StatementFails
<1>2. Grows /\ late' \subseteq 1 .. MaxMessage
  <2>1. CASE message' = message
    BY <2>1, ServeStays, StaysGrows, LateType
  <2>2. CASE /\ handler[h].pc = Commit
             /\ message' = message \cup handler[h].rows
    BY <1>1, <2>2, StoreGrows
  <2> QED
    BY <2>1, <2>2 DEF StatementFails
<1>3. PICK K : K = handler[h]
  OBVIOUS
<1>4. \E H : Moves(h, K, H) /\ Answers(K, H)
  <2>1. 500 \in Codes /\ 500 \in {204, 500}
    BY DEF Codes
  <2>2. /\ handler' = [handler EXCEPT ![h] = Reply(h, 500)]
        /\ handler[h].pc \in Statements
    BY DEF StatementFails
  <2> QED
    BY <1>3, <2>1, <2>2, ReplyAnswers DEF TabInv
<1> QED
  BY <1>1, <1>2, <1>4, ReplyPart

\* The mark moves to the newest message of the answer.
LEMMA UpsertKept ==
  ASSUME TabInv, TypeOK', MarksInv', NEW h \in Handlers, Serve(h),
         UpsertHaveread(h)
  PROVE  TabPart'
<1>1. UNCHANGED <<tab, opens, failed, lost, nextMessage>>
  BY DEF Serve, UpsertHaveread
<1>2. Stays
  BY ServeStays DEF UpsertHaveread
<1>3. Grows /\ late' \subseteq 1 .. MaxMessage
  BY <1>2, StaysGrows, LateType
<1>4. PICK K, H : K = handler[h] /\ H = Reply(h, 200)
  OBVIOUS
<1>5. Moves(h, K, H) /\ K.pc = Upsert
  BY <1>4 DEF UpsertHaveread, Moves
<1>6. K \in Handler /\ ByRequest(K)
  BY <1>4 DEF TabInv, TypeOK
<1>7. /\ H.pc = "reply" /\ H.status = 200
      /\ H.rows = K.rows /\ H.unread = K.unread
  BY <1>4, <1>6, ReplyIs
<1>8. ReaderKept(K, H) /\ H.pc # Insert
  BY <1>7 DEF ReaderKept, Jsonify, Upsert, Insert
<1>9. ByRequest(H)
  BY <1>6, <1>7 DEF ByRequest, DelUser, DelChannel, DelMessage, DelHaveread,
                   ReadMark, Count, Insert, Commit, Jsonify, Upsert
<1>10. ASSUME NEW t \in Tabs, h \in tab[t].requests
       PROVE  /\ Follows(H, tab[t], t)
              /\ K.user = Owner[t] /\ K.channel_id = Page[t]
  <2>1. Follows(K, tab[t], t)
    BY <1>4, <1>10, FlightFacts
  <2> QED
    BY <1>5, <1>7, <2>1 DEF Follows, Jsonify, Upsert
<1>11. TabTypeOK' /\ Flights' /\ Timelines' /\ Abandoned'
  BY <1>1, <1>3, <1>5, <1>8, <1>10, ServerStep
<1>12. Room'
  BY <1>1, <1>5, <1>8, RoomKept DEF TabInv
<1>13. \A g \in Handlers : ByRequest(handler[g])'
  BY <1>5, <1>9, RequestsKept DEF TabInv
<1>14. PICK r \in K.rows :
         /\ IsFirst(r, K.rows)
         /\ haveread' = [haveread EXCEPT ![K.user][K.channel_id] = r.id]
  BY <1>4 DEF UpsertHaveread
<1>15. K.user \in Users /\ K.channel_id \in Channels
  BY <1>4, <1>5 DEF TabInv, TypeOK, Addressed
<1>16. handler'[h] = H
  BY <1>5, Moved DEF TabInv
<1>17. ASSUME NEW u \in Users, NEW c \in Channels
       PROVE  \/ haveread'[u][c] = 0
              \/ \E t \in Tabs : /\ Owner[t] = u /\ Page[t] = c
                                 /\ Claims(t, haveread[u][c])'
              \/ <<u, c, haveread'[u][c]>> \in lost'
  <2>0. PICK m : m = haveread'[u][c]
    OBVIOUS
  <2>1. CASE u = K.user /\ c = K.channel_id
    <3>1. m = r.id
      BY <1>14, <1>15, <2>0, <2>1 DEF TabInv, TypeOK
    <3>2. CASE \E t \in Tabs : h \in tab[t].requests
      <4>1. PICK t \in Tabs : h \in tab[t].requests
        BY <3>2
      <4>2. Owner[t] = u /\ Page[t] = c
        BY <1>10, <2>1, <4>1
      <4>3. tab'[t].requests = {h}
        BY <1>1, <4>1, FlightFacts
      <4>4. Upserted(t)' = {h}
        BY <1>7, <1>14, <1>16, <4>3 DEF Upserted
      <4>5. Claims(t, m)'
        BY <1>7, <1>14, <1>16, <3>1, <4>4 DEF Claims, IsFirst
      <4>6. Claims(t, haveread[u][c])'
        BY <2>0, <4>5
      <4> QED
        BY <4>2, <4>6
    <3>3. CASE ~ \E t \in Tabs : h \in tab[t].requests
      <4>1. h \in Reading
        BY <1>4, <1>5 DEF Reading
      <4>2. <<K.user, K.channel_id, r.id>> \in lost
        BY <1>4, <3>3, <4>1 DEF TabInv, Abandoned
      <4> QED
        BY <1>1, <2>0, <2>1, <3>1, <4>2
    <3> QED
      BY <3>2, <3>3
  <2>2. CASE ~(u = K.user /\ c = K.channel_id)
    <3>1. m = haveread[u][c]
      BY <1>14, <2>0, <2>2 DEF TabInv, TypeOK
    <3>2. ASSUME NEW t \in Tabs, Owner[t] = u, Page[t] = c, Claims(t, m)
          PROVE  Claims(t, haveread[u][c])'
      <4>1. h \notin tab[t].requests
        BY <1>10, <2>2, <3>2
      <4>2. \A g \in tab[t].requests : handler'[g] = handler[g]
        BY <1>5, <4>1, Moved, TabFacts DEF TabInv
      <4>3. tab'[t] = tab[t]
        BY <1>1
      <4>4. Upserted(t)' = Upserted(t)
        BY <4>2, <4>3 DEF Upserted
      <4>5. \A g \in Upserted(t) : handler'[g].rows = handler[g].rows
        BY <4>2 DEF Upserted
      <4>6. Claims(t, m)'
        BY <3>2, <4>3, <4>4, <4>5, ClaimsKept
      <4> QED
        BY <2>0, <4>6
    <3>3. \/ m = 0
          \/ \E t \in Tabs : /\ Owner[t] = u /\ Page[t] = c /\ Claims(t, m)
          \/ <<u, c, m>> \in lost
      BY <3>1 DEF TabInv, Marks
    <3> QED
      BY <1>1, <2>0, <3>2, <3>3
  <2> QED
    BY <2>1, <2>2
<1>18. Marks'
  BY <1>17 DEF Marks
<1> QED
  BY <1>11, <1>12, <1>13, <1>18 DEF TabPart

LEMMA ServeKept ==
  ASSUME TabInv, TypeOK', MarksInv', NEW h \in Handlers, Serve(h)
  PROVE  TabPart'
<1>1. CASE InsertMessage(h)
  BY <1>1, InsertKept
<1>2. CASE CommitMessage(h)
  BY <1>2, CommitKept
<1>3. CASE JsonifyMessage(h)
  BY <1>3, JsonifyKept
<1>4. CASE UpsertHaveread(h)
  BY <1>4, UpsertKept
<1>5. CASE \E c \in Channels : QueryHaveRead(h, c)
  BY <1>5, QueryKept
<1>6. CASE CountUnread(h)
  BY <1>6, CountKept
<1>7. CASE StatementFails(h)
  BY <1>7, FailsKept
<1>8. ~(DeleteUser(h) \/ DeleteChannel(h) \/ DeleteMessage(h)
          \/ DeleteHaveread(h))
  BY DEF TabInv, ByRequest, DeleteUser, DeleteChannel, DeleteMessage,
         DeleteHaveread
<1> QED
  BY <1>1, <1>2, <1>3, <1>4, <1>5, <1>6, <1>7, <1>8 DEF Serve, Continue

\* An answer no page waits for, and a post: neither is the business of a tab.
LEMMA UnheardKept ==
  ASSUME TabInv, TypeOK', MarksInv', NEW h \in Handlers, Unheard(h)
  PROVE  TabPart'
<1>1. PICK K : K = handler[h]
  OBVIOUS
<1>2. Moves(h, K, Idle)
  BY <1>1 DEF Moves, Unheard, Respond
<1>3. Stays /\ UNCHANGED <<tab, opens, failed, lost, haveread, nextMessage>>
  BY DEF Stays, Unheard, Respond, tabVars, tables
<1>4. Grows /\ late' \subseteq 1 .. MaxMessage
  BY <1>3, StaysGrows, LateType
<1>5. ReaderKept(K, Idle) /\ Idle.pc # Insert
  BY DEF ReaderKept, Idle, Jsonify, Upsert, Insert
<1>6. ByRequest(Idle)
  BY DEF ByRequest, Idle, DelUser, DelChannel, DelMessage, DelHaveread,
         ReadMark, Count, Insert, Commit, Jsonify, Upsert
<1>7. \A t \in Tabs : h \notin tab[t].requests
  BY DEF Unheard
<1> QED
  BY <1>2, <1>3, <1>4, <1>5, <1>6, <1>7, ServerPart

LEMMA SendKept ==
  ASSUME TabInv, TypeOK', MarksInv', NEW t \in Tabs, NEW h \in Handlers,
         Send(t, h)
  PROVE  TabPart'
<1>1. PICK K : K = handler[h]
  OBVIOUS
<1>2. PICK A : A = [Idle EXCEPT !.pc = Insert, !.user = Owner[t],
                                !.channel_id = Page[t]]
  OBVIOUS
<1>3. PICK B : B = [Idle EXCEPT !.pc = "reply", !.status = 303]
  OBVIOUS
<1>4. /\ A.pc = Insert /\ A.unread = {}
      /\ B.pc = "reply" /\ B.unread = {} /\ B.rows = {}
  BY <1>2, <1>3 DEF Idle
<1>5. Moves(h, K, A) \/ Moves(h, K, B)
  BY <1>1, <1>2, <1>3 DEF Moves, Send, PostMessage
<1>6. Stays /\ UNCHANGED <<tab, opens, failed, lost, haveread, nextMessage>>
  BY DEF Stays, Send, PostMessage, tabVars, tables
<1>7. Grows /\ late' \subseteq 1 .. MaxMessage
  BY <1>6, StaysGrows, LateType
<1>8. nextMessage + Cardinality(Accepted) <= MaxMessage
  BY DEF Send, PostMessage
<1>9. \A s \in Tabs : h \notin tab[s].requests
  <2>1. handler[h].pc = "idle"
    BY DEF Send, PostMessage, Idle
  <2> QED
    BY <2>1, PostUnheard
<1>10. CASE Moves(h, K, A)
  <2>1. ReaderKept(K, A) /\ ByRequest(A)
    BY <1>4 DEF ReaderKept, ByRequest, DelUser, DelChannel, DelMessage,
         DelHaveread, ReadMark, Count, Insert, Commit, Jsonify, Upsert
  <2> QED
    BY <1>6, <1>7, <1>8, <1>9, <1>10, <2>1, ServerPart
<1>11. CASE Moves(h, K, B)
  <2>1. ReaderKept(K, B) /\ ByRequest(B)
    BY <1>4 DEF ReaderKept, ByRequest, DelUser, DelChannel, DelMessage,
         DelHaveread, ReadMark, Count, Insert, Commit, Jsonify, Upsert
  <2> QED
    BY <1>6, <1>7, <1>8, <1>9, <1>11, <2>1, ServerPart
<1> QED
  BY <1>5, <1>10, <1>11

-----------------------------------------------------------------------------
(***************************************************************************)
(* A step of one tab.                                                      *)
(***************************************************************************)
\* Whatever a tab claims it has noted when it leaves the page.
LEMMA ClaimNoted ==
  ASSUME TabInv, NEW t \in Tabs, NEW m, Claims(t, m)
  PROVE  <<Owner[t], Page[t], m>> \in Note(t, Held(t))
<1>1. CASE Upserted(t) = {}
  <2>1. m = tab[t].last
    BY <1>1 DEF Claims
  <2> QED
    BY <2>1, NoteType
<1>2. CASE Upserted(t) # {}
  <2>1. PICK h \in Upserted(t) : \E r \in handler[h].rows : r.id = m
    BY <1>2 DEF Claims
  <2>2. h \in tab[t].requests
    BY <2>1 DEF Upserted
  <2>3. PICK r \in handler[h].rows : r.id = m
    BY <2>1
  <2> QED
    BY <2>2, <2>3, NoteType
<1> QED
  BY <1>1, <1>2

\* T is a page with at most one request, which follows what the page knows.
Sound(t, T) ==
    /\ T \in Tab
    /\ T.requests = {} \/ \E g \in Handlers : T.requests = {g}
    /\ T.fetched => T.loading /\ T.requests = {}
    /\ T.phase # "opening" /\ ~T.loading => T.requests = {}
    /\ Timeline(T, t)

\* What t does leaves the other tabs alone.
Apart(t, T) ==
    \A s \in Tabs : s # t => /\ tab[s].requests \cap T.requests = {}
                             /\ \A g \in tab[s].requests :
                                   handler'[g] = handler[g]

LEMMA TabStepTypes ==
  ASSUME TabInv, TypeOK', MarksInv', Stays, NEW t \in Tabs, NEW T,
         tab' = [tab EXCEPT ![t] = T], Sound(t, T), Apart(t, T),
         \A g \in T.requests : \E G : G = handler'[g] /\ Follows(G, T, t),
         opens' \in 0 .. MaxOpens, failed' \subseteq Tabs,
         lost' \subseteq Users \X Channels \X (0 .. MaxMessage)
  PROVE  TabTypeOK' /\ Flights' /\ Timelines'
<1>1. /\ tab \in [Tabs -> Tab] /\ tab'[t] = T /\ T \in Tab
      /\ \A s \in Tabs : s # t => tab'[s] = tab[s]
  BY DEF TabInv, TabTypeOK, Sound
<1>g. Grows
  BY StaysGrows
<1>2. Cardinality(T.requests) <= 1
  <2>1. CASE T.requests = {}
    BY <2>1, FS_EmptySet
  <2>2. ASSUME NEW g, T.requests = {g} PROVE Cardinality(T.requests) <= 1
    BY <2>2, FS_Singleton
  <2> QED
    BY <2>1, <2>2 DEF Sound
<1>3. TabTypeOK'
  <2>1. tab' \in [Tabs -> Tab]
    BY <1>1
  <2>2. ASSUME NEW s \in Tabs
        PROVE  /\ Cardinality(tab'[s].requests) <= 1
               /\ tab'[s].fetched => tab'[s].loading /\ tab'[s].requests = {}
               /\ tab'[s].phase # "opening" /\ ~tab'[s].loading =>
                     tab'[s].requests = {}
    <3>1. CASE s = t
      BY <1>1, <1>2, <3>1 DEF Sound
    <3>2. CASE s # t
      BY <1>1, <3>2 DEF TabInv, TabTypeOK
    <3> QED
      BY <3>1, <3>2
  <2>3. late' \subseteq 1 .. MaxMessage
    BY LateType
  <2> QED
    BY <2>1, <2>2, <2>3 DEF TabTypeOK
<1>4. ASSUME NEW s \in Tabs, NEW g \in tab'[s].requests
      PROVE  Follows(handler[g], tab[s], s)'
  <2>1. PICK S, G : S = tab'[s] /\ G = handler'[g]
    OBVIOUS
  <2>2. Follows(G, S, s)
    <3>1. CASE s = t
      BY <1>1, <1>4, <2>1, <3>1
    <3>2. CASE s # t
      <4>1. g \in tab[s].requests /\ S = tab[s]
        BY <1>1, <2>1, <3>2
      <4>2. G = handler[g]
        BY <2>1, <3>2, <4>1 DEF Apart
      <4> QED
        BY <4>1, <4>2, FlightFacts
    <3> QED
      BY <3>1, <3>2
  <2>3. Follows(G, S, s)'
    BY <1>g, <2>2, FollowsKept DEF TabInv
  <2> QED
    BY <2>1, <2>3
<1>5. Flights'
  <2>1. ASSUME NEW s \in Tabs PROVE \A f, g \in tab'[s].requests : f = g
    <3>1. CASE s = t
      BY <1>1, <3>1 DEF Sound
    <3>2. CASE s # t
      BY <1>1, <3>2 DEF TabInv, Flights
    <3> QED
      BY <3>1, <3>2
  <2>2. ASSUME NEW r \in Tabs, NEW s \in Tabs, r # s
        PROVE  tab'[r].requests \cap tab'[s].requests = {}
    <3>1. CASE r = t
      BY <1>1, <2>2, <3>1 DEF Apart
    <3>2. CASE s = t
      BY <1>1, <2>2, <3>2 DEF Apart
    <3>3. CASE r # t /\ s # t
      BY <1>1, <2>2, <3>3 DEF TabInv, Flights
    <3> QED
      BY <3>1, <3>2, <3>3
  <2> QED
    BY <1>4, <2>1, <2>2 DEF Flights
<1>6. ASSUME NEW s \in Tabs PROVE Timeline(tab[s], s)'
  <2>1. PICK S : S = tab'[s]
    OBVIOUS
  <2>2. Timeline(S, s) /\ S.last \in 0 .. MaxMessage
    <3>1. CASE s = t
      BY <1>1, <2>1, <3>1 DEF Sound, Tab
    <3>2. CASE s # t
      BY <1>1, <2>1, <3>2, TabFacts
    <3> QED
      BY <3>1, <3>2
  <2>3. Timeline(S, s)'
    BY <1>g, <2>2, TimelineKept DEF TabInv
  <2> QED
    BY <2>1, <2>3
<1>7. Timelines'
  BY <1>6 DEF Timelines
<1> QED
  BY <1>3, <1>5, <1>7

LEMMA TabStepMarks ==
  ASSUME TabInv, NEW t \in Tabs, NEW T, T.requests \subseteq Handlers,
         tab' = [tab EXCEPT ![t] = T], Apart(t, T), UNCHANGED haveread,
         lost \subseteq lost',
         \A g \in Reading' :
            \/ g \in T.requests
            \/ /\ g \in Reading /\ handler'[g] = handler[g]
               /\ g \in tab[t].requests => Note(t, Held(t)) \subseteq lost',
         \A m : Claims(t, m) =>
            Claims(t, m)' \/ Note(t, Held(t)) \subseteq lost'
  PROVE  Abandoned' /\ Marks'
<1>1. /\ tab'[t] = T
      /\ \A s \in Tabs : s # t => tab'[s] = tab[s]
  BY DEF TabInv, TabTypeOK
<1>2. ASSUME NEW g \in Reading'
      PROVE  \/ \E s \in Tabs : g \in tab'[s].requests
             \/ \A r \in handler'[g].rows :
                  <<handler'[g].user, handler'[g].channel_id, r.id>> \in lost'
  <2>1. CASE g \in T.requests
    BY <1>1, <2>1
  <2>2. CASE g \notin T.requests
    <3>1. /\ g \in Reading /\ handler'[g] = handler[g]
          /\ g \in tab[t].requests => Note(t, Held(t)) \subseteq lost'
      BY <1>2, <2>2
    <3>2. CASE g \in tab[t].requests
      <4>1. Follows(handler[g], tab[t], t)
        BY <3>2, FlightFacts
      <4>2. handler[g].user = Owner[t] /\ handler[g].channel_id = Page[t]
        BY <3>1, <4>1 DEF Reading, Follows
      <4>3. \A r \in handler[g].rows :
               <<Owner[t], Page[t], r.id>> \in Note(t, Held(t))
        BY <3>2, NoteType
      <4> QED
        BY <3>1, <3>2, <4>2, <4>3
    <3>3. CASE \E s \in Tabs : s # t /\ g \in tab[s].requests
      BY <1>1, <3>3
    <3>4. CASE \A s \in Tabs : g \notin tab[s].requests
      <4>1. \A r \in handler[g].rows :
               <<handler[g].user, handler[g].channel_id, r.id>> \in lost
        BY <3>1, <3>4 DEF TabInv, Abandoned
      <4> QED
        BY <3>1, <4>1
    <3> QED
      BY <3>2, <3>3, <3>4
  <2> QED
    BY <2>1, <2>2
<1>3. Abandoned'
  BY <1>2 DEF Abandoned
<1>4. ASSUME NEW u \in Users, NEW c \in Channels
      PROVE  \/ haveread'[u][c] = 0
             \/ \E s \in Tabs : /\ Owner[s] = u /\ Page[s] = c
                                /\ Claims(s, haveread[u][c])'
             \/ <<u, c, haveread'[u][c]>> \in lost'
  <2>1. PICK m : m = haveread[u][c] /\ m = haveread'[u][c]
    OBVIOUS
  <2>2. \/ m = 0
        \/ \E s \in Tabs : /\ Owner[s] = u /\ Page[s] = c /\ Claims(s, m)
        \/ <<u, c, m>> \in lost
    BY <2>1 DEF TabInv, Marks
  <2>3. ASSUME NEW s \in Tabs, Owner[s] = u, Page[s] = c, Claims(s, m)
        PROVE  Claims(s, m)' \/ <<u, c, m>> \in lost'
    <3>1. CASE s = t
      <4>1. <<u, c, m>> \in Note(t, Held(t))
        BY <2>3, <3>1, ClaimNoted
      <4> QED
        BY <2>3, <3>1, <4>1
    <3>2. CASE s # t
      <4>1. tab'[s] = tab[s]
        BY <1>1, <3>2
      <4>2. \A g \in tab[s].requests : handler'[g] = handler[g]
        BY <3>2 DEF Apart
      <4>3. Upserted(s)' = Upserted(s)
        BY <4>1, <4>2 DEF Upserted
      <4>4. \A g \in Upserted(s) : handler'[g].rows = handler[g].rows
        BY <4>2 DEF Upserted
      <4> QED
        BY <2>3, <4>1, <4>3, <4>4, ClaimsKept
    <3> QED
      BY <3>1, <3>2
  <2>4. ASSUME NEW s \in Tabs, Claims(s, m)'
        PROVE  Claims(s, haveread[u][c])'
    BY <2>1, <2>4
  <2>5. CASE m = 0
    BY <2>1, <2>5
  <2>6. CASE <<u, c, m>> \in lost
    BY <2>1, <2>6
  <2>7. CASE \E s \in Tabs : Owner[s] = u /\ Page[s] = c /\ Claims(s, m)
    BY <2>1, <2>3, <2>4, <2>7
  <2> QED
    BY <2>2, <2>5, <2>6, <2>7
<1>5. Marks'
  BY <1>4 DEF Marks
<1> QED
  BY <1>3, <1>5

\* A tab takes a free goroutine for a request and waits for its answer.
LEMMA TakeKept ==
  ASSUME TabInv, TypeOK', MarksInv', Stays,
         UNCHANGED <<haveread, nextMessage>>,
         NEW t \in Tabs, NEW h \in Handlers, NEW T, NEW H,
         Moves(h, Idle, H), tab' = [tab EXCEPT ![t] = T],
         Sound(t, T), T.requests = {h},
         Follows(H, T, t), ByRequest(H), H.pc # Insert, ~Finished(H),
         opens' \in 0 .. MaxOpens, failed' \subseteq Tabs,
         lost \subseteq lost',
         lost' \subseteq Users \X Channels \X (0 .. MaxMessage),
         \/ Note(t, Held(t)) \subseteq lost'
         \/ tab[t].requests = {} /\ T.last = tab[t].last
  PROVE  TabPart'
<1>1. \A s \in Tabs : h \notin tab[s].requests
  <2>1. handler[h].pc = "idle"
    BY DEF Moves, Idle
  <2> QED
    BY <2>1, PostUnheard
<1>2. handler'[h] = H /\ \A g \in Handlers : g # h => handler'[g] = handler[g]
  BY Moved DEF TabInv
<1>3. Apart(t, T)
  <2>1. ASSUME NEW s \in Tabs, NEW g \in tab[s].requests
        PROVE  handler'[g] = handler[g]
    <3>1. g \in Handlers /\ g # h
      BY <1>1, FlightFacts
    <3> QED
      BY <1>2, <3>1
  <2> QED
    BY <1>1, <2>1 DEF Apart
<1>4. \A g \in T.requests : \E G : G = handler'[g] /\ Follows(G, T, t)
  BY <1>2
<1>5. TabTypeOK' /\ Flights' /\ Timelines'
  BY <1>3, <1>4, TabStepTypes
<1>6. ASSUME NEW g \in Reading'
      PROVE  \/ g \in T.requests
             \/ /\ g \in Reading /\ handler'[g] = handler[g]
                /\ g \in tab[t].requests => Note(t, Held(t)) \subseteq lost'
  <2>1. g \in Handlers /\ handler'[g].pc \in {Jsonify, Upsert}
    BY <1>6 DEF Reading
  <2>2. CASE g = h
    BY <2>2
  <2>3. CASE g # h
    <3>1. handler'[g] = handler[g]
      BY <1>2, <2>1, <2>3
    <3>2. g \in Reading
      BY <2>1, <3>1 DEF Reading
    <3> QED
      BY <3>1, <3>2
  <2> QED
    BY <2>2, <2>3
<1>7. ASSUME NEW m, Claims(t, m)
      PROVE  Claims(t, m)' \/ Note(t, Held(t)) \subseteq lost'
  <2> SUFFICES ASSUME tab[t].requests = {} /\ T.last = tab[t].last
               PROVE  Claims(t, m)'
    OBVIOUS
  <2>1. m = T.last
    BY <1>7 DEF Claims, Upserted
  <2>2. tab'[t] = T
    BY DEF TabInv, TabTypeOK
  <2>3. Upserted(t)' = {}
    BY <1>2, <2>2 DEF Upserted, Finished
  <2> QED
    BY <2>1, <2>2, <2>3 DEF Claims
<1>8. T.requests \subseteq Handlers
  OBVIOUS
<1>9. Abandoned' /\ Marks'
  BY <1>3, <1>6, <1>7, <1>8, TabStepMarks
<1>10. Room'
  BY RoomKept DEF TabInv
<1>11. \A g \in Handlers : ByRequest(handler[g])'
  BY RequestsKept DEF TabInv
<1> QED
  BY <1>5, <1>9, <1>10, <1>11 DEF TabPart

\* queryMessages leaves out only what the LIMIT cuts off.
LEMMA GetFollows ==
  ASSUME TabInv, NEW t \in Tabs, NEW h \in Handlers, NEW last \in Nat,
         GetMessage(h, Owner[t], Page[t], last), NEW T, T.last = last
  PROVE  \E H : /\ Moves(h, Idle, H) /\ H.pc = Jsonify
                /\ Follows(H, T, t) /\ ByRequest(H)
<1>1. PICK S, N, b : /\ S = After(Page[t], last) /\ N = Newest(S, Limit)
                     /\ b = haveread[Owner[t]][Page[t]]
  OBVIOUS
<1>2. PICK H : H = [Idle EXCEPT !.pc = Jsonify, !.user = Owner[t],
                                !.channel_id = Page[t], !.last = last,
                                !.rows = N, !.base = b]
  OBVIOUS
<1>3. Moves(h, Idle, H)
  BY <1>1, <1>2 DEF GetMessage, Moves
<1>4. /\ H.pc = Jsonify /\ H.user = Owner[t] /\ H.channel_id = Page[t]
      /\ H.rows = N /\ H.unread = {}
  BY <1>2 DEF Idle
<1>5. ByRequest(H)
  BY <1>4 DEF ByRequest, DelUser, DelChannel, DelMessage, DelHaveread,
       ReadMark, Count, Insert, Commit, Jsonify, Upsert
<1>6. PICK C : C = InChannel(Page[t])
  OBVIOUS
<1>7. /\ C \in SUBSET Row /\ IsFiniteSet(C)
      /\ \A r, s \in C : r.id = s.id => r = s
      /\ \A r \in C : r.id \in Nat
  BY <1>6, ChannelRows DEF TabInv, MarksInv
<1>8. S = {r \in C : r.id > last} /\ N \subseteq S
  BY <1>1, <1>6 DEF After, Newest
<1>9. /\ S \in SUBSET Row /\ IsFiniteSet(S)
      /\ \A r, s \in S : r.id = s.id => r = s
  <2>1. S \subseteq C
    BY <1>8
  <2> QED
    BY <1>7, <2>1, FS_Subset
<1>10. ASSUME NEW r \in C \ N, last < r.id
       PROVE  Missed(r, N)
  <2>1. r \in S /\ r \notin Newest(S, Limit)
    BY <1>1, <1>7, <1>8, <1>10
  <2>2. Limit \in Nat
    BY NumbersAssumption
  <2>3. /\ \A s \in N : r.id < s.id
        /\ Cardinality(N) >= Limit
    BY <1>1, <1>9, <2>1, <2>2, CutOff
  <2> QED
    BY <2>3 DEF Missed
<1>11. \A r \in N : r \in C /\ last < r.id
  BY <1>7, <1>8
<1>12. Follows(H, T, t)
  BY <1>4, <1>6, <1>10, <1>11 DEF Follows
<1> QED
  BY <1>3, <1>4, <1>5, <1>12

LEMMA SendGetKept ==
  ASSUME TabInv, TypeOK', MarksInv', NEW t \in Tabs, NEW h \in Handlers,
         SendGet(t, h)
  PROVE  TabPart'
<1>1. PICK B : B = tab[t]
  OBVIOUS
<1>2. PICK T : T = [B EXCEPT !.fetched = FALSE, !.requests = B.requests \cup {h}]
  OBVIOUS
<1>3. B \in Tab /\ Timeline(B, t) /\ B.fetched /\ B.last \in Nat
  <2>1. B.last \in 0 .. MaxMessage
    BY <1>1, TabFacts
  <2> QED
    BY <1>1, <2>1, TabFacts DEF SendGet
<1>4. B.loading /\ B.requests = {}
  BY <1>1, <1>3 DEF TabInv, TabTypeOK
<1>5. tab' = [tab EXCEPT ![t] = T]
  BY <1>1, <1>2 DEF SendGet, TabInv, TabTypeOK
<1>6. /\ T.fetched = FALSE /\ T.loading = B.loading /\ T.requests = {h}
      /\ T.last = B.last /\ T.timeline = B.timeline /\ T \in Tab
  BY <1>2, <1>3, <1>4 DEF Tab
<1>7. Timeline(T, t)
  BY <1>3, <1>6, TimelineSame
<1>8. Sound(t, T)
  BY <1>4, <1>6, <1>7 DEF Sound
<1>9. PICK H : /\ Moves(h, Idle, H) /\ H.pc = Jsonify
               /\ Follows(H, T, t) /\ ByRequest(H)
  BY <1>1, <1>3, <1>6, GetFollows DEF SendGet
<1>10. H.pc # Insert /\ ~Finished(H)
  BY <1>9 DEF Finished, Jsonify, Insert
<1>11. /\ Stays /\ UNCHANGED <<haveread, nextMessage, lost>>
       /\ opens' \in 0 .. MaxOpens /\ failed' \subseteq Tabs
       /\ lost' \subseteq Users \X Channels \X (0 .. MaxMessage)
  BY DEF SendGet, GetMessage, Stays, tables, TabInv, TabTypeOK
<1> QED
  BY <1>1, <1>4, <1>5, <1>6, <1>8, <1>9, <1>10, <1>11, TakeKept

LEMMA OpenKept ==
  ASSUME TabInv, TypeOK', MarksInv', NEW t \in Tabs, NEW h \in Handlers,
         Open(t, h)
  PROVE  TabPart'
<1>1. PICK T : T = [Closed EXCEPT !.phase = "opening", !.requests = {h}]
  OBVIOUS
<1>2. tab' = [tab EXCEPT ![t] = T]
  BY <1>1 DEF Open
<1>3. /\ T.phase = "opening" /\ T.fetched = FALSE /\ T.loading = FALSE
      /\ T.last = 0 /\ T.timeline = <<>> /\ T.requests = {h}
  BY <1>1 DEF Closed
<1>4. T \in Tab
  <2>1. 0 \in 0 .. MaxMessage /\ <<>> \in Seq(1 .. MaxMessage)
    BY NumbersAssumption
  <2> QED
    BY <1>1, <2>1 DEF Closed, Tab
<1>5. Timeline(T, t)
  <2>1. DOMAIN T.timeline = {} /\ Len(T.timeline) <= Trim
    BY <1>3, TabsAssumption, NumbersAssumption
  <2>2. \A r \in InChannel(Page[t]) : ~(r.id <= 0)
    <3>1. \A r \in message : r.id \in 1 .. MaxMessage
      BY RowsBound DEF TabInv, MarksInv
    <3> QED
      BY <3>1 DEF InChannel
  <2> QED
    BY <1>3, <2>1, <2>2 DEF Timeline, Increasing
<1>6. Sound(t, T)
  BY <1>3, <1>4, <1>5 DEF Sound
<1>7. PICK H : /\ Moves(h, Idle, H) /\ H.pc = Jsonify
               /\ Follows(H, T, t) /\ ByRequest(H)
  <2>1. GetMessage(h, Owner[t], Page[t], 0) /\ 0 \in Nat
    BY DEF Open
  <2> QED
    BY <1>3, <2>1, GetFollows
<1>8. H.pc # Insert /\ ~Finished(H)
  BY <1>7 DEF Finished, Jsonify, Insert
<1>9. Stays /\ UNCHANGED <<haveread, nextMessage>>
  BY DEF Open, GetMessage, Stays, tables
<1>10. opens' \in 0 .. MaxOpens /\ failed' \subseteq Tabs
  <2>1. opens' = opens + 1 /\ opens < MaxOpens /\ failed' = failed \ {t}
    BY DEF Open
  <2>2. opens \in 0 .. MaxOpens /\ failed \subseteq Tabs
    BY DEF TabInv, TabTypeOK
  <2> QED
    BY <2>1, <2>2, TabsAssumption
<1>11. /\ lost \subseteq lost' /\ Note(t, Held(t)) \subseteq lost'
       /\ lost' \subseteq Users \X Channels \X (0 .. MaxMessage)
  <2>1. lost' = lost \cup Note(t, Held(t))
    BY DEF Open
  <2>2. lost \subseteq Users \X Channels \X (0 .. MaxMessage)
    BY DEF TabInv, TabTypeOK
  <2>3. Note(t, Held(t)) \subseteq Users \X Channels \X (0 .. MaxMessage)
    BY NoteType
  <2> QED
    BY <2>1, <2>2, <2>3
<1> QED
  BY <1>2, <1>3, <1>6, <1>7, <1>8, <1>9, <1>10, <1>11, TakeKept

LEMMA PollKept ==
  ASSUME TabInv, TypeOK', MarksInv', NEW t \in Tabs, NEW h \in Handlers,
         Poll(t, h)
  PROVE  TabPart'
<1>1. PICK B : B = tab[t]
  OBVIOUS
<1>2. PICK T : T = [B EXCEPT !.loading = TRUE, !.requests = B.requests \cup {h}]
  OBVIOUS
<1>3. B \in Tab /\ Timeline(B, t) /\ B.phase = "polling" /\ ~B.loading
  BY <1>1, TabFacts DEF Poll
<1>4. B.requests = {} /\ ~B.fetched
  BY <1>1, <1>3 DEF TabInv, TabTypeOK
<1>5. tab' = [tab EXCEPT ![t] = T]
  BY <1>1, <1>2 DEF Poll, TabInv, TabTypeOK
<1>6. /\ T.fetched = B.fetched /\ T.loading = TRUE /\ T.requests = {h}
      /\ T.last = B.last /\ T.timeline = B.timeline /\ T \in Tab
  BY <1>2, <1>3, <1>4 DEF Tab
<1>7. Timeline(T, t)
  BY <1>3, <1>6, TimelineSame
<1>8. Sound(t, T)
  BY <1>4, <1>6, <1>7 DEF Sound
<1>9. PICK A : A = [Idle EXCEPT !.pc = "reply", !.status = 200,
                                !.user = Owner[t]]
  OBVIOUS
<1>10. PICK C : C = [Idle EXCEPT !.pc = ReadMark, !.user = Owner[t],
                                 !.todo = channel]
  OBVIOUS
<1>11. \E H : Moves(h, Idle, H) /\ (H = A \/ H = C)
  BY <1>9, <1>10 DEF Poll, FetchUnread, Moves
<1>12. PICK H : Moves(h, Idle, H) /\ (H = A \/ H = C)
  BY <1>11
<1>13. H.pc \in {ReadMark, "reply"} /\ H.rows = {} /\ H.unread = {}
  <2>1. A.pc = "reply" /\ A.rows = {} /\ A.unread = {}
    BY <1>9 DEF Idle
  <2>2. C.pc = ReadMark /\ C.rows = {} /\ C.unread = {}
    BY <1>10 DEF Idle
  <2> QED
    BY <1>12, <2>1, <2>2
<1>14. ByRequest(H) /\ H.pc # Insert /\ ~Finished(H)
  BY <1>13 DEF ByRequest, Finished, DelUser, DelChannel, DelMessage,
       DelHaveread, ReadMark, Count, Insert, Commit, Jsonify, Upsert
<1>15. Follows(H, T, t)
  BY <1>13 DEF Follows, ReadMark, Jsonify, Upsert
<1>16. /\ Stays /\ UNCHANGED <<haveread, nextMessage, lost>>
       /\ opens' \in 0 .. MaxOpens /\ failed' \subseteq Tabs
       /\ lost' \subseteq Users \X Channels \X (0 .. MaxMessage)
  BY DEF Poll, FetchUnread, Stays, tables, TabInv, TabTypeOK
<1> QED
  BY <1>1, <1>4, <1>5, <1>6, <1>8, <1>12, <1>14, <1>15, <1>16, TakeKept

\* A tab gets the answer it waits for.
LEMMA AnswerKept ==
  ASSUME TabInv, TypeOK', MarksInv', Stays,
         UNCHANGED <<haveread, nextMessage>>,
         NEW t \in Tabs, NEW h \in tab[t].requests, NEW T, NEW K,
         Moves(h, K, Idle), tab' = [tab EXCEPT ![t] = T],
         Sound(t, T), T.requests = {},
         opens' \in 0 .. MaxOpens, failed' \subseteq Tabs,
         lost \subseteq lost',
         lost' \subseteq Users \X Channels \X (0 .. MaxMessage),
         \/ Note(t, Held(t)) \subseteq lost'
         \/ \A m : Claims(t, m) => m = T.last
  PROVE  TabPart'
<1>1. h \in Handlers /\ tab[t].requests = {h}
  BY FlightFacts
<1>2. handler'[h] = Idle /\ \A g \in Handlers : g # h => handler'[g] = handler[g]
  BY <1>1, Moved DEF TabInv
<1>3. Apart(t, T)
  <2>1. ASSUME NEW s \in Tabs, s # t, NEW g \in tab[s].requests
        PROVE  handler'[g] = handler[g]
    <3>1. g \in Handlers
      BY FlightFacts
    <3>2. g # h
      BY <2>1 DEF TabInv, Flights
    <3> QED
      BY <1>2, <3>1, <3>2
  <2> QED
    BY <2>1 DEF Apart
<1>4. \A g \in T.requests : \E G : G = handler'[g] /\ Follows(G, T, t)
  OBVIOUS
<1>5. TabTypeOK' /\ Flights' /\ Timelines'
  BY <1>3, <1>4, TabStepTypes
<1>6. ASSUME NEW g \in Reading'
      PROVE  \/ g \in T.requests
             \/ /\ g \in Reading /\ handler'[g] = handler[g]
                /\ g \in tab[t].requests => Note(t, Held(t)) \subseteq lost'
  <2>1. g \in Handlers /\ handler'[g].pc \in {Jsonify, Upsert}
    BY <1>6 DEF Reading
  <2>2. g # h
    BY <1>2, <2>1 DEF Idle, Jsonify, Upsert
  <2>3. handler'[g] = handler[g]
    BY <1>2, <2>1, <2>2
  <2>4. g \in Reading
    BY <2>1, <2>3 DEF Reading
  <2> QED
    BY <1>1, <2>2, <2>3, <2>4
<1>7. ASSUME NEW m, Claims(t, m)
      PROVE  Claims(t, m)' \/ Note(t, Held(t)) \subseteq lost'
  <2> SUFFICES ASSUME m = T.last PROVE Claims(t, m)'
    BY <1>7
  <2>1. tab'[t] = T
    BY DEF TabInv, TabTypeOK
  <2>2. Upserted(t)' = {}
    BY <2>1 DEF Upserted
  <2> QED
    BY <2>1, <2>2 DEF Claims
<1>8. T.requests \subseteq Handlers
  OBVIOUS
<1>9. Abandoned' /\ Marks'
  BY <1>3, <1>6, <1>7, <1>8, TabStepMarks
<1>10. ByRequest(Idle) /\ Idle.pc # Insert
  BY DEF ByRequest, Idle, DelUser, DelChannel, DelMessage, DelHaveread,
         ReadMark, Count, Insert, Commit, Jsonify, Upsert
<1>11. Room'
  BY <1>1, <1>10, RoomKept DEF TabInv
<1>12. \A g \in Handlers : ByRequest(handler[g])'
  BY <1>1, <1>10, RequestsKept DEF TabInv
<1> QED
  BY <1>5, <1>9, <1>11, <1>12 DEF TabPart

\* The page after an answer to get_message.
LEMMA NewPage ==
  ASSUME TabInv, NEW t \in Tabs, NEW h \in tab[t].requests,
         NEW B, B = tab[t], NEW R, R = handler[h].rows,
         NEW last, last = LastId(B.last, R),
         NEW line, line = Append100(B.timeline, R),
         NEW T, T.last = last, T.timeline = line
  PROVE  /\ last \in 0 .. MaxMessage /\ line \in Seq(1 .. MaxMessage)
         /\ Timeline(T, t)
         /\ R = {} => last = B.last
         /\ \A r \in R : IsFirst(r, R) => last = r.id
<1>1. /\ R \in SUBSET Row /\ IsFiniteSet(R)
      /\ \A r, s \in R : r.id = s.id => r = s
      /\ \A r \in R : r.id \in 1 .. MaxMessage
      /\ Follows(handler[h], B, t)
  BY FlightFacts
<1>2. B \in Tab /\ Timeline(B, t) /\ B.last \in 0 .. MaxMessage
  BY TabFacts
<1>3. MaxMessage \in Nat /\ B.last \in Nat
  BY <1>2, NumbersAssumption
<1>4. PICK C : C = InChannel(Page[t])
  OBVIOUS
<1>5. /\ R \subseteq C /\ \A r \in R : B.last < r.id
      /\ \A r \in C \ R : B.last < r.id /\ (\E n \in R : r.id <= n.id)
                            => Missed(r, R)
      /\ \A r \in C : r.id \in Nat
  <2>1. \A r \in C : r.id \in Nat
    BY <1>4, ChannelRows DEF TabInv, MarksInv
  <2> QED
    BY <1>1, <1>4, <2>1 DEF Follows
<1>6. PICK I : I = Ids(R)
  OBVIOUS
<1>7. /\ I \in SUBSET Nat /\ IsFiniteSet(I)
      /\ \A i \in I : \E r \in R : r.id = i
      /\ \A r \in R : r.id \in I
  BY <1>1, <1>6, IdsOf DEF Ids
<1>8. /\ last \in {B.last} \cup I
      /\ \A j \in {B.last} \cup I : j <= last
  <2>1. IsFiniteSet({B.last} \cup I)
    BY <1>7, FS_AddElement
  <2>2. last = Max({B.last} \cup I)
    BY <1>6 DEF LastId
  <2>3. {B.last} \cup I \in SUBSET Nat /\ {B.last} \cup I # {}
    BY <1>3, <1>7
  <2> QED
    BY <2>1, <2>2, <2>3, MaxOf
<1>9. PICK old : old = B.timeline
  OBVIOUS
<1>10. /\ old \in Seq(1 .. MaxMessage) /\ Increasing(old)
       /\ \A i \in DOMAIN old : old[i] <= B.last
       /\ B.last = 0 \/ \E n \in C : n.id = B.last
       /\ \A r \in C : r.id <= B.last => Shown(B, r)
  BY <1>2, <1>4, <1>9 DEF Timeline, Tab
<1>11. /\ old \in Seq(Nat)
       /\ \A i \in DOMAIN old : old[i] \in 1 .. MaxMessage
  BY <1>3, <1>10
<1>12. /\ line \in Seq(Nat) /\ Increasing(line) /\ Len(line) <= Trim
       /\ \A i \in DOMAIN line : line[i] \in Range(old) \cup I
       /\ \A x \in Range(old) \cup I :
            x \in Range(line) \/ (Len(line) >= Trim /\ x < Head(line))
       /\ \A x \in Nat : Len(old) >= Trim /\ x < Head(old) =>
                           Len(line) >= Trim /\ x < Head(line)
       /\ Cardinality(R) >= Trim =>
            Len(line) >= Trim /\ Head(line) \in I
  <2>1. line = Append100(old, R)
    BY <1>9
  <2>a. PICK l \in Nat : l = B.last
    BY <1>3
  <2>b. \A i \in DOMAIN old : old[i] <= l
    BY <1>10, <2>a
  <2>c. \A r \in R : l < r.id
    BY <1>5, <2>a
  <2>d. \A r, s \in R : r.id = s.id => r = s
    BY <1>1
  <2>e. R \in SUBSET Row /\ IsFiniteSet(R)
    BY <1>1
  <2>f. old \in Seq(Nat) /\ Increasing(old)
    BY <1>10, <1>11
  <2>2. /\ line \in Seq(Nat) /\ Increasing(line) /\ Len(line) <= Trim
        /\ \A i \in DOMAIN line : line[i] \in Range(old) \cup Ids(R)
        /\ \A x \in Range(old) \cup Ids(R) :
             x \in Range(line) \/ (Len(line) >= Trim /\ x < Head(line))
        /\ \A x \in Nat : Len(old) >= Trim /\ x < Head(old) =>
                            Len(line) >= Trim /\ x < Head(line)
        /\ Cardinality(R) >= Trim =>
             Len(line) >= Trim /\ Head(line) \in Ids(R)
    BY <2>1, <2>b, <2>c, <2>d, <2>e, <2>f, Appended
  <2> QED
    BY <1>6, <2>2
<1>13. \A x \in Range(old) : x \in 1 .. MaxMessage /\ x <= B.last
  BY <1>10, <1>11 DEF Range
<1>14. \A x \in I : x \in 1 .. MaxMessage /\ B.last < x
  BY <1>1, <1>5, <1>7
<1>15. last \in 0 .. MaxMessage /\ last \in Nat
  BY <1>2, <1>3, <1>8, <1>14
<1>16. \A i \in DOMAIN line : line[i] \in 1 .. MaxMessage /\ line[i] <= last
  <2> TAKE i \in DOMAIN line
  <2>1. CASE line[i] \in Range(old)
    <3>1. line[i] \in 1 .. MaxMessage /\ line[i] <= B.last
      BY <1>13, <2>1
    <3>2. B.last <= last
      BY <1>8
    <3> QED
      BY <1>3, <1>15, <3>1, <3>2
  <2>2. CASE line[i] \in I
    BY <1>8, <1>14, <2>2
  <2> QED
    BY <1>12, <2>1, <2>2
<1>17. line \in Seq(1 .. MaxMessage)
  <2>1. PICK s : s = line
    OBVIOUS
  <2>2. PICK n \in Nat : n = Len(s)
    BY <1>12, <2>1
  <2>3. s \in [1 .. n -> Nat] /\ DOMAIN s = 1 .. n
    BY <1>12, <2>1, <2>2
  <2>4. s \in [1 .. n -> 1 .. MaxMessage]
    BY <1>16, <2>1, <2>3
  <2>5. s \in Seq(1 .. MaxMessage)
    <3>1. PICK D : D = 1 .. MaxMessage
      OBVIOUS
    <3>2. s \in [1 .. n -> D]
      BY <2>4, <3>1
    <3>3. s \in Seq(D)
      BY <3>2
    <3> QED
      BY <3>1, <3>3
  <2> QED
    BY <2>1, <2>5
<1>18. last = 0 \/ \E n \in C : n.id = last
  <2>1. CASE last = B.last
    BY <1>10, <2>1
  <2>2. CASE last \in I
    BY <1>5, <1>7, <2>2
  <2> QED
    BY <1>8, <2>1, <2>2
<1>19. ASSUME NEW r \in C, r.id <= last
       PROVE  Shown(T, r)
  <2>0. r.id \in Nat
    BY <1>5
  <2>1. CASE r.id <= B.last
    <3>1. Shown(B, r)
      BY <1>10, <2>1
    <3>2. CASE r.id \in Range(old)
      BY <1>12, <3>2 DEF Shown
    <3>3. CASE r.id \in late
      BY <3>3 DEF Shown
    <3>4. CASE Len(old) >= Trim /\ r.id < Head(old)
      BY <1>12, <2>0, <3>4 DEF Shown
    <3> QED
      BY <1>9, <3>1, <3>2, <3>3, <3>4 DEF Shown
  <2>2. CASE r \in R
    <3>1. r.id \in I
      BY <1>7, <2>2
    <3> QED
      BY <1>12, <3>1 DEF Shown
  <2>3. CASE r \notin R /\ B.last < r.id
    <3>1. last \in I
      BY <1>3, <1>8, <1>15, <1>19, <2>0, <2>3
    <3>2. PICK n \in R : n.id = last
      BY <1>7, <3>1
    <3>3. Missed(r, R)
      BY <1>5, <1>19, <2>3, <3>2
    <3>4. CASE r.id \in late
      BY <3>4 DEF Shown
    <3>5. CASE Cardinality(R) >= Limit /\ \A k \in R : r.id < k.id
      <4>1. Cardinality(R) \in Nat /\ Trim \in Nat /\ Limit \in Nat
            /\ Trim <= Limit
        BY <1>1, FS_CardinalityType, TabsAssumption, NumbersAssumption
      <4>2. Cardinality(R) >= Trim
        BY <3>5, <4>1
      <4>3. Len(line) >= Trim /\ Head(line) \in I
        BY <1>12, <4>2
      <4>4. r.id < Head(line)
        BY <1>7, <3>5, <4>3
      <4> QED
        BY <4>3, <4>4 DEF Shown
    <3> QED
      BY <3>3, <3>4, <3>5 DEF Missed
  <2>4. r.id <= B.last \/ B.last < r.id
    BY <1>3, <2>0
  <2> QED
    BY <2>1, <2>2, <2>3, <2>4
<1>20. Timeline(T, t)
  BY <1>4, <1>12, <1>16, <1>18, <1>19 DEF Timeline
<1>21. R = {} => last = B.last
  BY <1>7, <1>8
<1>22. ASSUME NEW r \in R, IsFirst(r, R) PROVE last = r.id
  <2>1. \A x \in I : x <= r.id
    BY <1>7, <1>22 DEF IsFirst
  <2>2. r.id \in I /\ B.last < r.id
    BY <1>7, <1>14
  <2>3. r.id <= last /\ r.id \in Nat
    BY <1>7, <1>8, <2>2
  <2>4. last # B.last
    BY <1>3, <2>2, <2>3
  <2>5. last <= r.id
    BY <1>8, <2>1, <2>4
  <2> QED
    BY <1>15, <2>3, <2>5
<1> QED
  BY <1>15, <1>17, <1>20, <1>21, <1>22

LEMMA ReceiveMessagesKept ==
  ASSUME TabInv, TypeOK', MarksInv', NEW t \in Tabs, NEW h \in Handlers,
         ReceiveMessages(t, h)
  PROVE  TabPart'
<1>1. PICK B, K, R : B = tab[t] /\ K = handler[h] /\ R = K.rows
  OBVIOUS
<1>2. PICK last, line : /\ last = LastId(B.last, R)
                        /\ line = Append100(B.timeline, R)
  OBVIOUS
<1>3. PICK Q : Q = B.requests \ {h}
  OBVIOUS
<1>4. PICK T : T = [B EXCEPT !.phase = "polling", !.loading = FALSE,
                             !.last = last, !.timeline = line,
                             !.requests = Q]
  OBVIOUS
<1>5. /\ h \in tab[t].requests /\ K.status = 200 /\ K.pc = "reply"
      /\ Moves(h, K, Idle)
  BY <1>1 DEF ReceiveMessages, Answered, Respond, Moves
<1>6. B \in Tab /\ Q = {} /\ ~B.fetched
  <2>1. B \in Tab
    BY <1>1, TabFacts
  <2>2. B.requests = {h}
    BY <1>1, <1>5, FlightFacts
  <2>3. B.fetched => B.requests = {}
    BY <1>1 DEF TabInv, TabTypeOK
  <2> QED
    BY <1>3, <2>1, <2>2, <2>3
<1>7. tab' = [tab EXCEPT ![t] = T]
  <2>1. tab' = [tab EXCEPT ![t] =
                  [tab[t] EXCEPT
                     !.phase = "polling", !.loading = FALSE,
                     !.last = LastId(tab[t].last, handler[h].rows),
                     !.timeline = Append100(tab[t].timeline, handler[h].rows),
                     !.requests = tab[t].requests \ {h}]]
    BY DEF ReceiveMessages
  <2>2. /\ LastId(tab[t].last, handler[h].rows) = last
        /\ Append100(tab[t].timeline, handler[h].rows) = line
        /\ tab[t].requests \ {h} = Q
    BY <1>1, <1>2, <1>3
  <2> QED
    BY <1>1, <1>4, <2>1, <2>2
<1>8. /\ T.phase = "polling" /\ T.loading = FALSE /\ T.fetched = B.fetched
      /\ T.last = last /\ T.timeline = line /\ T.requests = {}
  BY <1>4, <1>6 DEF Tab
<1>9. /\ last \in 0 .. MaxMessage /\ line \in Seq(1 .. MaxMessage)
      /\ Timeline(T, t)
      /\ R = {} => last = B.last
      /\ \A r \in R : IsFirst(r, R) => last = r.id
  <2>1. R = handler[h].rows
    BY <1>1
  <2> QED
    BY <1>1, <1>2, <1>5, <1>8, <2>1, NewPage
<1>10. T \in Tab
  <2>1. PICK D, N : D = 0 .. MaxMessage /\ N = Seq(1 .. MaxMessage)
    OBVIOUS
  <2>2. last \in D /\ line \in N
    BY <1>9, <2>1
  <2>3. Tab = [phase : {"closed", "opening", "polling"}, loading : BOOLEAN,
               fetched : BOOLEAN, last : D, timeline : N,
               requests : SUBSET Handlers]
    BY <2>1 DEF Tab
  <2> QED
    BY <1>4, <1>6, <2>2, <2>3
<1>11. Sound(t, T)
  BY <1>6, <1>8, <1>9, <1>10 DEF Sound
<1>12. \A m : Claims(t, m) => m = T.last
  <2> TAKE m
  <2> HAVE Claims(t, m)
  <2>1. CASE R = {}
    <3>1. Upserted(t) = {}
      <4>1. tab[t].requests = {h} /\ handler[h].rows = {}
        BY <1>1, <1>5, <2>1, FlightFacts
      <4> QED
        BY <4>1 DEF Upserted
    <3>2. m = tab[t].last
      BY <3>1 DEF Claims
    <3> QED
      BY <1>1, <1>8, <1>9, <2>1, <3>2
  <2>2. CASE R # {}
    <3>1. h \in Upserted(t)
      BY <1>1, <1>5, <2>2 DEF Upserted
    <3>2. PICK r \in handler[h].rows : r.id = m /\ IsFirst(r, handler[h].rows)
      BY <3>1 DEF Claims
    <3> QED
      BY <1>1, <1>8, <1>9, <3>2
  <2> QED
    BY <2>1, <2>2
<1>13. /\ Stays /\ UNCHANGED <<haveread, nextMessage, lost>>
       /\ opens' \in 0 .. MaxOpens /\ failed' \subseteq Tabs
       /\ lost' \subseteq Users \X Channels \X (0 .. MaxMessage)
  BY DEF ReceiveMessages, Answered, Respond, Stays, tables, TabInv, TabTypeOK
<1> QED
  BY <1>5, <1>7, <1>8, <1>11, <1>12, <1>13, AnswerKept

LEMMA ReceiveFetchKept ==
  ASSUME TabInv, TypeOK', MarksInv', NEW t \in Tabs, NEW h \in Handlers,
         ReceiveFetch(t, h)
  PROVE  TabPart'
<1>1. PICK B, K : B = tab[t] /\ K = handler[h]
  OBVIOUS
<1>2. PICK updated \in BOOLEAN :
         updated = \E p \in K.unread : p[1] = Page[t] /\ 0 < p[2]
  OBVIOUS
<1>3. PICK Q : Q = B.requests \ {h}
  OBVIOUS
<1>4. PICK T : T = [B EXCEPT !.fetched = updated, !.loading = updated,
                             !.requests = Q]
  OBVIOUS
<1>5. /\ h \in tab[t].requests /\ K.unread # {} /\ Moves(h, K, Idle)
  BY <1>1 DEF ReceiveFetch, Answered, IsFetch, Respond, Moves
<1>6. B \in Tab /\ Timeline(B, t) /\ Q = {}
  BY <1>1, <1>3, <1>5, TabFacts, FlightFacts
<1>7. tab' = [tab EXCEPT ![t] = T]
  BY <1>1, <1>2, <1>3, <1>4 DEF ReceiveFetch, TabInv, TabTypeOK
<1>8. /\ T.loading = updated /\ T.fetched = updated
      /\ T.last = B.last /\ T.timeline = B.timeline /\ T.requests = {}
      /\ T \in Tab
  BY <1>4, <1>6 DEF Tab
<1>9. Timeline(T, t)
  BY <1>6, <1>8, TimelineSame
<1>10. Sound(t, T)
  BY <1>8, <1>9 DEF Sound
<1>11. \A m : Claims(t, m) => m = T.last
  <2> TAKE m
  <2> HAVE Claims(t, m)
  <2>1. K.rows = {}
    BY <1>1, <1>5, FlightFacts DEF ByRequest
  <2>2. Upserted(t) = {}
    BY <1>1, <1>5, <2>1, FlightFacts DEF Upserted
  <2> QED
    BY <1>1, <1>8, <2>2 DEF Claims
<1>12. /\ Stays /\ UNCHANGED <<haveread, nextMessage, lost>>
       /\ opens' \in 0 .. MaxOpens /\ failed' \subseteq Tabs
       /\ lost' \subseteq Users \X Channels \X (0 .. MaxMessage)
  BY DEF ReceiveFetch, Answered, Respond, Stays, tables, TabInv, TabTypeOK
<1> QED
  BY <1>5, <1>7, <1>8, <1>10, <1>11, <1>12, AnswerKept

\* A failed tab notes what it held.
LEMMA Noted ==
  ASSUME TabInv, NEW t \in Tabs, lost' = lost \cup Note(t, Held(t)),
         failed' = failed \cup {t}
  PROVE  /\ lost \subseteq lost' /\ Note(t, Held(t)) \subseteq lost'
         /\ lost' \subseteq Users \X Channels \X (0 .. MaxMessage)
         /\ failed' \subseteq Tabs
<1>1. /\ lost \subseteq Users \X Channels \X (0 .. MaxMessage)
      /\ failed \subseteq Tabs
  BY DEF TabInv, TabTypeOK
<1>2. Note(t, Held(t)) \subseteq Users \X Channels \X (0 .. MaxMessage)
  BY NoteType
<1> QED
  BY <1>1, <1>2

LEMMA RefusedKept ==
  ASSUME TabInv, TypeOK', MarksInv', NEW t \in Tabs, NEW h \in Handlers,
         Refused(t, h)
  PROVE  TabPart'
<1>1. PICK B, K : B = tab[t] /\ K = handler[h]
  OBVIOUS
<1>2. PICK Q : Q = B.requests \ {h}
  OBVIOUS
<1>3. PICK T : T = [B EXCEPT !.requests = Q]
  OBVIOUS
<1>4. h \in tab[t].requests /\ Moves(h, K, Idle)
  BY <1>1 DEF Refused, Respond, Moves
<1>5. B \in Tab /\ Timeline(B, t) /\ Q = {}
  BY <1>1, <1>2, <1>4, TabFacts, FlightFacts
<1>6. tab' = [tab EXCEPT ![t] = T]
  BY <1>1, <1>2, <1>3 DEF Refused, TabInv, TabTypeOK
<1>7. /\ T.loading = B.loading /\ T.fetched = B.fetched
      /\ T.last = B.last /\ T.timeline = B.timeline /\ T.requests = {}
      /\ T \in Tab
  BY <1>3, <1>5 DEF Tab
<1>8. Timeline(T, t)
  BY <1>5, <1>7, TimelineSame
<1>9. Sound(t, T)
  BY <1>1, <1>7, <1>8 DEF Sound, TabInv, TabTypeOK
<1>10. /\ Stays /\ UNCHANGED <<haveread, nextMessage>>
       /\ opens' \in 0 .. MaxOpens
       /\ lost' = lost \cup Note(t, Held(t)) /\ failed' = failed \cup {t}
  BY DEF Refused, Respond, Stays, tables, TabInv, TabTypeOK
<1> QED
  BY <1>4, <1>6, <1>7, <1>9, <1>10, Noted, AnswerKept

LEMMA RequestLostKept ==
  ASSUME TabInv, TypeOK', MarksInv', NEW t \in Tabs, RequestLost(t)
  PROVE  TabPart'
<1>1. PICK B : B = tab[t]
  OBVIOUS
<1>2. PICK T : T = [B EXCEPT !.fetched = FALSE, !.requests = {}]
  OBVIOUS
<1>3. B \in Tab /\ Timeline(B, t)
  BY <1>1, TabFacts
<1>4. tab' = [tab EXCEPT ![t] = T]
  BY <1>1, <1>2 DEF RequestLost, TabInv, TabTypeOK
<1>5. /\ T.fetched = FALSE /\ T.last = B.last /\ T.timeline = B.timeline
      /\ T.requests = {} /\ T \in Tab
  BY <1>2, <1>3 DEF Tab
<1>6. Timeline(T, t)
  BY <1>3, <1>5, TimelineSame
<1>7. Sound(t, T)
  BY <1>5, <1>6 DEF Sound
<1>8. /\ Stays /\ UNCHANGED <<haveread, nextMessage, handler>>
      /\ opens' \in 0 .. MaxOpens
      /\ lost' = lost \cup Note(t, Held(t)) /\ failed' = failed \cup {t}
  BY DEF RequestLost, Stays, vars, TabInv, TabTypeOK
<1>9. /\ lost \subseteq lost' /\ Note(t, Held(t)) \subseteq lost'
      /\ lost' \subseteq Users \X Channels \X (0 .. MaxMessage)
      /\ failed' \subseteq Tabs
  BY <1>8, Noted
<1>10. Apart(t, T)
  BY <1>5, <1>8 DEF Apart
<1>11. \A g \in T.requests : \E G : G = handler'[g] /\ Follows(G, T, t)
  BY <1>5
<1>12. TabTypeOK' /\ Flights' /\ Timelines'
  BY <1>4, <1>7, <1>8, <1>9, <1>10, <1>11, TabStepTypes
<1>13. \A g \in Reading' : g \in Reading /\ handler'[g] = handler[g]
  BY <1>8 DEF Reading
<1>14. T.requests \subseteq Handlers
  BY <1>5
<1>15. Abandoned' /\ Marks'
  BY <1>4, <1>8, <1>9, <1>10, <1>13, <1>14, TabStepMarks
<1>16. Room' /\ \A h \in Handlers : ByRequest(handler[h])'
  BY <1>8 DEF TabInv, Room, Accepted, ByRequest
<1> QED
  BY <1>12, <1>15, <1>16 DEF TabPart

-----------------------------------------------------------------------------
(***************************************************************************)
(* The invariant holds in every state.                                     *)
(***************************************************************************)
LEMMA TabInitKept == TabInit => TabInv
<1> SUFFICES ASSUME TabInit PROVE TabInv
  OBVIOUS
<1>1. TypeOK /\ MarksInv
  BY InitType, InitMarks DEF TabInit
<1>2. /\ tab = [t \in Tabs |-> Closed] /\ handler = [h \in Handlers |-> Idle]
      /\ opens = 0 /\ failed = {} /\ late = {} /\ lost = {}
      /\ nextMessage = InitialMessages + 1
      /\ haveread = [u \in Users |-> [c \in Channels |-> 0]]
  BY DEF TabInit, Init
<1>3. /\ Closed.phase = "closed" /\ Closed.loading = FALSE
      /\ Closed.fetched = FALSE /\ Closed.last = 0
      /\ Closed.timeline = <<>> /\ Closed.requests = {}
  BY DEF Closed
<1>4. Closed \in Tab
  <2>1. 0 \in 0 .. MaxMessage /\ <<>> \in Seq(1 .. MaxMessage)
    BY NumbersAssumption
  <2> QED
    BY <2>1 DEF Closed, Tab
<1>5. \A h \in Handlers : handler[h].pc = "idle"
  BY <1>2 DEF Idle
<1>6. Room
  <2>1. Accepted = {}
    BY <1>5 DEF Accepted, Insert
  <2>2. IsFiniteSet({}) /\ Cardinality({}) = 0
    BY FS_EmptySet
  <2>3. nextMessage <= MaxMessage + 1 /\ nextMessage \in Nat
    BY <1>2, NumbersAssumption, TabsAssumption
  <2> QED
    BY <2>1, <2>2, <2>3 DEF Room
<1>7. TabTypeOK
  <2>1. Cardinality(Closed.requests) <= 1
    BY <1>3, FS_EmptySet
  <2>2. opens \in 0 .. MaxOpens
    BY <1>2, TabsAssumption
  <2>3. tab \in [Tabs -> Tab] /\ \A t \in Tabs : tab[t] = Closed
    BY <1>2, <1>4
  <2> QED
    BY <1>2, <1>3, <2>1, <2>2, <2>3 DEF TabTypeOK
<1>8. \A h \in Handlers : ByRequest(handler[h])
  BY <1>2 DEF ByRequest, Idle, DelUser, DelChannel, DelMessage, DelHaveread,
       ReadMark, Count, Insert, Commit, Jsonify, Upsert
<1>9. Flights
  BY <1>2, <1>3 DEF Flights
<1>10. Timelines
  <2>1. ASSUME NEW t \in Tabs PROVE Timeline(Closed, t)
    <3>1. \A r \in InChannel(Page[t]) : ~(r.id <= 0)
      <4>1. \A r \in message : r.id \in 1 .. MaxMessage
        BY <1>1, <1>6, RowsBound DEF MarksInv
      <4> QED
        BY <4>1 DEF InChannel
    <3>2. DOMAIN Closed.timeline = {} /\ Len(Closed.timeline) <= Trim
      BY <1>3, TabsAssumption, NumbersAssumption
    <3> QED
      BY <1>3, <3>1, <3>2 DEF Timeline, Increasing
  <2> QED
    BY <1>2, <2>1 DEF Timelines
<1>11. Abandoned
  BY <1>5 DEF Abandoned, Reading, Jsonify, Upsert
<1>12. Marks
  BY <1>2 DEF Marks
<1> QED
  BY <1>1, <1>6, <1>7, <1>8, <1>9, <1>10, <1>11, <1>12 DEF TabInv

LEMMA TabNextKept == TabInv /\ [TabNext]_allVars => TabInv'
<1> SUFFICES ASSUME TabInv, [TabNext]_allVars PROVE TabInv'
  OBVIOUS
<1>1. TypeOK' /\ MarksInv'
  BY ServerKept
<1>2. ASSUME NEW t \in Tabs, NEW h \in Handlers, Open(t, h) PROVE TabPart'
  BY <1>1, <1>2, OpenKept
<1>3. ASSUME NEW t \in Tabs, NEW h \in Handlers, Send(t, h) PROVE TabPart'
  BY <1>1, <1>3, SendKept
<1>4. ASSUME NEW t \in Tabs, NEW h \in Handlers, Poll(t, h) PROVE TabPart'
  BY <1>1, <1>4, PollKept
<1>5. ASSUME NEW t \in Tabs, NEW h \in Handlers, SendGet(t, h)
      PROVE  TabPart'
  BY <1>1, <1>5, SendGetKept
<1>6. ASSUME NEW t \in Tabs, NEW h \in Handlers, ReceiveMessages(t, h)
      PROVE  TabPart'
  BY <1>1, <1>6, ReceiveMessagesKept
<1>7. ASSUME NEW t \in Tabs, NEW h \in Handlers, ReceiveFetch(t, h)
      PROVE  TabPart'
  BY <1>1, <1>7, ReceiveFetchKept
<1>8. ASSUME NEW t \in Tabs, NEW h \in Handlers, Refused(t, h)
      PROVE  TabPart'
  BY <1>1, <1>8, RefusedKept
<1>9. ASSUME NEW t \in Tabs, RequestLost(t) PROVE TabPart'
  BY <1>1, <1>9, RequestLostKept
<1>10. ASSUME NEW h \in Handlers, Serve(h) PROVE TabPart'
  BY <1>1, <1>10, ServeKept
<1>11. ASSUME NEW h \in Handlers, Unheard(h) PROVE TabPart'
  BY <1>1, <1>11, UnheardKept
<1>12. ASSUME UNCHANGED allVars PROVE TabPart'
  <2>1. UNCHANGED <<message, nextMessage, haveread, handler, tab, opens,
                    failed, late, lost>>
    BY <1>12 DEF allVars, vars, tabVars
  <2>2. TabPart
    BY InvParts
  <2>3. TabTypeOK' /\ Room'
    BY <2>1, <2>2 DEF TabPart, TabTypeOK, Room, Accepted
  <2>4. \A h \in Handlers : ByRequest(handler[h])'
    BY <2>1, <2>2 DEF TabPart, ByRequest
  <2>5. Flights'
    BY <2>1, <2>2 DEF TabPart, Flights, Follows, InChannel, Missed
  <2>6. Timelines'
    BY <2>1, <2>2 DEF TabPart, Timelines, Timeline, Increasing, Shown,
                      InChannel
  <2>7. Abandoned'
    BY <2>1, <2>2 DEF TabPart, Abandoned, Reading
  <2>8. Marks'
    BY <2>1, <2>2 DEF TabPart, Marks, Claims, Upserted, IsFirst
  <2> QED
    BY <2>3, <2>4, <2>5, <2>6, <2>7, <2>8 DEF TabPart
<1>13. TabPart'
  BY <1>2, <1>3, <1>4, <1>5, <1>6, <1>7, <1>8, <1>9, <1>10, <1>11, <1>12
     DEF TabNext, TabStep
<1> QED
  BY <1>1, <1>13 DEF TabInv, TabPart

LEMMA TabInvariant == TabSpec => []TabInv
  BY TabInitKept, TabNextKept, PTL DEF TabSpec

\* chat.js: a page is a single flight, and its timer, its answers and the lost
\* ones keep every variable of every tab in its type.
THEOREM TabTypesCorrect == TabSpec => []TabTypeOK
<1>1. TabInv => TabTypeOK
  BY DEF TabInv
<1> QED
  BY <1>1, TabInvariant, PTL

\* append keeps the messages of a page in the order of their ids, without a
\* duplicate, whatever answers arrive and however much it trims.
THEOREM PagesInOrder == TabSpec => []InOrder
<1>1. TabInv => InOrder
  BY DEF TabInv, Timelines, Timeline, Increasing, InOrder
<1> QED
  BY <1>1, TabInvariant, PTL

\* Asking /message for what follows last_message_id leaves no hole on a page
\* but the messages that became visible after a newer one.
THEOREM PagesWithoutHoles == TabSpec => []NoHole
<1>1. TabInv => NoHole
  BY DEF TabInv, Timelines, Timeline, Shown, NoHole
<1> QED
  BY <1>1, TabInvariant, PTL

\* The mark that getMessage upserts names a message that a page of the user
\* has, that is on its way to one, or that was lost with the page or answer.
THEOREM MarksDelivered == TabSpec => []MarkDelivered
<1>1. ASSUME TabInv PROVE MarkDelivered
  <2>1. ASSUME NEW t \in Tabs, NEW m, Claims(t, m)
        PROVE  m <= tab[t].last \/ m \in Held(t)
    <3>1. CASE Upserted(t) = {}
      <4>1. m = tab[t].last
        BY <2>1, <3>1 DEF Claims
      <4> QED
        BY <4>1, HeldIs
    <3>2. CASE Upserted(t) # {}
      <4>1. PICK h \in Upserted(t) : \E r \in handler[h].rows : r.id = m
        BY <2>1, <3>2 DEF Claims
      <4>2. h \in tab[t].requests
        BY <4>1 DEF Upserted
      <4> QED
        BY <4>1, <4>2, HeldIs
    <3> QED
      BY <3>1, <3>2
  <2>2. ASSUME NEW u \in Users, NEW c \in Channels, NEW m,
               m = haveread[u][c]
        PROVE  \/ m = 0
               \/ \E t \in Tabs : /\ Owner[t] = u /\ Page[t] = c
                                  /\ m <= tab[t].last \/ m \in Held(t)
               \/ <<u, c, m>> \in lost
    <3>1. \/ m = 0
          \/ \E t \in Tabs : Owner[t] = u /\ Page[t] = c /\ Claims(t, m)
          \/ <<u, c, m>> \in lost
      BY <1>1, <2>2 DEF TabInv, Marks
    <3> QED
      BY <2>1, <3>1
  <2> QED
    BY <2>2 DEF MarkDelivered
<1> QED
  BY <1>1, TabInvariant, PTL

-----------------------------------------------------------------------------
(***************************************************************************)
(* The pages implement the abstract timeline.                              *)
(***************************************************************************)
\* What ChatTimeline sees of the pages does not change.
LinesStay ==
    UNCHANGED <<[c \in Channels |-> IdsIn(message, c)],
                [t \in Tabs |-> tab[t].timeline], [t \in Tabs |-> tab[t].last],
                late>>

LEMMA StayOf ==
  ASSUME Stays,
         \A t \in Tabs : /\ tab'[t].timeline = tab[t].timeline
                         /\ tab'[t].last = tab[t].last
  PROVE  LinesStay
BY DEF LinesStay, Stays, IdsIn

\* One page changes, the others stay.
LEMMA PageIs ==
  ASSUME TabInv, NEW t \in Tabs, NEW T, tab' = [tab EXCEPT ![t] = T]
  PROVE  /\ tab'[t] = T /\ \A s \in Tabs : s # t => tab'[s] = tab[s]
         /\ [s \in Tabs |-> tab'[s].timeline] =
              [[s \in Tabs |-> tab[s].timeline] EXCEPT ![t] = T.timeline]
         /\ [s \in Tabs |-> tab'[s].last] =
              [[s \in Tabs |-> tab[s].last] EXCEPT ![t] = T.last]
<1>1. tab'[t] = T /\ \A s \in Tabs : s # t => tab'[s] = tab[s]
  BY DEF TabInv, TabTypeOK
<1>2. \A s \in Tabs : /\ tab'[s].timeline = IF s = t THEN T.timeline
                                              ELSE tab[s].timeline
                      /\ tab'[s].last = IF s = t THEN T.last ELSE tab[s].last
  BY <1>1
<1>3. [s \in Tabs |-> tab'[s].timeline] =
        [[s \in Tabs |-> tab[s].timeline] EXCEPT ![t] = T.timeline]
  <2>1. PICK f : f = [s \in Tabs |-> tab[s].timeline]
    OBVIOUS
  <2>2. PICK p : p = T.timeline
    OBVIOUS
  <2>3. [f EXCEPT ![t] = p] = [s \in Tabs |-> IF s = t THEN p ELSE f[s]]
    BY <2>1
  <2>4. \A s \in Tabs : tab'[s].timeline = IF s = t THEN p ELSE f[s]
    BY <1>2, <2>1, <2>2
  <2> QED
    BY <2>1, <2>2, <2>3, <2>4
<1>4. [s \in Tabs |-> tab'[s].last] =
        [[s \in Tabs |-> tab[s].last] EXCEPT ![t] = T.last]
  <2>1. PICK f : f = [s \in Tabs |-> tab[s].last]
    OBVIOUS
  <2>2. PICK p : p = T.last
    OBVIOUS
  <2>3. [f EXCEPT ![t] = p] = [s \in Tabs |-> IF s = t THEN p ELSE f[s]]
    BY <2>1
  <2>4. \A s \in Tabs : tab'[s].last = IF s = t THEN p ELSE f[s]
    BY <1>2, <2>1, <2>2
  <2> QED
    BY <2>1, <2>2, <2>3, <2>4
<1> QED
  BY <1>1, <1>3, <1>4

\* The commit of a post is the message of ChatTimeline that appears.
LEMMA CommitAppears ==
  ASSUME TabInv, NEW h \in Handlers, Serve(h), handler[h].pc = Commit,
         message' = message \cup handler[h].rows
  PROVE  Lines!TimelineNext
<1> DEFINE L == [c \in Channels |-> IdsIn(message, c)]
<1>1. h \in Pending
  BY DEF Pending
<1>2. PICK r \in handler[h].rows :
         handler[h].rows = {r} /\ \A s \in message : s.id # r.id
  BY <1>1 DEF TabInv, MarksInv, FreshIds
<1>3. r \in Row /\ r.channel_id \in Channels
  BY <1>2 DEF TabInv, TypeOK, Handler, Row
<1>4. PICK c, id : c = r.channel_id /\ id = r.id
  OBVIOUS
<1>5. \A d \in Channels :
         IdsIn(message', d) = IF d = c THEN IdsIn(message, d) \cup {id}
                                       ELSE IdsIn(message, d)
  BY <1>2, <1>4 DEF IdsIn
<1>6. \A d \in Channels : id \notin L[d]
  BY <1>2, <1>4 DEF IdsIn
<1>7. [d \in Channels |-> IdsIn(message', d)] = [L EXCEPT ![c] = @ \cup {id}]
  BY <1>3, <1>4, <1>5
<1>8. id \in [d \in Channels |-> IdsIn(message', d)][c]
  BY <1>3, <1>4, <1>5
<1>9. late' = late \cup {i \in {id} : \E n \in L[c] : n > i}
  <2>1. late' = late \cup {s.id : s \in {s \in message' \ message :
                 \E n \in InChannel(s.channel_id) : n.id > s.id}}
    BY DEF Serve
  <2>2. message' \ message = {r}
    BY <1>2
  <2>3. {s.id : s \in {s \in {r} : \E n \in InChannel(s.channel_id) : n.id > s.id}}
          = {i \in {id} : \E n \in InChannel(c) : n.id > i}
    BY <1>4
  <2>4. L[c] = {n.id : n \in InChannel(c)}
    BY <1>3, <1>4 DEF IdsIn, InChannel
  <2>5. \A i : (\E n \in InChannel(c) : n.id > i) <=> (\E n \in L[c] : n > i)
    BY <2>4
  <2> QED
    BY <2>1, <2>2, <2>3, <2>5
<1>10. UNCHANGED <<[t \in Tabs |-> tab[t].timeline],
                   [t \in Tabs |-> tab[t].last]>>
  BY DEF Serve
<1>11. Lines!Appear(c, id)
  BY <1>6, <1>7, <1>9, <1>10 DEF Lines!Appear, Lines!Store
<1> QED
  BY <1>3, <1>4, <1>8, <1>11 DEF Lines!TimelineNext

\* A statement of the server shows nothing on a page.
LEMMA ServeAppears ==
  ASSUME TabInv, NEW h \in Handlers, Serve(h)
  PROVE  Lines!TimelineNext \/ LinesStay
<1>1. CASE message' = message
  <2>1. Stays
    BY <1>1, ServeStays
  <2>2. tab' = tab
    BY DEF Serve
  <2> QED
    BY <2>1, <2>2, StayOf
<1>2. CASE CommitMessage(h) \/ StatementFails(h)
  <2>1. \/ message' = message
        \/ handler[h].pc = Commit /\ message' = message \cup handler[h].rows
    BY <1>2 DEF CommitMessage, StatementFails
  <2> QED
    BY <1>1, <2>1, CommitAppears
<1>3. ~(DeleteUser(h) \/ DeleteChannel(h) \/ DeleteMessage(h)
          \/ DeleteHaveread(h))
  BY DEF TabInv, ByRequest, DeleteUser, DeleteChannel, DeleteMessage,
         DeleteHaveread
<1>4. CommitMessage(h) \/ StatementFails(h) \/ message' = message
  BY <1>3 DEF Serve, Continue, InsertMessage, JsonifyMessage, UpsertHaveread,
              QueryHaveRead, CountUnread, tables
<1> QED
  BY <1>1, <1>2, <1>4

\* An answer without messages leaves the page as it is.
LEMMA NothingAppended ==
  ASSUME NEW old \in Seq(Nat), Len(old) <= Trim
  PROVE  Append100(old, {}) = old
<1>1. Ids({}) = {}
  BY DEF Ids
<1>2. PICK a : a = Ascending({})
  OBVIOUS
<1>3. a \in Seq({}) /\ Len(a) = 0
  <2>1. {} \in SUBSET Nat /\ IsFiniteSet({}) /\ Cardinality({}) = 0
    BY FS_EmptySet
  <2>2. a \in Seq({}) /\ Len(a) = Cardinality({})
    BY <1>2, <2>1, AscendingOf
  <2> QED
    BY <2>1, <2>2
<1>4. a = <<>>
  BY <1>3
<1>5. old \o a = old
  BY <1>4
<1>6. Append100(old, {}) = IF Len(old \o a) <= Trim THEN old \o a
                           ELSE SubSeq(old \o a, Len(old \o a) - Trim + 1,
                                       Len(old \o a))
  BY <1>1, <1>2 DEF Append100
<1> QED
  BY <1>5, <1>6

\* What Appended says of a page and the answer it receives.
LEMMA AnswerAppended ==
  ASSUME TabInv, NEW t \in Tabs, NEW h \in tab[t].requests,
         NEW R, R = handler[h].rows, NEW old, old = tab[t].timeline,
         NEW line, line = Append100(old, R)
  PROVE  /\ line \in Seq(Nat) /\ Increasing(line) /\ Len(line) <= Trim
         /\ \A i \in DOMAIN line : line[i] \in Range(old) \cup Ids(R)
         /\ \A x \in Range(old) \cup Ids(R) :
              x \in Range(line) \/ (Len(line) >= Trim /\ x < Head(line))
         /\ Cardinality(R) >= Trim =>
              Len(line) >= Trim /\ Head(line) \in Ids(R)
<1>1. /\ R \in SUBSET Row /\ IsFiniteSet(R)
      /\ \A r, s \in R : r.id = s.id => r = s
      /\ Follows(handler[h], tab[t], t)
  BY FlightFacts
<1>2. tab[t] \in Tab /\ Timeline(tab[t], t) /\ tab[t].last \in 0 .. MaxMessage
  BY TabFacts
<1>3. PICK l \in Nat : l = tab[t].last
  BY <1>2, NumbersAssumption
<1>4. old \in Seq(1 .. MaxMessage) /\ Increasing(old)
  BY <1>2 DEF Timeline, Tab
<1>5. old \in Seq(Nat)
  BY <1>4, NumbersAssumption
<1>6. \A i \in DOMAIN old : old[i] <= l
  BY <1>2, <1>3 DEF Timeline
<1>7. \A r \in R : l < r.id
  BY <1>1, <1>3 DEF Follows
<1>8. R \in SUBSET Row /\ IsFiniteSet(R)
  BY <1>1
<1>9. \A r, s \in R : r.id = s.id => r = s
  BY <1>1
<1> QED
  BY <1>4, <1>5, <1>6, <1>7, <1>8, <1>9, Appended

\* What append makes of a page and an answer with messages.
LEMMA PageLearns ==
  ASSUME TabInv, NEW t \in Tabs, NEW h \in tab[t].requests,
         NEW B, B = tab[t], NEW R, R = handler[h].rows, R # {},
         NEW last, last = LastId(B.last, R),
         NEW line, line = Append100(B.timeline, R),
         NEW old, old = B.timeline,
         NEW due, due = Range(old)
                          \cup {i \in IdsIn(message, Page[t]) :
                                  B.last < i /\ i <= last}
  PROVE  /\ B.last < last /\ last \in IdsIn(message, Page[t])
         /\ last \in Range(line) /\ Range(line) \subseteq due
         /\ Increasing(line) /\ Len(line) <= Trim
         /\ \A id \in due \ Range(line) :
               \/ Len(line) = Trim /\ id < line[1]
               \/ id \in late /\ id \notin Range(old)
<1>1. /\ R \in SUBSET Row /\ IsFiniteSet(R)
      /\ \A r, s \in R : r.id = s.id => r = s
      /\ \A r \in R : r.id \in 1 .. MaxMessage
      /\ Follows(handler[h], B, t)
  BY FlightFacts
<1>2. B \in Tab /\ Timeline(B, t) /\ B.last \in 0 .. MaxMessage
  BY TabFacts
<1>3. MaxMessage \in Nat /\ B.last \in Nat
  BY <1>2, NumbersAssumption
<1>4. PICK C : C = InChannel(Page[t])
  OBVIOUS
<1>5. /\ R \subseteq C /\ \A r \in R : B.last < r.id
      /\ \A r \in C \ R : B.last < r.id /\ (\E n \in R : r.id <= n.id)
                            => Missed(r, R)
      /\ \A r \in C : r.id \in Nat
  <2>1. \A r \in C : r.id \in Nat
    BY <1>4, ChannelRows DEF TabInv, MarksInv
  <2> QED
    BY <1>1, <1>4, <2>1 DEF Follows
<1>6. PICK I : I = Ids(R)
  OBVIOUS
<1>7. /\ I \in SUBSET Nat /\ IsFiniteSet(I) /\ I # {}
      /\ \A i \in I : \E r \in R : r.id = i
      /\ \A r \in R : r.id \in I
  BY <1>1, <1>6, IdsOf DEF Ids
<1>8. /\ last \in {B.last} \cup I
      /\ \A j \in {B.last} \cup I : j <= last
  <2>1. IsFiniteSet({B.last} \cup I)
    BY <1>7, FS_AddElement
  <2>2. last = Max({B.last} \cup I)
    BY <1>6 DEF LastId
  <2>3. {B.last} \cup I \in SUBSET Nat /\ {B.last} \cup I # {}
    BY <1>3, <1>7
  <2> QED
    BY <2>1, <2>2, <2>3, MaxOf
<1>9. \A i \in I : i \in Nat /\ B.last < i
  BY <1>5, <1>7
<1>10. last \in I /\ B.last < last /\ last \in Nat
  <2>1. PICK i \in I : TRUE
    BY <1>7
  <2>2. B.last < i /\ i <= last /\ i \in Nat /\ last \in Nat
    BY <1>3, <1>7, <1>8, <1>9, <2>1
  <2>3. B.last < last
    BY <1>3, <2>2
  <2>4. last # B.last
    BY <1>3, <2>3
  <2> QED
    BY <1>8, <2>2, <2>3, <2>4
<1>11. PICK J : J = IdsIn(message, Page[t])
  OBVIOUS
<1>12. /\ \A i : i \in J <=> \E r \in C : r.id = i
       /\ I \subseteq J
  <2>1. \A i : i \in J <=> \E r \in C : r.id = i
    BY <1>4, <1>11 DEF IdsIn, InChannel
  <2> QED
    BY <1>5, <1>7, <2>1
<1>13. /\ old \in Seq(1 .. MaxMessage) /\ Increasing(old)
       /\ \A i \in DOMAIN old : old[i] <= B.last
  BY <1>2 DEF Timeline, Tab
<1>14. /\ old \in Seq(Nat)
       /\ \A i \in DOMAIN old : old[i] \in 1 .. MaxMessage
  BY <1>3, <1>13
<1>15. \A x \in Range(old) : x \in Nat /\ x <= B.last
  BY <1>13, <1>14 DEF Range
<1>16. /\ line \in Seq(Nat) /\ Increasing(line) /\ Len(line) <= Trim
       /\ \A i \in DOMAIN line : line[i] \in Range(old) \cup I
       /\ \A x \in Range(old) \cup I :
            x \in Range(line) \/ (Len(line) >= Trim /\ x < Head(line))
       /\ Cardinality(R) >= Trim =>
            Len(line) >= Trim /\ Head(line) \in I
  <2>1. /\ line \in Seq(Nat) /\ Increasing(line) /\ Len(line) <= Trim
        /\ \A i \in DOMAIN line : line[i] \in Range(old) \cup Ids(R)
        /\ \A x \in Range(old) \cup Ids(R) :
             x \in Range(line) \/ (Len(line) >= Trim /\ x < Head(line))
        /\ Cardinality(R) >= Trim =>
             Len(line) >= Trim /\ Head(line) \in Ids(R)
    BY AnswerAppended
  <2> QED
    BY <1>6, <2>1
<1>17. \A i \in DOMAIN line : line[i] \in Nat /\ line[i] <= last
  <2> TAKE i \in DOMAIN line
  <2>1. CASE line[i] \in Range(old)
    <3>1. line[i] \in Nat /\ line[i] <= B.last
      BY <1>15, <2>1
    <3> QED
      BY <1>3, <1>10, <3>1
  <2>2. CASE line[i] \in I
    BY <1>8, <1>9, <2>2
  <2> QED
    BY <1>16, <2>1, <2>2
<1>18. Trim \in Nat /\ Trim >= 1 /\ Limit \in Nat /\ Trim <= Limit
  BY TabsAssumption, NumbersAssumption
<1>19. Len(line) >= Trim => /\ Len(line) = Trim /\ Head(line) = line[1]
                            /\ 1 \in DOMAIN line
  <2>1. PICK n \in Nat : n = Len(line)
    BY <1>16
  <2>2. DOMAIN line = 1 .. n
    BY <1>16, <2>1
  <2>3. n >= Trim => n = Trim /\ n >= 1 /\ 1 \in 1 .. n
    BY <1>16, <1>18, <2>1
  <2>4. n >= 1 => Head(line) = line[1]
    BY <1>16, <2>1
  <2> QED
    BY <2>1, <2>2, <2>3, <2>4
<1>20. last \in Range(line)
  <2>1. Len(line) >= Trim => Head(line) \in Nat /\ Head(line) <= last
    BY <1>17, <1>19
  <2>2. ~(Len(line) >= Trim /\ last < Head(line))
    BY <1>10, <2>1
  <2>3. last \in Range(old) \cup I
    BY <1>10
  <2> QED
    BY <1>16, <2>2, <2>3
<1>21. Range(line) \subseteq due
  <2>1. ASSUME NEW i \in DOMAIN line PROVE line[i] \in due
    <3>1. CASE line[i] \in Range(old)
      BY <3>1
    <3>2. CASE line[i] \in I
      BY <1>9, <1>11, <1>12, <1>17, <3>2
    <3> QED
      BY <1>16, <3>1, <3>2
  <2> QED
    BY <2>1 DEF Range
<1>22. ASSUME NEW id \in due, id \notin Range(line)
       PROVE  \/ Len(line) = Trim /\ id < line[1]
              \/ id \in late /\ id \notin Range(old)
  <2>1. CASE id \in Range(old) \cup I
    BY <1>16, <1>19, <1>22, <2>1
  <2>2. CASE id \notin Range(old) \cup I
    <3>1. id \in J /\ B.last < id /\ id <= last
      BY <1>11, <2>2
    <3>2. PICK r \in C : r.id = id
      BY <1>12, <3>1
    <3>3. r \notin R
      BY <1>7, <2>2, <3>2
    <3>4. PICK n \in R : n.id = last
      BY <1>7, <1>10
    <3>5. Missed(r, R)
      BY <1>5, <3>1, <3>2, <3>3, <3>4
    <3>6. CASE r.id \in late
      BY <2>2, <3>2, <3>6
    <3>7. CASE Cardinality(R) >= Limit /\ \A k \in R : r.id < k.id
      <4>1. Cardinality(R) \in Nat
        BY <1>1, FS_CardinalityType
      <4>2. Cardinality(R) >= Trim
        BY <1>18, <3>7, <4>1
      <4>3. Len(line) >= Trim /\ Head(line) \in I
        BY <1>16, <4>2
      <4>4. id < Head(line)
        BY <1>7, <3>2, <3>7, <4>3
      <4> QED
        BY <1>19, <4>3, <4>4
    <3> QED
      BY <3>5, <3>6, <3>7 DEF Missed
  <2> QED
    BY <2>1, <2>2
<1> QED
  BY <1>10, <1>11, <1>12, <1>16, <1>20, <1>21, <1>22

\* An answer of GET /message is what a page learns from.
LEMMA ReceiveLearns ==
  ASSUME TabInv, NEW t \in Tabs, NEW h \in Handlers, ReceiveMessages(t, h)
  PROVE  Lines!TimelineNext \/ LinesStay
<1>1. PICK B, R : B = tab[t] /\ R = handler[h].rows
  OBVIOUS
<1>2. PICK last, line : /\ last = LastId(B.last, R)
                        /\ line = Append100(B.timeline, R)
  OBVIOUS
<1>3. h \in tab[t].requests
  BY DEF ReceiveMessages, Answered
<1>4. B \in Tab /\ Timeline(B, t)
  BY <1>1, TabFacts
<1>5. PICK T : T = [B EXCEPT !.phase = "polling", !.loading = FALSE,
                             !.last = last, !.timeline = line,
                             !.requests = B.requests \ {h}]
  OBVIOUS
<1>6. tab' = [tab EXCEPT ![t] = T]
  <2>1. tab' = [tab EXCEPT ![t] =
                  [tab[t] EXCEPT
                     !.phase = "polling", !.loading = FALSE,
                     !.last = LastId(tab[t].last, handler[h].rows),
                     !.timeline = Append100(tab[t].timeline, handler[h].rows),
                     !.requests = tab[t].requests \ {h}]]
    BY DEF ReceiveMessages
  <2>2. /\ LastId(tab[t].last, handler[h].rows) = last
        /\ Append100(tab[t].timeline, handler[h].rows) = line
    BY <1>1, <1>2
  <2> QED
    BY <1>1, <1>5, <2>1, <2>2
<1>7. T.last = last /\ T.timeline = line
  BY <1>4, <1>5 DEF Tab
<1>8. Stays /\ UNCHANGED <<message, late>>
  BY DEF ReceiveMessages, Answered, Respond, Stays, tables
<1>9. /\ tab'[t] = T /\ \A s \in Tabs : s # t => tab'[s] = tab[s]
      /\ [s \in Tabs |-> tab'[s].timeline] =
           [[s \in Tabs |-> tab[s].timeline] EXCEPT ![t] = line]
      /\ [s \in Tabs |-> tab'[s].last] =
           [[s \in Tabs |-> tab[s].last] EXCEPT ![t] = last]
  BY <1>6, <1>7, PageIs
<1>10. CASE R = {}
  <2>1. line = B.timeline
    <3>1. /\ B.timeline \in Seq(1 .. MaxMessage)
          /\ Len(B.timeline) <= Trim
      BY <1>4 DEF Tab, Timeline
    <3>2. B.timeline \in Seq(Nat)
      BY <3>1, NumbersAssumption
    <3> QED
      BY <1>2, <1>10, <3>1, <3>2, NothingAppended
  <2>2. last = B.last
    <3>1. PICK l \in Nat : l = B.last
      BY <1>4, NumbersAssumption DEF Tab
    <3>2. last = Max({l})
      BY <1>2, <1>10, <3>1 DEF LastId, Ids
    <3>3. Max({l}) \in {l}
      BY FS_Singleton, MaxOf
    <3> QED
      BY <3>1, <3>2, <3>3
  <2> QED
    BY <1>1, <1>7, <1>8, <1>9, <2>1, <2>2, StayOf
<1>11. CASE R # {}
  <2>1. PICK old, due :
          /\ old = B.timeline
          /\ due = Range(old) \cup {i \in IdsIn(message, Page[t]) :
                                      B.last < i /\ i <= last}
    OBVIOUS
  <2>2. /\ B.last < last /\ last \in IdsIn(message, Page[t])
        /\ last \in Range(line) /\ Range(line) \subseteq due
        /\ Increasing(line) /\ Len(line) <= Trim
        /\ \A id \in due \ Range(line) :
              \/ Len(line) = Trim /\ id < line[1]
              \/ id \in late /\ id \notin Range(old)
    BY <1>1, <1>2, <1>3, <1>11, <2>1, PageLearns
  <2>3. Lines!Entries(line) = Range(line) /\ Lines!Entries(old) = Range(old)
    BY DEF Lines!Entries, Range
  <2>4. Page[t] \in Channels
    BY TabFacts
  <2>5. Lines!Due(t, last) = due
    BY <1>1, <2>1, <2>3, <2>4 DEF Lines!Due
  <2>6. Lines!Learn(t, last, line)
    <3>1. [s \in Tabs |-> tab[s].last][t] < last
      BY <1>1, <2>2
    <3>2. last \in Lines!Entries(line) /\ Lines!Entries(line) \subseteq due
      BY <2>2, <2>3
    <3>3. \A i, j \in DOMAIN line : i < j => line[i] < line[j]
      BY <2>2 DEF Increasing
    <3>4. \A id \in due \ Lines!Entries(line) :
             \/ Lines!Scrolled(line, id)
             \/ id \in late /\ id \notin Lines!Entries(old)
      BY <2>2, <2>3 DEF Lines!Scrolled
    <3>5. old = [s \in Tabs |-> tab[s].timeline][t]
      BY <1>1, <2>1
    <3>6. UNCHANGED <<[c \in Channels |-> IdsIn(message, c)], late>>
      BY <1>8 DEF IdsIn
    <3> QED
      BY <1>9, <2>2, <2>5, <3>1, <3>2, <3>3, <3>4, <3>5, <3>6
         DEF Lines!Learn
  <2>7. line = [s \in Tabs |-> tab'[s].timeline][t]
    BY <1>7, <1>9
  <2>8. last \in [c \in Channels |-> IdsIn(message, c)][Page[t]]
    BY <2>2, <2>4
  <2>9. Lines!Learn(t, last, [s \in Tabs |-> tab'[s].timeline][t])
    BY <2>6, <2>7 DEF Lines!Learn
  <2>10. \E n \in [c \in Channels |-> IdsIn(message, c)][Page[t]] :
            Lines!Learn(t, n, [s \in Tabs |-> tab'[s].timeline][t])
    BY <2>8, <2>9 DEF Lines!Learn
  <2> QED
    BY <2>10 DEF Lines!TimelineNext, Lines!Learn
<1> QED
  BY <1>10, <1>11

\* A page that is opened anew is empty.
LEMMA OpenReloads ==
  ASSUME TabInv, NEW t \in Tabs, NEW h \in Handlers, Open(t, h)
  PROVE  Lines!TimelineNext
<1>1. PICK T : T = [Closed EXCEPT !.phase = "opening", !.requests = {h}]
  OBVIOUS
<1>2. tab' = [tab EXCEPT ![t] = T]
  BY <1>1 DEF Open
<1>3. T.last = 0 /\ T.timeline = <<>>
  BY <1>1 DEF Closed
<1>4. UNCHANGED <<message, late>>
  BY DEF Open, GetMessage, tables
<1>5. UNCHANGED <<[c \in Channels |-> IdsIn(message, c)], late>>
  BY <1>4 DEF IdsIn
<1>6. /\ [s \in Tabs |-> tab'[s].timeline] =
           [[s \in Tabs |-> tab[s].timeline] EXCEPT ![t] = <<>>]
      /\ [s \in Tabs |-> tab'[s].last] =
           [[s \in Tabs |-> tab[s].last] EXCEPT ![t] = 0]
  <2>1. /\ [s \in Tabs |-> tab'[s].timeline] =
             [[s \in Tabs |-> tab[s].timeline] EXCEPT ![t] = T.timeline]
        /\ [s \in Tabs |-> tab'[s].last] =
             [[s \in Tabs |-> tab[s].last] EXCEPT ![t] = T.last]
    BY <1>2, PageIs
  <2> QED
    BY <1>3, <2>1
<1>7. Lines!Reload(t)
  BY <1>5, <1>6 DEF Lines!Reload
<1> QED
  BY <1>7 DEF Lines!TimelineNext

\* The other steps of a tab touch neither its timeline nor last_message_id.
LEMMA OthersStay ==
  ASSUME TabInv, NEW t \in Tabs,
         \/ \E h \in Handlers : \/ Send(t, h) \/ Poll(t, h) \/ SendGet(t, h)
                                \/ ReceiveFetch(t, h) \/ Refused(t, h)
         \/ RequestLost(t)
  PROVE  LinesStay
<1>1. PICK B : B = tab[t] /\ B \in Tab
  BY TabFacts
<1>2. tab \in [Tabs -> Tab]
  BY DEF TabInv, TabTypeOK
<1>3. Stays
  BY DEF Send, Poll, SendGet, ReceiveFetch, Refused, RequestLost, Answered,
         Respond, PostMessage, FetchUnread, GetMessage, Stays, tables, vars,
         tabVars
<1>4. CASE UNCHANGED tab
  BY <1>3, <1>4, StayOf
<1>5. CASE \E T : /\ tab' = [tab EXCEPT ![t] = T]
                  /\ T.timeline = tab[t].timeline /\ T.last = tab[t].last
  BY <1>2, <1>3, <1>5, StayOf
<1>6. ASSUME NEW h \in Handlers, Poll(t, h)
      PROVE  \E T : /\ tab' = [tab EXCEPT ![t] = T]
                    /\ T.timeline = tab[t].timeline /\ T.last = tab[t].last
  <2>1. PICK T : T = [B EXCEPT !.loading = TRUE,
                               !.requests = B.requests \cup {h}]
    OBVIOUS
  <2>2. tab' = [tab EXCEPT ![t] = T]
    BY <1>1, <1>2, <1>6, <2>1 DEF Poll
  <2>3. T.timeline = B.timeline /\ T.last = B.last
    BY <1>1, <2>1 DEF Tab
  <2> QED
    BY <1>1, <2>2, <2>3
<1>7. ASSUME NEW h \in Handlers, SendGet(t, h)
      PROVE  \E T : /\ tab' = [tab EXCEPT ![t] = T]
                    /\ T.timeline = tab[t].timeline /\ T.last = tab[t].last
  <2>1. PICK T : T = [B EXCEPT !.fetched = FALSE,
                               !.requests = B.requests \cup {h}]
    OBVIOUS
  <2>2. tab' = [tab EXCEPT ![t] = T]
    BY <1>1, <1>2, <1>7, <2>1 DEF SendGet
  <2>3. T.timeline = B.timeline /\ T.last = B.last
    BY <1>1, <2>1 DEF Tab
  <2> QED
    BY <1>1, <2>2, <2>3
<1>8. ASSUME NEW h \in Handlers, ReceiveFetch(t, h)
      PROVE  \E T : /\ tab' = [tab EXCEPT ![t] = T]
                    /\ T.timeline = tab[t].timeline /\ T.last = tab[t].last
  <2>1. PICK updated : tab' = [tab EXCEPT ![t].fetched = updated,
                                          ![t].loading = updated,
                                          ![t].requests = @ \ {h}]
    BY <1>8 DEF ReceiveFetch
  <2>2. PICK T : T = [B EXCEPT !.fetched = updated, !.loading = updated,
                               !.requests = B.requests \ {h}]
    OBVIOUS
  <2>3. tab' = [tab EXCEPT ![t] = T]
    BY <1>1, <1>2, <2>1, <2>2
  <2>4. T.timeline = B.timeline /\ T.last = B.last
    BY <1>1, <2>2 DEF Tab
  <2> QED
    BY <1>1, <2>3, <2>4
<1>9. ASSUME NEW h \in Handlers, Refused(t, h)
      PROVE  \E T : /\ tab' = [tab EXCEPT ![t] = T]
                    /\ T.timeline = tab[t].timeline /\ T.last = tab[t].last
  <2>1. PICK T : T = [B EXCEPT !.requests = B.requests \ {h}]
    OBVIOUS
  <2>2. tab' = [tab EXCEPT ![t] = T]
    BY <1>1, <1>2, <1>9, <2>1 DEF Refused
  <2>3. T.timeline = B.timeline /\ T.last = B.last
    BY <1>1, <2>1 DEF Tab
  <2> QED
    BY <1>1, <2>2, <2>3
<1>10. ASSUME RequestLost(t)
       PROVE  \E T : /\ tab' = [tab EXCEPT ![t] = T]
                     /\ T.timeline = tab[t].timeline /\ T.last = tab[t].last
  <2>1. PICK T : T = [B EXCEPT !.fetched = FALSE, !.requests = {}]
    OBVIOUS
  <2>2. tab' = [tab EXCEPT ![t] = T]
    BY <1>1, <1>2, <1>10, <2>1 DEF RequestLost
  <2>3. T.timeline = B.timeline /\ T.last = B.last
    BY <1>1, <2>1 DEF Tab
  <2> QED
    BY <1>1, <2>2, <2>3
<1>11. ASSUME NEW h \in Handlers, Send(t, h) PROVE UNCHANGED tab
  BY <1>11 DEF Send, tabVars
<1> QED
  BY <1>4, <1>5, <1>6, <1>7, <1>8, <1>9, <1>10, <1>11

LEMMA TimelineStep ==
  TabInv /\ [TabNext]_allVars => Lines!TimelineNext \/ LinesStay
<1> SUFFICES ASSUME TabInv, [TabNext]_allVars
             PROVE  Lines!TimelineNext \/ LinesStay
  OBVIOUS
<1>1. ASSUME NEW t \in Tabs, TabStep(t)
      PROVE  Lines!TimelineNext \/ LinesStay
  <2>1. ASSUME NEW h \in Handlers, Open(t, h) PROVE Lines!TimelineNext
    BY <2>1, OpenReloads
  <2>2. ASSUME NEW h \in Handlers, ReceiveMessages(t, h)
        PROVE  Lines!TimelineNext \/ LinesStay
    BY <2>2, ReceiveLearns
  <2>3. ASSUME \/ \E h \in Handlers : \/ Send(t, h) \/ Poll(t, h)
                                      \/ SendGet(t, h) \/ ReceiveFetch(t, h)
                                      \/ Refused(t, h)
               \/ RequestLost(t)
        PROVE  LinesStay
    BY <2>3, OthersStay
  <2> QED
    BY <1>1, <2>1, <2>2, <2>3 DEF TabStep
<1>2. ASSUME NEW h \in Handlers, Serve(h)
      PROVE  Lines!TimelineNext \/ LinesStay
  BY <1>2, ServeAppears
<1>3. ASSUME UNCHANGED <<message, tab, late>> PROVE LinesStay
  BY <1>3, StayOf DEF Stays
<1>4. ASSUME NEW h \in Handlers, Unheard(h)
      PROVE  UNCHANGED <<message, tab, late>>
  BY <1>4 DEF Unheard, Respond, tabVars, tables
<1>5. ASSUME UNCHANGED allVars PROVE UNCHANGED <<message, tab, late>>
  BY <1>5 DEF allVars, vars, tabVars
<1> QED
  BY <1>1, <1>2, <1>3, <1>4, <1>5 DEF TabNext

\* Through chat.js, /fetch and /message together, whatever requests overlap,
\* fail or are lost, a page is emptied by a reload or learns of newer messages,
\* in order and without skipping any but late ones.
THEOREM PagesImplementTimeline == TabSpec => ImplementsTimeline
<1>1. TabInit => Lines!TimelineInit
  <2> SUFFICES ASSUME TabInit PROVE Lines!TimelineInit
    OBVIOUS
  <2>1. tab = [t \in Tabs |-> Closed] /\ late = {} /\ message = InitialRows
    BY DEF TabInit, Init
  <2>2. Closed.timeline = <<>> /\ Closed.last = 0
    BY DEF Closed
  <2> QED
    BY <2>1, <2>2 DEF Lines!TimelineInit, Lines!TableInit
<1>2. TabInv /\ [TabNext]_allVars
        => [Lines!TimelineNext]_<<[c \in Channels |-> IdsIn(message, c)],
                                  [t \in Tabs |-> tab[t].timeline],
                                  [t \in Tabs |-> tab[t].last], late>>
  BY TimelineStep DEF LinesStay
<1> QED
  BY <1>1, <1>2, TabInvariant, PTL
     DEF TabSpec, ImplementsTimeline, Lines!TimelineSpec
=============================================================================
