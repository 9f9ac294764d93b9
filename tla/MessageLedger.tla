--------------------------- MODULE MessageLedger ----------------------------
(***************************************************************************)
(* The benchmarker's ledger of sent messages, bench/src/bench/structure.go *)
(* (msgMap, msgCntMin, msgCntMax), with the goroutines that write it while *)
(* they post to the web application and the checks that read it while the  *)
(* application is loaded.                                                  *)
(*                                                                         *)
(* A post enters the ledger before it is sent and is completed after its   *)
(* answer came, so the number of stored messages lies between msgCntMin    *)
(* and msgCntMax while nobody knows which of the unanswered posts the      *)
(* application has stored.  All requests go through Checker.Play, which    *)
(* returns nil without sending anything once the context of the run is     *)
(* done.                                                                   *)
(*                                                                         *)
(* The application is external to this module: it stores a post once, at   *)
(* some time before it answers or after the client gave up, or never if it *)
(* does not answer; COUNT and SELECT see what is stored.  Module Chat is   *)
(* the application itself.                                                 *)
(***************************************************************************)
EXTENDS Naturals, FiniteSets

CONSTANTS
    Channels,
    Texts,            \* what RandomText can return
    InitialMessages,  \* the messages of the data set
    Writers,          \* goroutines of LoadReadWriteUser and CheckMessageScenario
    Readers           \* goroutines that run CheckFecthUnreadCount or GET /message

\* A message of the ledger is known by its channel and its text.
Message == Channels \X Texts

ASSUME MessagesAssumption ==
    /\ InitialMessages \subseteq Message
    /\ IsFiniteSet(Message)

VARIABLES
    msgMap,     \* the messages in the ledger
    complete,   \* those with SendComplete
    msgCntMin,
    msgCntMax,
    stored,     \* external: the rows of the application's message table
    inflight,   \* external: posts that are sent and neither stored nor refused
    answered,   \* external: posts whose 204 is on its way to the client
    writer,     \* writer[w]: where its post is and which message it posts
    reader,     \* reader[r]: where its check is and what it has read
    done        \* the context of the run is done

ledger == <<msgMap, complete, msgCntMin, msgCntMax>>
server == <<stored, inflight, answered>>
vars == <<ledger, server, writer, reader, done>>

-----------------------------------------------------------------------------
In(S, c) == {m \in S : m[1] = c}

Counted(S) == [c \in Channels |-> Cardinality(In(S, c))]

Zero == [c \in Channels |-> 0]

\* "play": AddSendMessage has returned, Play is not yet entered;
\* "sent": Client.Do waits for the answer;
\* "complete": Play returned nil; "stopped": the goroutine returned an error.
WriterPC == {"ready", "play", "sent", "complete", "stopped"}

Writer == [pc : {"ready", "stopped"}, msg : {<<>>}]
            \cup [pc : {"play", "sent", "complete"}, msg : Message]

\* "counting" and "selecting" wait for the answer to GET /fetch and to
\* GET /message, "validate" runs the CheckFunc.
ReaderPC == {"ready", "play", "counting", "check", "selecting", "validate",
             "passed", "fatal"}

\* unread is the answer of /fetch, todo the channels it still has to count.
Reader == [pc : ReaderPC, minCnt : [Channels -> Nat],
           unread : [Channels -> Nat], todo : SUBSET Channels,
           msgs : SUBSET Message]

NoReader == [pc |-> "ready", minCnt |-> Zero, unread |-> Zero, todo |-> {},
             msgs |-> {}]

Init ==
    /\ msgMap = InitialMessages
    /\ complete = InitialMessages
    /\ msgCntMin = Counted(InitialMessages)
    /\ msgCntMax = Counted(InitialMessages)
    /\ stored = InitialMessages
    /\ inflight = {}
    /\ answered = {}
    /\ writer = [w \in Writers |-> [pc |-> "ready", msg |-> <<>>]]
    /\ reader = [r \in Readers |-> NoReader]
    /\ done = FALSE

\* Mutant: a text the channel already has is counted again.
DuplicateMutant(w, m) ==
    /\ writer[w].pc = "ready"
    /\ msgMap' = msgMap \cup {m}
    /\ msgCntMax' = [msgCntMax EXCEPT ![m[1]] = @ + 1]
    /\ writer' = [writer EXCEPT ![w] = [pc |-> "play", msg |-> m]]
    /\ UNCHANGED <<complete, msgCntMin, server, reader, done>>

\* Mutant: a message counts as sent when it enters the ledger.
SendCompleteMutant(w, m) ==
    /\ writer[w].pc = "ready"
    /\ m \notin msgMap
    /\ msgMap' = msgMap \cup {m}
    /\ msgCntMax' = [msgCntMax EXCEPT ![m[1]] = @ + 1]
    /\ msgCntMin' = [msgCntMin EXCEPT ![m[1]] = @ + 1]
    /\ complete' = complete \cup {m}
    /\ writer' = [writer EXCEPT ![w] = [pc |-> "play", msg |-> m]]
    /\ UNCHANGED <<server, reader, done>>

\* AddSendMessage refuses a text the channel already has.  LoadReadWriteUser
\* waits for its next tick then, CheckMessageScenario draws another text.
AddSendMessage(w, m) ==
    /\ writer[w].pc = "ready"
    /\ m \notin msgMap
    /\ msgMap' = msgMap \cup {m}
    /\ msgCntMax' = [msgCntMax EXCEPT ![m[1]] = @ + 1]
    /\ writer' = [writer EXCEPT ![w] = [pc |-> "play", msg |-> m]]
    /\ UNCHANGED <<complete, msgCntMin, server, reader, done>>

\* Play returns nil at once when the context is done.
PlayPost(w) ==
    /\ writer[w].pc = "play"
    /\ IF done
       THEN /\ writer' = [writer EXCEPT ![w].pc = "complete"]
            /\ UNCHANGED inflight
       ELSE /\ writer' = [writer EXCEPT ![w].pc = "sent"]
            /\ inflight' = inflight \cup {writer[w].msg}
    /\ UNCHANGED <<ledger, stored, answered, reader, done>>

PostAnswered(w) ==
    /\ writer[w].pc = "sent"
    /\ writer[w].msg \in answered
    /\ answered' = answered \ {writer[w].msg}
    /\ writer' = [writer EXCEPT ![w].pc = "complete"]
    /\ UNCHANGED <<ledger, stored, inflight, reader, done>>

\* Mutant: the goroutine goes on after an error and keeps its message.
PostKeptMutant(w) ==
    /\ writer[w].pc = "sent"
    /\ writer' = [writer EXCEPT ![w].pc = "stopped"]
    /\ UNCHANGED <<ledger, server, reader, done>>

\* A timeout, an error, or the end of the context while the client waits:
\* the goroutine returns, the post may still be stored.
PostFails(w) ==
    /\ writer[w].pc = "sent"
    /\ writer' = [writer EXCEPT ![w] = [pc |-> "stopped", msg |-> <<>>]]
    /\ UNCHANGED <<ledger, server, reader, done>>

\* The function AddSendMessage returned, called when Play returned nil.
Complete(w) ==
    LET m == writer[w].msg
    IN  /\ writer[w].pc = "complete"
        /\ complete' = complete \cup {m}
        /\ msgCntMin' = IF m \in complete THEN msgCntMin
                        ELSE [msgCntMin EXCEPT ![m[1]] = @ + 1]
        /\ writer' = [writer EXCEPT ![w] = [pc |-> "ready", msg |-> <<>>]]
        /\ UNCHANGED <<msgMap, msgCntMax, server, reader, done>>

\* The application stores a post and answers, whether or not the client
\* still waits, or refuses it.
Store(m) ==
    /\ m \in inflight
    /\ stored' = stored \cup {m}
    /\ answered' = answered \cup {m}
    /\ inflight' = inflight \ {m}
    /\ UNCHANGED <<ledger, writer, reader, done>>

Refuse(m) ==
    /\ m \in inflight
    /\ inflight' = inflight \ {m}
    /\ UNCHANGED <<ledger, stored, answered, writer, reader, done>>

-----------------------------------------------------------------------------
\* CheckFecthUnreadCount: the lower bound is read before the request.
SnapshotMin(r) ==
    /\ reader[r].pc = "ready"
    /\ reader' = [reader EXCEPT ![r] = [NoReader EXCEPT !.pc = "play",
                                                        !.minCnt = msgCntMin]]
    /\ UNCHANGED <<ledger, server, writer, done>>

\* Play without a request: the CheckFunc does not run and the check passes.
PlayFetch(r) ==
    /\ reader[r].pc = "play"
    /\ reader' = [reader EXCEPT ![r].pc = IF done THEN "passed"
                                          ELSE "counting",
                                ![r].todo = Channels]
    /\ UNCHANGED <<ledger, server, writer, done>>

\* fetchUnread counts one channel after the other; the user of this check
\* never reads a message, so its unread count is the number of rows.
CountUnread(r, c) ==
    /\ reader[r].pc = "counting"
    /\ c \in reader[r].todo
    /\ reader' = [reader EXCEPT ![r].unread[c] = Cardinality(In(stored, c)),
                                ![r].todo = @ \ {c}]
    /\ UNCHANGED <<ledger, server, writer, done>>

FetchAnswered(r) ==
    /\ reader[r].pc = "counting"
    /\ reader[r].todo = {}
    /\ reader' = [reader EXCEPT ![r].pc = "check"]
    /\ UNCHANGED <<ledger, server, writer, done>>

\* The CheckFunc reads the upper bound after the answer.
CheckUnread(r) ==
    LET R == reader[r]
        valid == \A c \in Channels : /\ R.minCnt[c] <= R.unread[c]
                                     /\ R.unread[c] <= msgCntMax[c]
    IN  /\ R.pc = "check"
        /\ reader' = [reader EXCEPT ![r].pc = IF valid THEN "passed"
                                              ELSE "fatal"]
        /\ UNCHANGED <<ledger, server, writer, done>>

\* GET /message of a load user, and its answer.
PlayMessage(r) ==
    /\ reader[r].pc = "ready"
    /\ ~done
    /\ reader' = [reader EXCEPT ![r] = [NoReader EXCEPT !.pc = "selecting"]]
    /\ UNCHANGED <<ledger, server, writer, done>>

MessageAnswered(r, c) ==
    /\ reader[r].pc = "selecting"
    /\ reader' = [reader EXCEPT ![r].pc = "validate",
                                ![r].msgs = In(stored, c)]
    /\ UNCHANGED <<ledger, server, writer, done>>

ValidateJsonMessage(r) ==
    /\ reader[r].pc = "validate"
    /\ reader' = [reader EXCEPT ![r].pc = IF reader[r].msgs \subseteq msgMap
                                          THEN "passed" ELSE "fatal"]
    /\ UNCHANGED <<ledger, server, writer, done>>

\* The request of a check fails, which is an error and not a fatal one.
ReadFails(r) ==
    /\ reader[r].pc \in {"counting", "selecting"}
    /\ reader' = [reader EXCEPT ![r].pc = "passed"]
    /\ UNCHANGED <<ledger, server, writer, done>>

NextCheck(r) ==
    /\ reader[r].pc = "passed"
    /\ reader' = [reader EXCEPT ![r] = NoReader]
    /\ UNCHANGED <<ledger, server, writer, done>>

\* context.WithTimeout(ctx, benchDuration) expires.
Deadline ==
    /\ ~done
    /\ done' = TRUE
    /\ UNCHANGED <<ledger, server, writer, reader>>

Next ==
    \/ \E w \in Writers : \/ \E m \in Message : AddSendMessage(w, m)
                          \/ PlayPost(w) \/ PostAnswered(w)
                          \/ PostFails(w) \/ Complete(w)
    \/ \E m \in Message : Store(m) \/ Refuse(m)
    \/ \E r \in Readers : \/ SnapshotMin(r) \/ PlayFetch(r)
                          \/ FetchAnswered(r) \/ CheckUnread(r)
                          \/ PlayMessage(r) \/ ReadFails(r)
                          \/ \E c \in Channels : \/ CountUnread(r, c)
                                                 \/ MessageAnswered(r, c)
                          \/ ValidateJsonMessage(r) \/ NextCheck(r)
    \/ Deadline

Spec == Init /\ [][Next]_vars

-----------------------------------------------------------------------------
LedgerTypeOK ==
    /\ msgMap \in SUBSET Message
    /\ complete \in SUBSET Message
    /\ msgCntMin \in [Channels -> Nat]
    /\ msgCntMax \in [Channels -> Nat]
    /\ stored \in SUBSET Message
    /\ inflight \in SUBSET Message
    /\ answered \in SUBSET Message
    /\ writer \in [Writers -> Writer]
    /\ reader \in [Readers -> Reader]
    /\ done \in BOOLEAN

(***************************************************************************)
(* The two counters agree with the ledger they are kept beside: msgCntMax  *)
(* counts every message of msgMap once, msgCntMin those with SendComplete, *)
(* however AddSendMessage and the functions it returns interleave.         *)
(***************************************************************************)
CountsExact ==
    /\ msgCntMax = Counted(msgMap)
    /\ msgCntMin = Counted(complete)

(***************************************************************************)
(* What the application stores lies between the completed messages and the *)
(* whole ledger.  The lower bound ends with the context of the run: from   *)
(* then on messages are completed that were never sent.                    *)
(***************************************************************************)
Bracket ==
    /\ complete \subseteq msgMap
    /\ stored \subseteq msgMap
    /\ ~done => complete \subseteq stored

(***************************************************************************)
(* No fatal error is charged to an application that stores what it         *)
(* acknowledges: neither by the unread counts nor by the messages a GET    *)
(* shows, whatever is posted, lost or timed out meanwhile, and even while  *)
(* the run ends.                                                           *)
(***************************************************************************)
NoFalseAlarm == \A r \in Readers : reader[r].pc # "fatal"

\* Why: a post is in the ledger from the start, an answered one is stored,
\* and each side of a check is read when it can only be too generous.
WriterInv ==
    /\ inflight \subseteq msgMap
    /\ answered \subseteq stored
    /\ \A w \in Writers :
         /\ writer[w].pc \in {"play", "sent", "complete"} =>
               writer[w].msg \in msgMap
         /\ writer[w].pc = "complete" /\ ~done => writer[w].msg \in stored

ReaderOK(r) ==
    LET R == reader[r]
    IN  /\ R.pc = "play" /\ ~done =>
             \A c \in Channels : R.minCnt[c] <= Cardinality(In(stored, c))
        /\ R.pc = "counting" =>
             \A c \in Channels :
                /\ R.minCnt[c] <= Cardinality(In(stored, c))
                /\ c \notin R.todo => /\ R.minCnt[c] <= R.unread[c]
                                      /\ R.unread[c] <= msgCntMax[c]
        /\ R.pc = "check" =>
             \A c \in Channels : /\ R.minCnt[c] <= R.unread[c]
                                 /\ R.unread[c] <= msgCntMax[c]
        /\ R.pc = "validate" => R.msgs \subseteq msgMap
        /\ R.pc # "fatal"

ReaderInv == \A r \in Readers : ReaderOK(r)

LedgerInv == CountsExact /\ Bracket /\ WriterInv /\ ReaderInv

(***************************************************************************)
(* To whoever only counts, the ledger and the application are the counters *)
(* of MessageCounts: a message is stored after msgCntMax has counted it,   *)
(* and msgCntMin counts it after it is stored or the run is done.          *)
(***************************************************************************)
Counts == INSTANCE MessageCounts
            WITH InitialCount <- Counted(InitialMessages),
                 sent <- msgCntMax, complete <- msgCntMin,
                 stored <- Counted(stored)

ImplementsCounts == Counts!CountsSpec
=============================================================================
