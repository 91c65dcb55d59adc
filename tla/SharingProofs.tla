---------------------------- MODULE SharingProofs -----------------------------
(***************************************************************************)
(* How agents and observers come to know of each other and of tasks: what  *)
(* context sharing, the manager's events, discovery and the task board     *)
(* guarantee for any number of agents, goroutines, observers, messages and *)
(* claims, any ttl and delay.                                              *)
(***************************************************************************)
EXTENDS ContextSharing, Discovery, EventHub, TaskBoard, DataLemmas

-----------------------------------------------------------------------------
(***************************************************************************)
(* Context sharing.  A payload stands under its sender's entries only.     *)
(* The invariant needs no more than the types: who announces takes the     *)
(* entry over without its payload, and StorePayload looks for entries of   *)
(* the payload's sender.                                                   *)
(***************************************************************************)
Entry == [by : Sharers \cup {NoSharer}, payload : Sharers \cup {NoSharer}]

ContextMsg == [action : {"CONTEXT"}, nick : Sharers, component : Components]
PayloadMsg == [action : {"SHARING-CONTEXT"}, nick : Sharers]
RequestMsg == [action : {"REQUEST-CONTEXT"}, nick : Sharers, component : Components]
Msg        == ContextMsg \cup PayloadMsg \cup RequestMsg

\* What the agents keep of each other's messages, and the messages under way.
CtxTypes ==
  /\ entries \in [Sharers -> [Components -> Entry]]
  /\ strays \in [Sharers -> SUBSET Sharers]
  /\ sharing \in [Sharers -> Msg \cup {NoMessage}]
  /\ answers \in [Sharers -> Seq(Msg)]
  /\ unread \in [Sharers -> Seq(Msg)]

\* An agent that has half handled a message has it at the head of its queue still.
Half ==
  /\ hearing \subseteq Sharers
  /\ \A a \in hearing : /\ unread[a] # <<>> /\ answers[a] = <<>>
                        /\ unread[a][1].action # "SHARING-CONTEXT"

CtxInv == CtxTypes /\ NoForeignPayload /\ Half

-----------------------------------------------------------------------------
\* The messages that the agents send are messages.
LEMMA Constructors ==
  \A n \in Sharers : /\ \A c \in Components : Context(n, c) \in Msg /\ RequestContext(n, c) \in Msg
                     /\ SharingContext(n) \in Msg
BY DEF Msg, ContextMsg, PayloadMsg, RequestMsg, Context, SharingContext, RequestContext

\* An announcement leaves an entry of its sender without payload.
LEMMA StoredEntry ==
  ASSUME NEW es \in [Components -> Entry], NEW m \in ContextMsg
  PROVE  /\ Stored(es, m) \in [Components -> Entry]
         /\ \A c \in Components :
              Stored(es, m)[c] = IF c = m.component
                                 THEN [by |-> m.nick, payload |-> NoSharer] ELSE es[c]
BY DEF Stored, Entry, ContextMsg

\* So it puts no payload under an entry of somebody else.
LEMMA StoredKeeps ==
  ASSUME CtxInv, NEW a \in Sharers, NEW m \in ContextMsg,
         entries' = [entries EXCEPT ![a] = Stored(@, m)]
  PROVE  NoForeignPayload'
<1>1. \A b \in Sharers, c \in Components :
        entries'[b][c] = IF b = a /\ c = m.component
                         THEN [by |-> m.nick, payload |-> NoSharer] ELSE entries[b][c]
  <2>1. entries[a] \in [Components -> Entry]
    BY DEF CtxInv, CtxTypes
  <2>2. \A b \in Sharers : entries'[b] = IF b = a THEN Stored(entries[a], m) ELSE entries[b]
    BY DEF CtxInv, CtxTypes
  <2> QED BY <2>1, <2>2, StoredEntry
<1> QED BY <1>1 DEF CtxInv, NoForeignPayload

\* An entry with a payload of its own sender.
LEMMA WithPayload ==
  ASSUME NEW n \in Sharers, NEW e \in Entry, e.by = n
  PROVE  /\ [by |-> n, payload |-> n] \in Entry
         /\ [e EXCEPT !.payload = n] = [by |-> n, payload |-> n]
BY DEF Entry

\* A payload is stored under its sender's entries and nowhere else.
LEMMA StorePayloadEntry ==
  ASSUME CtxInv, NEW a \in Sharers, NEW m \in Msg, StorePayload(a, m)
  PROVE  /\ entries' \in [Sharers -> [Components -> Entry]]
         /\ strays' \in [Sharers -> SUBSET Sharers]
         /\ NoForeignPayload'
<1>1. m.nick \in Sharers
  BY DEF Msg, ContextMsg, PayloadMsg, RequestMsg
<1>2. CASE UNCHANGED entries /\ strays' = [strays EXCEPT ![a] = @ \cup {m.nick}]
  BY <1>1, <1>2 DEF CtxInv, CtxTypes, NoForeignPayload
<1>3. CASE \E c \in Components : /\ entries[a][c].by = m.nick
                                  /\ entries' = [entries EXCEPT ![a][c].payload = m.nick]
                                  /\ UNCHANGED strays
  <2>1. PICK c \in Components : /\ entries[a][c].by = m.nick
                                 /\ entries' = [entries EXCEPT ![a][c].payload = m.nick]
                                 /\ UNCHANGED strays
    BY <1>3
  <2> DEFINE e == [by |-> m.nick, payload |-> m.nick]
  <2>4. e \in Entry /\ [entries[a][c] EXCEPT !.payload = m.nick] = e
    <3>1. entries[a][c] \in Entry
      BY DEF CtxInv, CtxTypes
    <3> QED BY <1>1, <2>1, <3>1, WithPayload
  <2>5. entries' = [entries EXCEPT ![a] = [entries[a] EXCEPT ![c] = e]]
    BY <2>1, <2>4 DEF CtxInv, CtxTypes
  <2> HIDE DEF e
  <2>2. entries' \in [Sharers -> [Components -> Entry]]
    BY <2>4, <2>5 DEF CtxInv, CtxTypes
  <2>6. \A b \in Sharers, d \in Components :
          entries'[b][d] = IF b = a /\ d = c THEN e ELSE entries[b][d]
    BY <2>5 DEF CtxInv, CtxTypes
  <2>3. NoForeignPayload'
    BY <2>6 DEF CtxInv, NoForeignPayload, e
  <2> QED BY <2>1, <2>2, <2>3 DEF CtxInv, CtxTypes
<1> QED BY <1>2, <1>3 DEF StorePayload

\* What the server delivers is appended to the others' queues.
LEMMA DeliverType ==
  ASSUME CtxTypes, NEW a \in Sharers, NEW m \in Msg, Deliver(a, m)
  PROVE  unread' \in [Sharers -> Seq(Msg)]
BY DEF CtxTypes, Deliver

-----------------------------------------------------------------------------
LEMMA CtxStart == CtxInit => CtxInv
BY DEF CtxInit, CtxInv, CtxTypes, NoForeignPayload, Half, NoEntry, Entry

\* A message that the server relays comes behind the others.
LEMMA DeliverKeepsHead ==
  ASSUME CtxTypes, NEW a \in Sharers, NEW m \in Msg, Deliver(a, m), NEW b \in Sharers,
         unread[b] # <<>>
  PROVE  unread'[b] # <<>> /\ unread'[b][1] = unread[b][1]
<1>1. unread[b] \in Seq(Msg) /\ (unread'[b] = unread[b] \/ unread'[b] = Append(unread[b], m))
  BY DEF CtxTypes, Deliver
<1> QED BY <1>1

LEMMA HalfStep == CtxTypes /\ Half /\ [CtxNext]_ctxVars => Half'
<1> SUFFICES ASSUME CtxTypes, Half, [CtxNext]_ctxVars PROVE Half'
  OBVIOUS
<1>1. ASSUME NEW a \in Sharers, NEW m \in Msg, Deliver(a, m), UNCHANGED hearing,
             \A b \in hearing : answers'[b] = answers[b]
      PROVE  Half'
  BY <1>1, DeliverKeepsHead DEF Half
<1>2. ASSUME NEW a \in Sharers, Sent(a) PROVE Half'
  <2>1. sharing[a] \in Msg
    BY <1>2 DEF Sent, CtxTypes
  <2> QED BY <1>1, <1>2, <2>1 DEF Sent
<1>3. ASSUME NEW a \in Sharers, AnswerRequest(a) PROVE Half'
  <2>1. Head(answers[a]) \in Msg /\ a \notin hearing
    BY <1>3 DEF AnswerRequest, CtxTypes, Half
  <2>2. \A b \in hearing : answers'[b] = answers[b]
    BY <1>3, <2>1 DEF AnswerRequest, CtxTypes, Half
  <2> QED BY <1>1, <1>3, <2>1, <2>2 DEF AnswerRequest
<1>4. ASSUME NEW a \in Sharers, Hear(a) PROVE Half'
  <2>1. /\ unread[a] # <<>> /\ answers[a] = <<>> /\ unread[a] \in Seq(Msg)
        /\ Head(unread[a]).action # "SHARING-CONTEXT"
        /\ hearing' = hearing \cup {a} /\ UNCHANGED <<answers, unread>>
    BY <1>4 DEF Hear, CtxTypes
  <2>2. Head(unread[a]) = unread[a][1]
    BY <2>1
  <2> QED BY <2>1, <2>2 DEF Half
<1>5. ASSUME NEW a \in Sharers, a \notin hearing' , hearing' \subseteq hearing,
             \A b \in Sharers \ {a} : unread'[b] = unread[b] /\ answers'[b] = answers[b]
      PROVE  Half'
  BY <1>5 DEF Half
<1>6. ASSUME NEW a \in Sharers, EndHearing(a) PROVE Half'
  <2>1. /\ hearing' = hearing \ {a}
        /\ \A b \in Sharers \ {a} : unread'[b] = unread[b] /\ answers'[b] = answers[b]
    BY <1>6 DEF EndHearing, CtxTypes
  <2> QED BY <1>5, <2>1
<1>7. ASSUME NEW a \in Sharers, HearPayload(a) PROVE Half'
  <2>1. unread[a] \in Seq(Msg) /\ unread[a] # <<>> /\ Head(unread[a]).action = "SHARING-CONTEXT"
    BY <1>7 DEF HearPayload, CtxTypes
  <2>2. a \notin hearing
    BY <2>1 DEF Half
  <2>3. /\ UNCHANGED <<hearing, answers>>
        /\ \A b \in Sharers \ {a} : unread'[b] = unread[b]
    BY <1>7 DEF HearPayload, CtxTypes
  <2> QED BY <1>5, <2>2, <2>3
<1>8. CASE UNCHANGED <<hearing, answers, unread>>
  BY <1>8 DEF Half
<1>9. ASSUME NEW a \in Sharers, NEW c \in Components,
             Share(a, c) \/ Request(a, c) \/ SharePayload(a) \/ FulfillRequest(a)
      PROVE  Half'
  <2>1. UNCHANGED <<hearing, answers, unread>>
    BY <1>9 DEF Share, Request, SharePayload, FulfillRequest
  <2> QED BY <1>8, <2>1
<1>10. ASSUME NEW a \in Sharers, SharePayload(a) \/ FulfillRequest(a) PROVE Half'
  <2>1. UNCHANGED <<hearing, answers, unread>>
    BY <1>10 DEF SharePayload, FulfillRequest
  <2> QED BY <1>8, <2>1
<1> QED BY <1>2, <1>3, <1>4, <1>6, <1>7, <1>8, <1>9, <1>10 DEF CtxNext, ctxVars

LEMMA CtxStep == CtxInv /\ [CtxNext]_ctxVars => CtxInv'
<1> SUFFICES ASSUME CtxInv, [CtxNext]_ctxVars PROVE CtxInv'
  OBVIOUS
<1>1. ASSUME NEW a \in Sharers, NEW c \in Components, Share(a, c) PROVE CtxTypes' /\ NoForeignPayload'
  <2>1. Context(a, c) \in ContextMsg /\ Context(a, c).nick = a
    BY DEF Context, ContextMsg
  <2>2. entries' = [entries EXCEPT ![a] = Stored(@, Context(a, c))]
    BY <1>1 DEF Share
  <2>3. entries' \in [Sharers -> [Components -> Entry]]
    BY <2>1, <2>2, StoredEntry DEF CtxInv, CtxTypes
  <2>4. NoForeignPayload'
    BY <2>1, <2>2, StoredKeeps DEF CtxInv
  <2> QED BY <1>1, <2>3, <2>4, Constructors DEF Share, CtxInv, CtxTypes
<1>2. ASSUME NEW a \in Sharers, NEW c \in Components, Request(a, c) PROVE CtxTypes' /\ NoForeignPayload'
  BY <1>2, Constructors DEF Request, CtxInv, CtxTypes, NoForeignPayload
<1>3. ASSUME NEW a \in Sharers, SharePayload(a) PROVE CtxTypes' /\ NoForeignPayload'
  <2>1. SharingContext(a) \in Msg
    BY Constructors
  <2> QED BY <1>3, <2>1, StorePayloadEntry DEF SharePayload, CtxInv, CtxTypes
<1>4. ASSUME NEW a \in Sharers, FulfillRequest(a) PROVE CtxTypes' /\ NoForeignPayload'
  BY <1>4 DEF FulfillRequest, CtxInv, CtxTypes, NoForeignPayload
<1>5. ASSUME NEW a \in Sharers, Sent(a) PROVE CtxTypes' /\ NoForeignPayload'
  <2>1. sharing[a] \in Msg
    BY <1>5 DEF Sent, CtxInv, CtxTypes
  <2> QED BY <1>5, <2>1, DeliverType DEF Sent, CtxInv, CtxTypes, NoForeignPayload
<1>6. ASSUME NEW a \in Sharers, AnswerRequest(a) PROVE CtxTypes' /\ NoForeignPayload'
  <2>1. Head(answers[a]) \in Msg /\ Tail(answers[a]) \in Seq(Msg)
    BY <1>6 DEF AnswerRequest, CtxInv, CtxTypes
  <2> QED BY <1>6, <2>1, DeliverType DEF AnswerRequest, CtxInv, CtxTypes, NoForeignPayload
<1>7. ASSUME NEW a \in Sharers, Hear(a) PROVE CtxTypes' /\ NoForeignPayload'
  <2> DEFINE m == Head(unread[a])
  <2>1. m \in Msg
    BY <1>7 DEF Hear, CtxInv, CtxTypes
  <2>2. UNCHANGED <<strays, sharing, answers, unread>>
    BY <1>7 DEF Hear
  <2>3. CASE m.action = "CONTEXT"
    <3>1. m \in ContextMsg
      BY <2>1, <2>3 DEF Msg, ContextMsg, PayloadMsg, RequestMsg
    <3>2. entries' = [entries EXCEPT ![a] = Stored(@, m)]
      BY <1>7, <2>3 DEF Hear
    <3>3. entries' \in [Sharers -> [Components -> Entry]]
      BY <3>1, <3>2, StoredEntry DEF CtxInv, CtxTypes
    <3>4. NoForeignPayload'
      BY <3>1, <3>2, StoredKeeps
    <3> QED BY <2>2, <3>3, <3>4 DEF CtxInv, CtxTypes
  <2>4. CASE m.action # "CONTEXT"
    BY <1>7, <2>2, <2>4 DEF Hear, CtxInv, CtxTypes, NoForeignPayload
  <2> QED BY <2>3, <2>4
<1>8. ASSUME NEW a \in Sharers, HearPayload(a) PROVE CtxTypes' /\ NoForeignPayload'
  <2> DEFINE m == Head(unread[a])
  <2>1. m \in Msg /\ Tail(unread[a]) \in Seq(Msg)
    BY <1>8 DEF HearPayload, CtxInv, CtxTypes
  <2>2. unread' \in [Sharers -> Seq(Msg)] /\ UNCHANGED <<sharing, answers>>
    BY <1>8, <2>1 DEF HearPayload, CtxInv, CtxTypes
  <2>3. StorePayload(a, m)
    BY <1>8 DEF HearPayload
  <2> QED BY <2>1, <2>2, <2>3, StorePayloadEntry DEF CtxInv, CtxTypes
<1>9. ASSUME NEW a \in Sharers, EndHearing(a) PROVE CtxTypes' /\ NoForeignPayload'
  <2> DEFINE m == Head(unread[a])
  <2>1. m \in Msg /\ Tail(unread[a]) \in Seq(Msg)
    <3>1. unread[a] # <<>> /\ unread[a] \in Seq(Msg)
      BY <1>9 DEF EndHearing, CtxInv, CtxTypes, Half
    <3> QED BY <3>1
  <2>2. unread' \in [Sharers -> Seq(Msg)] /\ UNCHANGED <<entries, strays, sharing>>
    BY <1>9, <2>1 DEF EndHearing, CtxInv, CtxTypes
  <2>3. CASE m.action = "CONTEXT"
    BY <1>9, <2>2, <2>3 DEF EndHearing, CtxInv, CtxTypes, NoForeignPayload
  <2>4. CASE m.action = "REQUEST-CONTEXT"
    <3>1. m.component \in Components
      BY <2>1, <2>4 DEF Msg, ContextMsg, PayloadMsg, RequestMsg
    <3>2. Context(a, m.component) \in Msg /\ SharingContext(a) \in Msg
      BY <3>1, Constructors
    <3>3. answers' \in {[answers EXCEPT ![a] = <<>>],
                         [answers EXCEPT ![a] = <<Context(a, m.component)>>],
                         [answers EXCEPT ![a] = <<Context(a, m.component), SharingContext(a)>>]}
      BY <1>9, <2>4, Zenon DEF EndHearing
    <3>4. /\ <<Context(a, m.component)>> \in Seq(Msg)
          /\ <<Context(a, m.component), SharingContext(a)>> \in Seq(Msg)
          /\ <<>> \in Seq(Msg)
      BY <3>2
    <3>5. \E s \in Seq(Msg) : answers' = [answers EXCEPT ![a] = s]
      BY <3>3, <3>4, Zenon
    <3>6. answers' \in [Sharers -> Seq(Msg)]
      BY <3>5 DEF CtxInv, CtxTypes
    <3> QED BY <2>2, <3>6 DEF CtxInv, CtxTypes, NoForeignPayload
  <2> QED BY <1>9, <2>3, <2>4 DEF EndHearing
<1>10. CASE UNCHANGED ctxVars
  BY <1>10 DEF ctxVars, CtxInv, CtxTypes, NoForeignPayload, Half
<1>11. Half'
  BY HalfStep DEF CtxInv
<1> QED BY <1>1, <1>2, <1>3, <1>4, <1>5, <1>6, <1>7, <1>8, <1>9, <1>10, <1>11 DEF CtxNext, CtxInv

\* NoForeignPayload, for any agents, components and number of messages: however
\* announcements, payloads and answers to requests cross, a payload stands only
\* under an entry of the agent whose message brought it (context_sharing.go Store,
\* StorePayload, HandleContextRequest).
THEOREM PayloadsAreTheirSenders == CtxSpec => []NoForeignPayload
<1>1. CtxInv => NoForeignPayload
  BY DEF CtxInv
<1> QED BY <1>1, CtxStart, CtxStep, PTL DEF CtxSpec
-----------------------------------------------------------------------------
(***************************************************************************)
(* Requests are answered.  Whoever is named by an entry has announced the  *)
(* component and knows it, so it answers a request as well; its answer     *)
(* comes behind the request in every queue, because the server delivers a  *)
(* message to all at once.                                                 *)
(***************************************************************************)
Req == [component : Components, by : Sharers, fulfilled : BOOLEAN]

ReqTypes ==
  /\ requests \in [Sharers -> Seq(Req)]
  /\ \A a \in Sharers : \A m \in ToSet(answers[a]) : m.nick = a
  /\ \A a \in Sharers : sharing[a] = NoMessage \/ sharing[a].nick = a

\* Who announced an entry last; an agent knows a component once somebody has.
Owner(a, c) == entries[a][c].by
Knows(a, c) == Owner(a, c) # NoSharer

\* An announcement of the component waits to be heard.
Announced(a, c) == \E n \in Sharers : Context(n, c) \in ToSet(unread[a])

\* Who announces a component knows it.
Spoken ==
  \A n, a \in Sharers, c \in Components :
    \/ Context(n, c) \in ToSet(unread[a]) \cup ToSet(answers[a])
    \/ sharing[a] = Context(n, c)
    \/ Owner(a, c) = n
    => Knows(n, c)

\* What anybody knows, everybody knows or is about to hear.
Spread ==
  \A a, b \in Sharers, c \in Components :
    Knows(a, c) => \/ Knows(b, c) \/ Announced(b, c)
                   \/ \E d \in Sharers : sharing[d] = Context(d, c)

\* Agent n has still to hear the request of q, or to send its answer.
Answering(n, q, c) ==
  \/ RequestContext(q, c) \in ToSet(unread[n])
  \/ Context(n, c) \in ToSet(answers[n])

\* A request that a has not heard yet: when it is, the entry is of somebody who
\* answers, or an announcement comes behind it.
Unheard ==
  \A a, q \in Sharers, c \in Components : \A k \in DOMAIN unread[a] :
    unread[a][k] = RequestContext(q, c) =>
      \A n \in Sharers \ {a, q} :
        \/ Owner(a, c) = n
        \/ \E j \in 1..(k-1) : unread[a][j] = Context(n, c)
        => \/ Answering(n, q, c)
           \/ \E j \in DOMAIN unread[a], p \in Sharers : j > k /\ unread[a][j] = Context(p, c)

\* A request that a has tracked and that is pending.
Tracking ==
  \A a, n \in Sharers : \A i \in DOMAIN requests[a] :
    LET r == requests[a][i]
    IN  ~r.fulfilled /\ Owner(a, r.component) = n /\ n \notin {a, r.by}
          => Answering(n, r.by, r.component) \/ Announced(a, r.component)

\* An announcement that a has half handled has reached its entry.
Heard ==
  \A a \in hearing : \A n \in Sharers, c \in Components :
    unread[a][1] = Context(n, c) => Knows(a, c)

AnswerInv == CtxInv /\ ReqTypes /\ Spoken /\ Spread /\ Unheard /\ Tracking /\ Heard

-----------------------------------------------------------------------------
\* The three kinds of messages are different.
LEMMA Different ==
  \A n, p \in Sharers, c, d \in Components :
    /\ Context(n, c) # NoMessage /\ RequestContext(n, c) # NoMessage
    /\ SharingContext(n) # NoMessage
    /\ Context(n, c) # RequestContext(p, d) /\ Context(n, c) # SharingContext(p)
    /\ RequestContext(n, c) # SharingContext(p)
    /\ Context(n, c) = Context(p, d) => n = p /\ c = d
    /\ RequestContext(n, c) = RequestContext(p, d) => n = p /\ c = d
BY DEF Context, RequestContext, SharingContext, NoMessage

\* A message is one of them.
LEMMA Kinds ==
  ASSUME NEW m \in Msg
  PROVE  /\ m.nick \in Sharers
         /\ \/ m.component \in Components /\ m = Context(m.nick, m.component)
            \/ m = SharingContext(m.nick)
            \/ m.component \in Components /\ m = RequestContext(m.nick, m.component)
BY DEF Msg, ContextMsg, PayloadMsg, RequestMsg, Context, RequestContext, SharingContext

\* Steps after which the agents have heard and announced what they had before.
LEMMA NothingNew ==
  ASSUME AnswerInv, UNCHANGED <<unread, answers>>,
         \A a \in Sharers, c \in Components : Owner(a, c)' = Owner(a, c),
         \A a, n \in Sharers, c \in Components :
           sharing'[a] = Context(n, c) <=> sharing[a] = Context(n, c),
         \A a \in Sharers : sharing'[a] = NoMessage \/ sharing'[a].nick = a,
         requests' \in [Sharers -> Seq(Req)],
         \A a \in Sharers : \A i \in DOMAIN requests'[a] :
           /\ i \in DOMAIN requests[a] /\ requests[a][i] \in Req
           /\ requests'[a][i].component = requests[a][i].component
           /\ requests'[a][i].by = requests[a][i].by
           /\ requests[a][i].fulfilled => requests'[a][i].fulfilled
  PROVE  ReqTypes' /\ Spoken' /\ Spread' /\ Unheard' /\ Tracking'
<1>1. ReqTypes'
  BY DEF AnswerInv, ReqTypes
<1>2. Spoken'
  BY DEF AnswerInv, Spoken, Knows
<1>3. Spread'
  BY DEF AnswerInv, Spread, Knows, Announced
<1>4. \A n, q \in Sharers, c \in Components : /\ Answering(n, q, c)' = Answering(n, q, c)
                                              /\ Announced(n, c)' = Announced(n, c)
  BY DEF Answering, Announced
<1>5. Unheard'
  BY <1>4 DEF AnswerInv, Unheard
<1>6. Tracking'
  <2> SUFFICES ASSUME NEW a \in Sharers, NEW n \in Sharers, NEW i \in DOMAIN requests'[a],
                      ~requests'[a][i].fulfilled,
                      Owner(a, requests[a][i].component)' = n, n \notin {a, requests'[a][i].by}
               PROVE  \/ Answering(n, requests[a][i].by, requests[a][i].component)'
                      \/ Announced(a, requests[a][i].component)'
    BY DEF Tracking
  <2>1. PICK r \in Req : r = requests[a][i]
    OBVIOUS
  <2>2. r.component \in Components /\ r.by \in Sharers
    BY DEF Req
  <2>3. requests'[a][i].component = r.component /\ requests'[a][i].by = r.by /\ ~r.fulfilled
    BY <2>1
  <2>4. Owner(a, r.component)' = Owner(a, r.component) /\ Owner(a, r.component) = n
    BY <2>2, <2>3 DEF Owner
  <2>5. Answering(n, r.by, r.component) \/ Announced(a, r.component)
    BY <2>1, <2>3, <2>4 DEF AnswerInv, Tracking
  <2>6. Answering(n, r.by, r.component)' \/ Announced(a, r.component)'
    BY <1>4, <2>2, <2>5
  <2> QED BY <2>3, <2>6 DEF Answering, Announced
<1> QED BY <1>1, <1>2, <1>3, <1>5, <1>6

\* ShareContext: the agent owns its entry, and its announcement is on the way.
LEMMA ShareAnswered ==
  ASSUME AnswerInv, NEW a \in Sharers, NEW c \in Components, Share(a, c)
  PROVE  ReqTypes' /\ Spoken' /\ Spread' /\ Unheard' /\ Tracking'
<1>1. /\ entries' = [entries EXCEPT ![a] = Stored(entries[a], Context(a, c))]
      /\ sharing[a] = NoMessage /\ sharing' = [sharing EXCEPT ![a] = Context(a, c)]
      /\ UNCHANGED <<requests, answers, unread>>
  BY DEF Share
<1>2. Context(a, c) \in ContextMsg /\ Context(a, c).nick = a /\ Context(a, c).component = c
  BY DEF Context, ContextMsg
<1>3. \A b \in Sharers, d \in Components :
        Owner(b, d)' = IF b = a /\ d = c THEN a ELSE Owner(b, d)
  <2>1. entries[a] \in [Components -> Entry]
    BY DEF AnswerInv, CtxInv, CtxTypes
  <2>2. \A b \in Sharers : entries'[b] = IF b = a THEN Stored(entries[a], Context(a, c)) ELSE entries[b]
    BY <1>1 DEF AnswerInv, CtxInv, CtxTypes
  <2>3. \A d \in Components :
          Stored(entries[a], Context(a, c))[d]
            = IF d = Context(a, c).component
              THEN [by |-> Context(a, c).nick, payload |-> NoSharer] ELSE entries[a][d]
    BY <1>2, <2>1, StoredEntry, Zenon
  <2> QED BY <1>2, <2>2, <2>3 DEF Owner
<1>4. /\ sharing'[a] = Context(a, c)
      /\ \A b \in Sharers \ {a} : sharing'[b] = sharing[b]
  BY <1>1 DEF AnswerInv, CtxInv, CtxTypes
<1>5. a # NoSharer
  BY ContextConstants
<1>6. ReqTypes'
  BY <1>1, <1>2, <1>4 DEF AnswerInv, ReqTypes
<1>7. Spoken'
  BY <1>1, <1>3, <1>4, <1>5, Different DEF AnswerInv, Spoken, Knows
<1>8. Spread'
  <2> SUFFICES ASSUME NEW x \in Sharers, NEW b \in Sharers, NEW d \in Components, Knows(x, d)'
               PROVE  \/ Knows(b, d)' \/ Announced(b, d)'
                      \/ \E e \in Sharers : sharing'[e] = Context(e, d)
    BY DEF Spread
  <2>1. CASE d = c
    BY <1>4, <2>1
  <2>2. CASE d # c
    <3>1. Knows(x, d) /\ (Knows(b, d) => Knows(b, d)') /\ (Announced(b, d) => Announced(b, d)')
      BY <1>1, <1>3, <2>2 DEF Knows, Announced
    <3>2. ASSUME NEW e \in Sharers, sharing[e] = Context(e, d) PROVE sharing'[e] = Context(e, d)
      <4>1. e # a
        BY <1>1, <3>2, Different
      <4> QED BY <1>4, <3>2, <4>1
    <3> QED BY <3>1, <3>2 DEF AnswerInv, Spread
  <2> QED BY <2>1, <2>2
<1>9. \A n, q \in Sharers, d \in Components : /\ Answering(n, q, d)' = Answering(n, q, d)
                                              /\ Announced(n, d)' = Announced(n, d)
  BY <1>1 DEF Answering, Announced
<1>10. Unheard'
  <2> SUFFICES ASSUME NEW b \in Sharers, NEW q \in Sharers, NEW d \in Components,
                      NEW k \in DOMAIN unread[b], unread[b][k] = RequestContext(q, d),
                      NEW n \in Sharers \ {b, q},
                      \/ Owner(b, d)' = n
                      \/ \E j \in 1..(k-1) : unread[b][j] = Context(n, d)
               PROVE  \/ Answering(n, q, d)
                      \/ \E j \in DOMAIN unread[b], p \in Sharers : j > k /\ unread[b][j] = Context(p, d)
    BY <1>1, <1>9 DEF Unheard
  <2>1. Owner(b, d)' = n => Owner(b, d) = n
    BY <1>3
  <2> QED BY <2>1 DEF AnswerInv, Unheard
<1>11. Tracking'
  <2> SUFFICES ASSUME NEW b \in Sharers, NEW n \in Sharers, NEW i \in DOMAIN requests[b],
                      ~requests[b][i].fulfilled,
                      Owner(b, requests[b][i].component)' = n, n \notin {b, requests[b][i].by}
               PROVE  \/ Answering(n, requests[b][i].by, requests[b][i].component)'
                      \/ Announced(b, requests[b][i].component)'
    BY <1>1 DEF Tracking
  <2>1. PICK r \in Req : r = requests[b][i]
    BY DEF AnswerInv, ReqTypes
  <2>2. r.component \in Components /\ r.by \in Sharers
    BY DEF Req
  <2>3. requests'[b][i] = r
    BY <1>1, <2>1
  <2>4. Owner(b, r.component)' = n
    BY <2>1, <2>3 DEF Owner
  <2>5. Owner(b, r.component) = n
    BY <1>3, <2>1, <2>2, <2>4
  <2>6. Answering(n, r.by, r.component) \/ Announced(b, r.component)
    BY <2>1, <2>5 DEF AnswerInv, Tracking
  <2>7. Answering(n, r.by, r.component)' \/ Announced(b, r.component)'
    BY <1>9, <2>2, <2>6
  <2> QED BY <2>1, <2>3, <2>7 DEF Answering, Announced
<1> QED BY <1>6, <1>7, <1>8, <1>10, <1>11

\* A message of x is delivered: an announcement that x had stored, or its answer.
LEMMA DeliverAnswered ==
  ASSUME AnswerInv, NEW x \in Sharers, NEW m \in Msg, m.nick = x, Deliver(x, m),
         \A c \in Components : m = Context(x, c) => Knows(x, c),
         UNCHANGED <<entries, requests>>,
         \A a \in Sharers \ {x} : answers'[a] = answers[a],
         ToSet(answers'[x]) \subseteq ToSet(answers[x]),
         ToSet(answers[x]) \subseteq ToSet(answers'[x]) \cup {m},
         \A a \in Sharers \ {x} : sharing'[a] = sharing[a],
         sharing'[x] = sharing[x] \/ (sharing'[x] = NoMessage /\ sharing[x] = m)
  PROVE  ReqTypes' /\ Spoken' /\ Spread' /\ Unheard' /\ Tracking'
<1>1. /\ unread'[x] = unread[x]
      /\ \A a \in Sharers \ {x} : unread'[a] = Append(unread[a], m)
  BY DEF Deliver
<1>2. \A a \in Sharers : unread[a] \in Seq(Msg)
  BY DEF AnswerInv, CtxInv, CtxTypes
<1>3. /\ \A a \in Sharers \ {x} : ToSet(unread'[a]) = ToSet(unread[a]) \cup {m}
      /\ \A a \in Sharers : ToSet(answers'[a]) \subseteq ToSet(answers[a])
  <2>1. ASSUME NEW a \in Sharers \ {x} PROVE ToSet(unread'[a]) = ToSet(unread[a]) \cup {m}
    <3>1. unread[a] \in Seq(Msg) /\ unread'[a] = Append(unread[a], m)
      BY <1>1, <1>2
    <3>2. ToSet(Append(unread[a], m)) = ToSet(unread[a]) \cup {m}
      BY <3>1, ToSetAppend
    <3> QED BY <3>1, <3>2, Zenon
  <2>2. ASSUME NEW a \in Sharers PROVE ToSet(answers'[a]) \subseteq ToSet(answers[a])
    <3>1. CASE a = x
      BY <3>1, Zenon
    <3>2. CASE a # x
      <4>1. answers'[a] = answers[a]
        BY <3>2
      <4> QED BY <4>1, Zenon
    <3> QED BY <3>1, <3>2
  <2> QED BY <2>1, <2>2
<1>4. \A a \in Sharers, c \in Components : Owner(a, c)' = Owner(a, c) /\ Knows(a, c)' = Knows(a, c)
  BY DEF Owner, Knows
<1>5. ReqTypes'
  BY <1>3 DEF AnswerInv, ReqTypes
<1>6. Spoken'
  <2> SUFFICES ASSUME NEW n \in Sharers, NEW a \in Sharers, NEW c \in Components,
                      \/ Context(n, c) \in ToSet(unread'[a]) \cup ToSet(answers'[a])
                      \/ sharing'[a] = Context(n, c)
                      \/ Owner(a, c)' = n
               PROVE  Knows(n, c)'
    BY DEF Spoken
  <2>1. CASE m = Context(n, c)
    <3>1. n = x
      BY <2>1 DEF Context
    <3> QED BY <1>4, <2>1, <3>1
  <2>2. CASE m # Context(n, c)
    <3>1. /\ Context(n, c) \in ToSet(unread'[a]) => Context(n, c) \in ToSet(unread[a])
          /\ Context(n, c) \in ToSet(answers'[a]) => Context(n, c) \in ToSet(answers[a])
          /\ sharing'[a] = Context(n, c) => sharing[a] = Context(n, c)
      <4>1. sharing'[a] = Context(n, c) => sharing[a] = Context(n, c)
        BY Different
      <4>2. Context(n, c) \in ToSet(unread'[a]) => Context(n, c) \in ToSet(unread[a])
        <5>1. CASE a = x
          BY <1>1, <5>1, Zenon
        <5>2. CASE a # x
          BY <1>3, <2>2, <5>2
        <5> QED BY <5>1, <5>2
      <4> QED BY <1>3, <4>1, <4>2
    <3>2. Owner(a, c)' = n => Owner(a, c) = n
      BY <1>4
    <3>3. Knows(n, c)
      BY <3>1, <3>2 DEF AnswerInv, Spoken
    <3> QED BY <1>4, <3>3
  <2> QED BY <2>1, <2>2
<1>7. \A a \in Sharers, c \in Components : Announced(a, c) => Announced(a, c)'
  BY <1>1, <1>3 DEF Announced
<1>8. Spread'
  <2> SUFFICES ASSUME NEW a \in Sharers, NEW b \in Sharers, NEW c \in Components, Knows(a, c)'
               PROVE  \/ Knows(b, c)' \/ Announced(b, c)'
                      \/ \E d \in Sharers : sharing'[d] = Context(d, c)
    BY DEF Spread
  <2>1. \/ Knows(b, c) \/ Announced(b, c) \/ \E d \in Sharers : sharing[d] = Context(d, c)
    BY <1>4 DEF AnswerInv, Spread
  <2>2. ASSUME NEW d \in Sharers, sharing[d] = Context(d, c)
        PROVE  sharing'[d] = Context(d, c) \/ Knows(b, c)' \/ Announced(b, c)'
    <3>1. CASE sharing'[d] = sharing[d]
      BY <2>2, <3>1
    <3>2. CASE sharing'[d] # sharing[d]
      <4>1. d = x /\ m = Context(x, c)
        BY <2>2, <3>2
      <4>2. CASE b = x
        BY <1>4, <4>1, <4>2
      <4>3. CASE b # x
        BY <1>3, <4>1, <4>3 DEF Announced
      <4> QED BY <4>2, <4>3
    <3> QED BY <3>1, <3>2
  <2> QED BY <1>4, <1>7, <2>1, <2>2
<1>9. \A n, q \in Sharers, c \in Components :
        Answering(n, q, c) => Answering(n, q, c)' \/ (n = x /\ m = Context(x, c))
  BY <1>1, <1>3 DEF Answering
<1>10. Unheard'
  <2> SUFFICES ASSUME NEW a \in Sharers, NEW q \in Sharers, NEW c \in Components,
                      NEW k \in DOMAIN unread'[a], unread'[a][k] = RequestContext(q, c),
                      NEW n \in Sharers \ {a, q},
                      \/ Owner(a, c)' = n
                      \/ \E j \in 1..(k-1) : unread'[a][j] = Context(n, c)
               PROVE  \/ Answering(n, q, c)'
                      \/ \E j \in DOMAIN unread'[a], p \in Sharers : j > k /\ unread'[a][j] = Context(p, c)
    BY DEF Unheard
  <2>1. CASE a = x
    <3>1. \/ Answering(n, q, c)
          \/ \E j \in DOMAIN unread[a], p \in Sharers : j > k /\ unread[a][j] = Context(p, c)
      BY <1>1, <1>4, <2>1 DEF AnswerInv, Unheard
    <3> QED BY <1>1, <1>9, <2>1, <3>1
  <2>2. CASE a # x
    <3>1. /\ DOMAIN unread'[a] = 1..(Len(unread[a]) + 1) /\ DOMAIN unread[a] = 1..Len(unread[a])
          /\ Len(unread[a]) \in Nat /\ unread'[a][Len(unread[a]) + 1] = m
          /\ \A i \in 1..Len(unread[a]) : unread'[a][i] = unread[a][i]
      BY <1>1, <1>2, <2>2
    <3>2. CASE k = Len(unread[a]) + 1
      <4>1. m = RequestContext(q, c) /\ q = x
        BY <3>1, <3>2 DEF RequestContext
      <4> QED BY <1>3, <4>1 DEF Answering
    <3>3. CASE k # Len(unread[a]) + 1
      <4>1. k \in DOMAIN unread[a] /\ unread[a][k] = RequestContext(q, c)
        BY <3>1, <3>3
      <4>2. \/ Owner(a, c) = n
            \/ \E j \in 1..(k-1) : unread[a][j] = Context(n, c)
        <5>1. \A j \in 1..(k-1) : j \in 1..Len(unread[a])
          BY <3>1, <4>1
        <5> QED BY <1>4, <3>1, <5>1
      <4>3. \/ Answering(n, q, c)
            \/ \E j \in DOMAIN unread[a], p \in Sharers : j > k /\ unread[a][j] = Context(p, c)
        BY <4>1, <4>2 DEF AnswerInv, Unheard
      <4>4. CASE Answering(n, q, c)
        <5>1. CASE n = x /\ m = Context(x, c)
          <6>1. Len(unread[a]) + 1 \in DOMAIN unread'[a] /\ Len(unread[a]) + 1 > k
            BY <3>1, <4>1
          <6> QED BY <3>1, <5>1, <6>1
        <5> QED BY <1>9, <4>4, <5>1
      <4>5. ASSUME NEW j \in DOMAIN unread[a], NEW p \in Sharers, j > k, unread[a][j] = Context(p, c)
            PROVE  \E i \in DOMAIN unread'[a], l \in Sharers : i > k /\ unread'[a][i] = Context(l, c)
        BY <3>1, <4>5
      <4> QED BY <4>3, <4>4, <4>5
    <3> QED BY <3>2, <3>3
  <2> QED BY <2>1, <2>2
<1>11. Tracking'
  <2> SUFFICES ASSUME NEW a \in Sharers, NEW n \in Sharers, NEW i \in DOMAIN requests[a],
                      ~requests[a][i].fulfilled,
                      Owner(a, requests[a][i].component)' = n, n \notin {a, requests[a][i].by}
               PROVE  \/ Answering(n, requests[a][i].by, requests[a][i].component)'
                      \/ Announced(a, requests[a][i].component)'
    BY DEF Tracking
  <2>1. PICK r \in Req : r = requests[a][i]
    BY DEF AnswerInv, ReqTypes
  <2>2. r.component \in Components /\ r.by \in Sharers
    BY DEF Req
  <2>3. requests'[a][i] = r
    BY <2>1
  <2>4. Owner(a, r.component) = n
    BY <1>4, <2>1, <2>2, <2>3 DEF Owner
  <2>5. Answering(n, r.by, r.component) \/ Announced(a, r.component)
    BY <2>1, <2>4 DEF AnswerInv, Tracking
  <2>6. Answering(n, r.by, r.component)' \/ Announced(a, r.component)'
    <3>1. CASE n = x /\ m = Context(x, r.component)
      BY <1>3, <2>1, <3>1 DEF Announced
    <3> QED BY <1>7, <1>9, <2>2, <2>5, <3>1
  <2> QED BY <2>1, <2>3, <2>6 DEF Answering, Announced
<1> QED BY <1>5, <1>6, <1>8, <1>10, <1>11

LEMMA ToSetTuples ==
  \A x, y : ToSet(<<x>>) = {x} /\ ToSet(<<x, y>>) = {x, y}
BY DEF ToSet

\* A payload does not change who owns an entry.
LEMMA PayloadKeepsOwner ==
  ASSUME NEW a \in Sharers, NEW m, StorePayload(a, m),
         entries \in [Sharers -> [Components -> Entry]]
  PROVE  \A b \in Sharers, d \in Components : Owner(b, d)' = Owner(b, d)
<1>1. CASE UNCHANGED entries
  BY <1>1 DEF Owner
<1>2. ASSUME NEW c \in Components, entries' = [entries EXCEPT ![a][c].payload = m.nick]
      PROVE  \A b \in Sharers, d \in Components : Owner(b, d)' = Owner(b, d)
  <2>1. entries' = [entries EXCEPT ![a] = [entries[a] EXCEPT ![c] =
                      [entries[a][c] EXCEPT !.payload = m.nick]]]
    BY <1>2
  <2>2. [entries[a][c] EXCEPT !.payload = m.nick].by = entries[a][c].by
    BY DEF Entry
  <2>3. \A b \in Sharers, d \in Components :
          entries'[b][d] = IF b = a /\ d = c THEN [entries[a][c] EXCEPT !.payload = m.nick]
                                             ELSE entries[b][d]
    BY <2>1
  <2> QED BY <2>2, <2>3 DEF Owner
<1> QED BY <1>1, <1>2 DEF StorePayload

\* Agent a has taken message m from its queue ...
HeardQueue(a, m) ==
  /\ m = unread[a][1] /\ unread[a] \in Seq(Msg) /\ Len(unread[a]) \in Nat \ {0}
  /\ DOMAIN unread[a] = 1..Len(unread[a])
  /\ DOMAIN unread'[a] = 1..(Len(unread[a]) - 1)
  /\ \A i \in 1..(Len(unread[a]) - 1) : unread'[a][i] = unread[a][i + 1]
  /\ ToSet(unread[a]) = ToSet(unread'[a]) \cup {m}
  /\ \A b \in Sharers \ {a} : unread'[b] = unread[b]

\* ... knows the component if it was an announcement, and answers a request if it
\* knows the component ...
HeardAnswers(a, m) ==
  /\ \A b \in Sharers, c \in Components : Owner(b, c)' = Owner(b, c)
  /\ \A n \in Sharers, c \in Components : m = Context(n, c) => Knows(a, c)
  /\ answers[a] = <<>> /\ \A b \in Sharers \ {a} : answers'[b] = answers[b]
  /\ \A q \in Sharers, c \in Components :
       m = RequestContext(q, c) /\ Knows(a, c) => Context(a, c) \in ToSet(answers'[a])
  /\ \A y \in ToSet(answers'[a]) :
       y.nick = a /\ \A c \in Components : y = Context(a, c) => Knows(a, c)

\* ... and fulfilled its requests for an announced component.
HeardRequests(a, m) ==
  \/ \E n \in Sharers, c \in Components :
       m = Context(n, c) /\ requests' = [requests EXCEPT ![a] = Fulfilled(@, c)]
  \/ (\A n \in Sharers, c \in Components : m # Context(n, c)) /\ requests' = requests

\* What the last step of hearing a message does to the queues, the owners and the answers.
LEMMA HeardEffect ==
  ASSUME AnswerInv, NEW a \in Sharers, HearPayload(a) \/ EndHearing(a)
  PROVE  \E m \in Msg : HeardQueue(a, m) /\ HeardAnswers(a, m) /\ HeardRequests(a, m)
<1>1. /\ unread[a] \in Seq(Msg) /\ unread[a] # <<>> /\ answers[a] = <<>>
      /\ unread' = [unread EXCEPT ![a] = Tail(unread[a])]
      /\ unread \in [Sharers -> Seq(Msg)] /\ answers \in [Sharers -> Seq(Msg)]
      /\ entries \in [Sharers -> [Components -> Entry]] /\ requests \in [Sharers -> Seq(Req)]
  BY DEF HearPayload, EndHearing, AnswerInv, CtxInv, CtxTypes, ReqTypes, Half
<1>2. PICK m \in Msg : m = Head(unread[a])
  BY <1>1
<1>3. /\ m = unread[a][1] /\ Len(unread[a]) \in Nat \ {0}
      /\ DOMAIN unread[a] = 1..Len(unread[a])
      /\ DOMAIN Tail(unread[a]) = 1..(Len(unread[a]) - 1)
      /\ \A i \in 1..(Len(unread[a]) - 1) : Tail(unread[a])[i] = unread[a][i + 1]
  BY <1>1, <1>2
<1>4. ToSet(unread[a]) = {m} \cup ToSet(Tail(unread[a]))
  BY <1>1, <1>2, ToSetTail
<1>5. unread'[a] = Tail(unread[a]) /\ \A b \in Sharers \ {a} : unread'[b] = unread[b]
  BY <1>1
<1>6. ToSet(unread[a]) = ToSet(unread'[a]) \cup {m}
  BY <1>4, <1>5
<1>7. m.nick \in Sharers
  BY Kinds
<1>8. HeardQueue(a, m)
  BY <1>1, <1>3, <1>5, <1>6 DEF HeardQueue
<1>9. CASE EndHearing(a) /\ m.action = "CONTEXT"
  <2>1. PICK c \in Components : m = Context(m.nick, c) /\ c = m.component
    BY <1>9, Kinds DEF SharingContext, RequestContext
  <2>2. requests' = [requests EXCEPT ![a] = Fulfilled(@, c)] /\ UNCHANGED <<entries, answers>>
    BY <1>2, <1>9, <2>1 DEF EndHearing
  <2>3. \A b \in Sharers, d \in Components : Owner(b, d)' = Owner(b, d)
    BY <2>2 DEF Owner
  <2>4. \A n \in Sharers, d \in Components : m = Context(n, d) => Knows(a, d)
    BY <1>3, <1>9 DEF EndHearing, AnswerInv, Heard
  <2>5. ToSet(answers'[a]) = {}
    BY <1>1, <2>2 DEF ToSet
  <2>6. \A q \in Sharers, d \in Components : m # RequestContext(q, d)
    BY <1>7, <2>1, Different
  <2>7. HeardAnswers(a, m)
    BY <1>1, <2>2, <2>3, <2>4, <2>5, <2>6 DEF HeardAnswers
  <2>8. HeardRequests(a, m)
    BY <1>7, <2>1, <2>2 DEF HeardRequests
  <2> QED BY <1>8, <2>7, <2>8
<1>10. CASE HearPayload(a)
  <2>1. m = SharingContext(m.nick)
    BY <1>2, <1>10, Kinds DEF HearPayload, Context, RequestContext
  <2>2. StorePayload(a, m) /\ UNCHANGED <<requests, answers>>
    BY <1>2, <1>10 DEF HearPayload
  <2>3. \A n \in Sharers, d \in Components : m # Context(n, d) /\ m # RequestContext(n, d)
    BY <1>7, <2>1, Different
  <2>4. \A b \in Sharers, d \in Components : Owner(b, d)' = Owner(b, d)
    BY <1>1, <1>7, <2>2, PayloadKeepsOwner
  <2>5. ToSet(answers'[a]) = {}
    BY <1>1, <2>2 DEF ToSet
  <2>6. HeardAnswers(a, m)
    BY <1>1, <2>2, <2>3, <2>4, <2>5 DEF HeardAnswers
  <2>7. HeardRequests(a, m)
    BY <2>2, <2>3 DEF HeardRequests
  <2> QED BY <1>8, <2>6, <2>7
<1>11. CASE EndHearing(a) /\ m.action = "REQUEST-CONTEXT"
  <2>1. PICK c \in Components : m = RequestContext(m.nick, c) /\ c = m.component
    BY <1>11, Kinds DEF Context, SharingContext
  <2>2. /\ UNCHANGED <<entries, requests>>
        /\ answers' = [answers EXCEPT ![a] =
             CASE entries[a][c] = NoEntry -> <<>>
               [] entries[a][c] # NoEntry /\ entries[a][c].payload = NoSharer
                    -> <<Context(a, c)>>
               [] OTHER -> <<Context(a, c), SharingContext(a)>>]
    BY <1>2, <1>11, <2>1 DEF EndHearing
  <2>3. \A n \in Sharers, d \in Components :
          m # Context(n, d) /\ (m = RequestContext(n, d) => n = m.nick /\ d = c)
    BY <1>7, <2>1, Different
  <2>4. \A b \in Sharers, d \in Components : Owner(b, d)' = Owner(b, d)
    BY <2>2 DEF Owner
  <2>5. \A b \in Sharers \ {a} : answers'[b] = answers[b]
    BY <1>1, <2>2
  <2>6. /\ Knows(a, c) => Context(a, c) \in ToSet(answers'[a])
        /\ \A y \in ToSet(answers'[a]) :
             Knows(a, c) /\ (y = Context(a, c) \/ y = SharingContext(a))
    <3>1. CASE entries[a][c] = NoEntry
      <4>1. ~Knows(a, c)
        BY <3>1 DEF Knows, Owner, NoEntry
      <4>2. answers'[a] = <<>>
        BY <1>1, <2>2, <3>1
      <4> QED BY <4>1, <4>2 DEF ToSet
    <3>2. CASE entries[a][c] # NoEntry
      <4>1. Knows(a, c)
        BY <1>1, <3>2 DEF AnswerInv, CtxInv, NoForeignPayload, Knows, Owner, NoEntry, Entry
      <4>2. answers'[a] = <<Context(a, c)>> \/ answers'[a] = <<Context(a, c), SharingContext(a)>>
        <5>1. PICK z : answers' = [answers EXCEPT ![a] = z]
                       /\ (z = <<Context(a, c)>> \/ z = <<Context(a, c), SharingContext(a)>>)
          BY <2>2, <3>2, Zenon
        <5> QED BY <1>1, <5>1
      <4>3. ToSet(answers'[a]) = {Context(a, c)} \/ ToSet(answers'[a]) = {Context(a, c), SharingContext(a)}
        BY <4>2, ToSetTuples
      <4> QED BY <4>1, <4>3
    <3> QED BY <3>1, <3>2
  <2>7. \A y \in ToSet(answers'[a]) :
          y.nick = a /\ \A d \in Components : y = Context(a, d) => Knows(a, d)
    <3>1. Context(a, c).nick = a /\ SharingContext(a).nick = a
      BY DEF Context, SharingContext
    <3>2. \A d \in Components : /\ Context(a, c) = Context(a, d) => d = c
                                /\ SharingContext(a) # Context(a, d)
      BY Different
    <3> QED BY <2>6, <3>1, <3>2
  <2>8. HeardAnswers(a, m)
    BY <1>1, <2>3, <2>4, <2>5, <2>6, <2>7 DEF HeardAnswers
  <2>9. HeardRequests(a, m)
    BY <2>2, <2>3 DEF HeardRequests
  <2> QED BY <1>8, <2>8, <2>9
<1> QED BY <1>2, <1>9, <1>10, <1>11 DEF EndHearing

\* Fulfilled keeps the requests, and none for the component is pending after it.
LEMMA FulfilledReqs ==
  ASSUME NEW rs \in Seq(Req), NEW c
  PROVE  /\ Fulfilled(rs, c) \in Seq(Req) /\ DOMAIN Fulfilled(rs, c) = DOMAIN rs
         /\ \A i \in DOMAIN rs :
              /\ Fulfilled(rs, c)[i].component = rs[i].component
              /\ Fulfilled(rs, c)[i].by = rs[i].by
              /\ rs[i].fulfilled => Fulfilled(rs, c)[i].fulfilled
              /\ rs[i].component = c => Fulfilled(rs, c)[i].fulfilled
              /\ rs[i].component # c => Fulfilled(rs, c)[i] = rs[i]
<1>1. DOMAIN rs = 1..Len(rs) /\ Len(rs) \in Nat /\ DOMAIN Fulfilled(rs, c) = DOMAIN rs
  BY DEF Fulfilled
<1>2. ASSUME NEW i \in DOMAIN rs
      PROVE  /\ Fulfilled(rs, c)[i] \in Req
             /\ Fulfilled(rs, c)[i].component = rs[i].component
             /\ Fulfilled(rs, c)[i].by = rs[i].by
             /\ rs[i].fulfilled => Fulfilled(rs, c)[i].fulfilled
             /\ rs[i].component = c => Fulfilled(rs, c)[i].fulfilled
             /\ rs[i].component # c => Fulfilled(rs, c)[i] = rs[i]
  <2>1. rs[i] \in Req
    OBVIOUS
  <2>2. Fulfilled(rs, c)[i] =
          IF rs[i].component = c THEN [rs[i] EXCEPT !.fulfilled = TRUE] ELSE rs[i]
    BY DEF Fulfilled
  <2> QED BY <2>1, <2>2 DEF Req
<1>3. Fulfilled(rs, c) \in [1..Len(rs) -> Req]
  <2>1. Fulfilled(rs, c) = [i \in 1..Len(rs) |-> Fulfilled(rs, c)[i]]
    BY <1>1 DEF Fulfilled
  <2> QED BY <1>1, <1>2, <2>1
<1>4. Fulfilled(rs, c) \in Seq(Req)
  BY <1>1, <1>3
<1> QED BY <1>1, <1>2, <1>4

\* Tracked adds a pending request.
LEMMA TrackedReqs ==
  ASSUME NEW rs \in Seq(Req), NEW q \in Sharers, NEW c \in Components
  PROVE  Tracked(rs, RequestContext(q, c)) \in Seq(Req)
<1>1. PICK e \in Req : e = [component |-> c, by |-> q, fulfilled |-> FALSE]
  BY DEF Req
<1>2. Tracked(rs, RequestContext(q, c)) = Append(rs, e)
  BY <1>1 DEF Tracked, RequestContext
<1> QED BY <1>2

\* Who owns the entry when a place in the queue is reached knows the component.
LEMMA BeforeKnown ==
  ASSUME AnswerInv, NEW a \in Sharers, NEW n \in Sharers, NEW c \in Components,
         NEW k \in DOMAIN unread[a],
         \/ Owner(a, c) = n
         \/ \E j \in 1..(k-1) : unread[a][j] = Context(n, c)
  PROVE  Knows(n, c)
<1>1. unread[a] \in Seq(Msg)
  BY DEF AnswerInv, CtxInv, CtxTypes
<1>2. ASSUME NEW j \in 1..(k-1), unread[a][j] = Context(n, c)
      PROVE  Context(n, c) \in ToSet(unread[a])
  <2>1. j \in DOMAIN unread[a]
    BY <1>1
  <2> QED BY <1>2, <2>1 DEF ToSet
<1> QED BY <1>2 DEF AnswerInv, Spoken

\* Agent a starts to hear a message: it stores an announcement ...
LEMMA StoredAnswered ==
  ASSUME AnswerInv, NEW a \in Sharers, NEW n \in Sharers, NEW c \in Components,
         Context(n, c) \in ToSet(unread[a]),
         \A b \in Sharers, d \in Components :
           Owner(b, d)' = IF b = a /\ d = c THEN n ELSE Owner(b, d),
         unread[a][1] = Context(n, c),
         UNCHANGED <<requests, sharing, answers, unread>>
  PROVE  ReqTypes' /\ Spoken' /\ Spread' /\ Unheard' /\ Tracking'
<1>1. Knows(n, c) /\ Announced(a, c)
  BY DEF AnswerInv, Spoken, Announced
<1>2. \A b \in Sharers, d \in Components : Knows(b, d) => Knows(b, d)'
  BY ContextConstants DEF Knows
<1>3. \A b, q \in Sharers, d \in Components : /\ Answering(b, q, d)' = Answering(b, q, d)
                                              /\ Announced(b, d)' = Announced(b, d)
  BY DEF Answering, Announced
<1>4. ReqTypes'
  BY DEF AnswerInv, ReqTypes
<1>5. Spoken'
  BY <1>1, <1>2 DEF AnswerInv, Spoken
<1>6. Spread'
  <2> SUFFICES ASSUME NEW x \in Sharers, NEW b \in Sharers, NEW d \in Components, Knows(x, d)'
               PROVE  \/ Knows(b, d)' \/ Announced(b, d)'
                      \/ \E e \in Sharers : sharing'[e] = Context(e, d)
    BY DEF Spread
  <2>1. \E y \in Sharers : Knows(y, d)
    BY <1>1 DEF Knows
  <2>2. \/ Knows(b, d) \/ Announced(b, d) \/ \E e \in Sharers : sharing[e] = Context(e, d)
    BY <2>1 DEF AnswerInv, Spread
  <2> QED BY <1>2, <1>3, <2>2
<1>7. Unheard'
  <2> SUFFICES ASSUME NEW b \in Sharers, NEW q \in Sharers, NEW d \in Components,
                      NEW k \in DOMAIN unread[b], unread[b][k] = RequestContext(q, d),
                      NEW p \in Sharers \ {b, q},
                      \/ Owner(b, d)' = p
                      \/ \E j \in 1..(k-1) : unread[b][j] = Context(p, d)
               PROVE  \/ Answering(p, q, d)
                      \/ \E j \in DOMAIN unread[b], l \in Sharers : j > k /\ unread[b][j] = Context(l, d)
    BY <1>3 DEF Unheard
  <2>1. \/ Owner(b, d) = p
        \/ \E j \in 1..(k-1) : unread[b][j] = Context(p, d)
    <3>1. CASE Owner(b, d)' = p /\ b = a /\ d = c
      <4>1. k \in Nat \ {0} /\ k # 1
        <5>1. unread[a] \in Seq(Msg)
          BY DEF AnswerInv, CtxInv, CtxTypes
        <5> QED BY <3>1, <5>1, Different
      <4>2. 1 \in 1..(k-1)
        BY <4>1
      <4> QED BY <3>1, <4>2
    <3> QED BY <3>1
  <2> QED BY <2>1 DEF AnswerInv, Unheard
<1>8. Tracking'
  <2> SUFFICES ASSUME NEW b \in Sharers, NEW p \in Sharers, NEW i \in DOMAIN requests[b],
                      NEW r \in Req, r = requests[b][i],
                      ~r.fulfilled, Owner(b, r.component)' = p, p \notin {b, r.by}
               PROVE  Answering(p, r.by, r.component)' \/ Announced(b, r.component)'
    <3>1. \A b \in Sharers : \A i \in DOMAIN requests[b] : requests[b][i] \in Req
      BY DEF AnswerInv, ReqTypes
    <3> QED BY <3>1 DEF Tracking, Answering, Announced, Owner
  <2>1. r.component \in Components /\ r.by \in Sharers
    BY DEF Req
  <2>2. CASE b = a /\ r.component = c
    BY <1>1, <1>3, <2>2
  <2>3. CASE ~(b = a /\ r.component = c)
    <3>1. Owner(b, r.component) = p
      BY <2>1, <2>3
    <3>2. Answering(p, r.by, r.component) \/ Announced(b, r.component)
      BY <3>1 DEF AnswerInv, Tracking
    <3> QED BY <1>3, <2>1, <3>2
  <2> QED BY <2>2, <2>3
<1> QED BY <1>4, <1>5, <1>6, <1>7, <1>8

\* ... or tracks a request.
LEMMA TrackedAnswered ==
  ASSUME AnswerInv, NEW a \in Sharers, NEW q \in Sharers, NEW c \in Components,
         1 \in DOMAIN unread[a], unread[a][1] = RequestContext(q, c),
         requests' = [requests EXCEPT ![a] = Tracked(@, RequestContext(q, c))],
         UNCHANGED <<entries, sharing, answers, unread>>
  PROVE  ReqTypes' /\ Spoken' /\ Spread' /\ Unheard' /\ Tracking'
<1>1. requests \in [Sharers -> Seq(Req)] /\ requests[a] \in Seq(Req)
  BY DEF AnswerInv, ReqTypes
<1>2. PICK e \in Req : e = [component |-> c, by |-> q, fulfilled |-> FALSE]
  BY DEF Req
<1>3. requests' = [requests EXCEPT ![a] = Append(requests[a], e)]
  BY <1>2 DEF Tracked, RequestContext
<1>4. requests' \in [Sharers -> Seq(Req)]
  <2>1. Append(requests[a], e) \in Seq(Req)
    BY <1>1
  <2> QED BY <1>1, <1>3, <2>1
<1>5. e.component = c /\ e.by = q
  BY <1>2
<1>6. \A b, p \in Sharers, d \in Components : /\ Answering(b, p, d)' = Answering(b, p, d)
                                              /\ Announced(b, d)' = Announced(b, d)
                                              /\ Owner(b, d)' = Owner(b, d)
  BY DEF Answering, Announced, Owner
<1>7. ReqTypes' /\ Spoken' /\ Spread' /\ Unheard'
  BY <1>4, <1>6 DEF AnswerInv, ReqTypes, Spoken, Spread, Unheard, Knows
<1>8. Tracking'
  <2> SUFFICES ASSUME NEW b \in Sharers, NEW n \in Sharers, NEW i \in DOMAIN requests'[b],
                      NEW r \in Req, r = requests'[b][i],
                      ~r.fulfilled, Owner(b, r.component)' = n, n \notin {b, r.by}
               PROVE  Answering(n, r.by, r.component)' \/ Announced(b, r.component)'
    <3>1. \A b \in Sharers : \A i \in DOMAIN requests'[b] : requests'[b][i] \in Req
      BY <1>4
    <3> QED BY <3>1 DEF Tracking, Answering, Announced, Owner
  <2>1. r.component \in Components /\ r.by \in Sharers
    BY DEF Req
  <2>2. Owner(b, r.component) = n
    BY <1>6, <2>1
  <2>3. CASE i \in DOMAIN requests[b] /\ requests[b][i] = r
    <3>1. Answering(n, r.by, r.component) \/ Announced(b, r.component)
      BY <2>2, <2>3 DEF AnswerInv, Tracking
    <3> QED BY <1>6, <2>1, <3>1
  <2>4. CASE b = a /\ r = e
    <3>1. \/ Answering(n, q, c)
          \/ \E j \in DOMAIN unread[a], p \in Sharers : j > 1 /\ unread[a][j] = Context(p, c)
      BY <1>5, <2>2, <2>4 DEF AnswerInv, Unheard
    <3>2. Answering(n, q, c) \/ Announced(a, c)
      BY <3>1 DEF Announced, ToSet
    <3> QED BY <1>5, <1>6, <2>4, <3>2
  <2>5. CASE b # a
    <3>1. requests'[b] = requests[b]
      BY <1>1, <1>3, <2>5
    <3> QED BY <2>3, <3>1
  <2>6. CASE b = a
    <3>1. requests'[a] = Append(requests[a], e)
      BY <1>1, <1>3
    <3>2. i = Len(requests[a]) + 1 \/ i \in DOMAIN requests[a]
      BY <1>1, <2>6, <3>1
    <3>3. r = IF i = Len(requests[a]) + 1 THEN e ELSE requests[a][i]
      BY <1>1, <2>6, <3>1, <3>2
    <3> QED BY <1>1, <2>3, <2>4, <2>6, <3>2, <3>3
  <2> QED BY <2>5, <2>6
<1> QED BY <1>7, <1>8

LEMMA HearAnswered ==
  ASSUME AnswerInv, NEW a \in Sharers, Hear(a)
  PROVE  ReqTypes' /\ Spoken' /\ Spread' /\ Unheard' /\ Tracking'
<1>1. /\ unread[a] \in Seq(Msg) /\ unread[a] # <<>>
      /\ entries \in [Sharers -> [Components -> Entry]]
      /\ UNCHANGED <<sharing, answers, unread>>
  BY DEF Hear, AnswerInv, CtxInv, CtxTypes
<1>2. PICK m \in Msg : m = Head(unread[a])
  BY <1>1
<1>3. m = unread[a][1] /\ 1 \in DOMAIN unread[a] /\ m \in ToSet(unread[a])
  <2>1. m = unread[a][1] /\ 1 \in DOMAIN unread[a]
    BY <1>1, <1>2
  <2> QED BY <2>1 DEF ToSet
<1>4. m.nick \in Sharers
  BY Kinds
<1>5. CASE m.action = "CONTEXT"
  <2>1. PICK c \in Components : m = Context(m.nick, c) /\ c = m.component
    BY <1>5, Kinds DEF SharingContext, RequestContext
  <2>2. m \in ContextMsg
    BY <1>5 DEF Msg, ContextMsg, PayloadMsg, RequestMsg
  <2>3. entries' = [entries EXCEPT ![a] = Stored(entries[a], m)] /\ UNCHANGED requests
    BY <1>2, <1>5 DEF Hear
  <2>4. \A b \in Sharers : entries'[b] = IF b = a THEN Stored(entries[a], m) ELSE entries[b]
    BY <1>1, <2>3
  <2>5. \A d \in Components : Stored(entries[a], m)[d] =
          IF d = m.component THEN [by |-> m.nick, payload |-> NoSharer] ELSE entries[a][d]
    <3>1. entries[a] \in [Components -> Entry]
      BY <1>1
    <3> QED BY <2>2, <3>1, StoredEntry, Zenon
  <2>6. \A b \in Sharers, d \in Components :
          Owner(b, d)' = IF b = a /\ d = c THEN m.nick ELSE Owner(b, d)
    <3>1. \A d \in Components :
            Stored(entries[a], m)[d].by = IF d = c THEN m.nick ELSE entries[a][d].by
      BY <2>1, <2>5
    <3> QED BY <2>4, <3>1 DEF Owner
  <2> QED BY <1>1, <1>3, <1>4, <2>1, <2>3, <2>6, StoredAnswered
<1>6. CASE m.action = "REQUEST-CONTEXT"
  <2>1. PICK c \in Components : m = RequestContext(m.nick, c)
    BY <1>6, Kinds DEF SharingContext, Context
  <2>2. requests' = [requests EXCEPT ![a] = Tracked(@, m)] /\ UNCHANGED entries
    BY <1>2, <1>6 DEF Hear
  <2> QED BY <1>1, <1>3, <1>4, <2>1, <2>2, TrackedAnswered
<1> QED BY <1>2, <1>5, <1>6 DEF Hear

\* Agent a has handled a message.
LEMMA HeardAnswered ==
  ASSUME AnswerInv, NEW a \in Sharers, HearPayload(a) \/ EndHearing(a)
  PROVE  ReqTypes' /\ Spoken' /\ Spread' /\ Unheard' /\ Tracking'
<1>1. PICK m \in Msg : HeardQueue(a, m) /\ HeardAnswers(a, m) /\ HeardRequests(a, m)
  BY HeardEffect
<1>2. UNCHANGED sharing
  BY DEF HearPayload, EndHearing
<1>3. m.nick \in Sharers /\ \A n \in Sharers, c \in Components : m = Context(n, c) => m.nick = n
  BY Kinds DEF Context
<1>4. \A n \in Sharers, c \in Components : m = Context(n, c) => Knows(n, c)
  <2>1. m \in ToSet(unread[a])
    BY <1>1 DEF HeardQueue
  <2> QED BY <2>1 DEF AnswerInv, Spoken
<1>5. \A b \in Sharers, c \in Components : Knows(b, c) <=> Knows(b, c)'
  BY <1>1 DEF HeardAnswers, Knows
<1>6. \A b \in Sharers : /\ ToSet(unread'[b]) \subseteq ToSet(unread[b])
                         /\ b # a => ToSet(unread'[b]) = ToSet(unread[b])
                         /\ b # a => ToSet(answers'[b]) = ToSet(answers[b])
  <2> SUFFICES ASSUME NEW b \in Sharers
               PROVE  /\ ToSet(unread'[b]) \subseteq ToSet(unread[b])
                      /\ b # a => ToSet(unread'[b]) = ToSet(unread[b])
                      /\ b # a => ToSet(answers'[b]) = ToSet(answers[b])
    OBVIOUS
  <2>1. CASE b = a
    BY <1>1, <2>1 DEF HeardQueue
  <2>2. CASE b # a
    <3>1. unread'[b] = unread[b] /\ answers'[b] = answers[b]
      BY <1>1, <2>2 DEF HeardQueue, HeardAnswers
    <3> QED BY <2>2, <3>1, Zenon
  <2> QED BY <2>1, <2>2
<1>7. ToSet(answers[a]) = {}
  BY <1>1 DEF HeardAnswers, ToSet
<1>8. \A n, q \in Sharers, c \in Components :
        Knows(n, c) /\ Answering(n, q, c) => Answering(n, q, c)'
  <2> SUFFICES ASSUME NEW n \in Sharers, NEW q \in Sharers, NEW c \in Components,
                      Knows(n, c), Answering(n, q, c)
               PROVE  Answering(n, q, c)'
    OBVIOUS
  <2>1. CASE n # a
    BY <1>6, <2>1 DEF Answering
  <2>2. CASE n = a
    <3>1. RequestContext(q, c) \in ToSet(unread[a])
      BY <1>7, <2>2 DEF Answering
    <3>2. CASE m = RequestContext(q, c)
      <4>1. Context(a, c) \in ToSet(answers'[a])
        BY <1>1, <2>2, <3>2 DEF HeardAnswers
      <4> QED BY <2>2, <4>1 DEF Answering
    <3>3. CASE m # RequestContext(q, c)
      <4>1. RequestContext(q, c) \in ToSet(unread'[a])
        BY <1>1, <3>1, <3>3 DEF HeardQueue
      <4> QED BY <2>2, <4>1 DEF Answering
    <3> QED BY <3>2, <3>3
  <2> QED BY <2>1, <2>2
<1>9. \A b \in Sharers, c \in Components :
        Announced(b, c) => \/ Announced(b, c)'
                           \/ b = a /\ \E n \in Sharers : m = Context(n, c)
  <2> SUFFICES ASSUME NEW b \in Sharers, NEW c \in Components, Announced(b, c)
               PROVE  \/ Announced(b, c)'
                      \/ b = a /\ \E n \in Sharers : m = Context(n, c)
    OBVIOUS
  <2>1. PICK n \in Sharers : Context(n, c) \in ToSet(unread[b])
    BY DEF Announced
  <2>2. CASE b = a
    BY <1>1, <2>1, <2>2 DEF HeardQueue, Announced
  <2>3. CASE b # a
    BY <1>6, <2>1, <2>3 DEF Announced
  <2> QED BY <2>2, <2>3
<1>10. requests' \in [Sharers -> Seq(Req)] /\ \A b \in Sharers \ {a} : requests'[b] = requests[b]
  <2>1. requests \in [Sharers -> Seq(Req)] /\ requests[a] \in Seq(Req)
    BY DEF AnswerInv, ReqTypes
  <2>2. CASE \E n \in Sharers, c \in Components :
               m = Context(n, c) /\ requests' = [requests EXCEPT ![a] = Fulfilled(@, c)]
    BY <2>1, <2>2, FulfilledReqs
  <2>3. CASE requests' = requests
    BY <2>1, <2>3
  <2> QED BY <1>1, <2>2, <2>3 DEF HeardRequests
<1>11. ReqTypes'
  <2>1. \A b \in Sharers : \A y \in ToSet(answers'[b]) : y.nick = b
    <3> SUFFICES ASSUME NEW b \in Sharers, NEW y \in ToSet(answers'[b]) PROVE y.nick = b
      OBVIOUS
    <3>1. CASE b = a
      BY <1>1, <3>1 DEF HeardAnswers
    <3>2. CASE b # a
      BY <1>6, <3>2 DEF AnswerInv, ReqTypes
    <3> QED BY <3>1, <3>2
  <2> QED BY <1>2, <1>10, <2>1 DEF AnswerInv, ReqTypes
<1>12. Spoken'
  <2> SUFFICES ASSUME NEW n \in Sharers, NEW b \in Sharers, NEW c \in Components,
                      \/ Context(n, c) \in ToSet(unread'[b]) \cup ToSet(answers'[b])
                      \/ sharing'[b] = Context(n, c)
                      \/ Owner(b, c)' = n
               PROVE  Knows(n, c)'
    BY DEF Spoken
  <2>1. CASE Context(n, c) \in ToSet(unread'[b]) \/ sharing'[b] = Context(n, c)
    BY <1>2, <1>5, <1>6, <2>1 DEF AnswerInv, Spoken
  <2>2. CASE Owner(b, c)' = n
    <3>1. Owner(b, c) = n
      BY <1>1, <2>2 DEF HeardAnswers
    <3> QED BY <1>5, <3>1 DEF AnswerInv, Spoken
  <2>3. CASE Context(n, c) \in ToSet(answers'[b])
    <3>1. CASE b = a
      <4>1. Context(n, c).nick = a /\ Context(n, c).nick = n
        BY <1>1, <2>3, <3>1 DEF HeardAnswers, Context
      <4>2. Knows(a, c)
        BY <1>1, <2>3, <3>1, <4>1 DEF HeardAnswers
      <4> QED BY <1>5, <4>1, <4>2
    <3>2. CASE b # a
      BY <1>5, <1>6, <2>3, <3>2 DEF AnswerInv, Spoken
    <3> QED BY <3>1, <3>2
  <2> QED BY <2>1, <2>2, <2>3
<1>13. Spread'
  <2> SUFFICES ASSUME NEW x \in Sharers, NEW b \in Sharers, NEW c \in Components, Knows(x, c)'
               PROVE  \/ Knows(b, c)' \/ Announced(b, c)'
                      \/ \E d \in Sharers : sharing'[d] = Context(d, c)
    BY DEF Spread
  <2>1. Knows(x, c)
    BY <1>5
  <2>2. \/ Knows(b, c) \/ Announced(b, c) \/ \E d \in Sharers : sharing[d] = Context(d, c)
    BY <2>1 DEF AnswerInv, Spread
  <2>3. CASE b = a /\ \E n \in Sharers : m = Context(n, c)
    BY <1>1, <1>5, <2>3 DEF HeardAnswers
  <2> QED BY <1>2, <1>5, <1>9, <2>2, <2>3
<1>14. Unheard'
  <2> SUFFICES ASSUME NEW b \in Sharers, NEW q \in Sharers, NEW c \in Components,
                      NEW k \in DOMAIN unread'[b], unread'[b][k] = RequestContext(q, c),
                      NEW n \in Sharers \ {b, q},
                      \/ Owner(b, c)' = n
                      \/ \E j \in 1..(k-1) : unread'[b][j] = Context(n, c)
               PROVE  \/ Answering(n, q, c)'
                      \/ \E j \in DOMAIN unread'[b], p \in Sharers : j > k /\ unread'[b][j] = Context(p, c)
    BY DEF Unheard
  <2>1. CASE b # a
    <3>1. unread'[b] = unread[b] /\ Owner(b, c)' = Owner(b, c)
      BY <1>1, <2>1 DEF HeardQueue, HeardAnswers
    <3>2. \/ Owner(b, c) = n
          \/ \E j \in 1..(k-1) : unread[b][j] = Context(n, c)
      BY <3>1, Zenon
    <3>3. k \in DOMAIN unread[b] /\ unread[b][k] = RequestContext(q, c)
      BY <3>1, Zenon
    <3>4. \/ Answering(n, q, c)
          \/ \E j \in DOMAIN unread[b], p \in Sharers : j > k /\ unread[b][j] = Context(p, c)
      BY <3>2, <3>3 DEF AnswerInv, Unheard
    <3>5. Knows(n, c)
      BY <3>2, <3>3, BeforeKnown
    <3> QED BY <1>8, <3>1, <3>4, <3>5
  <2>2. CASE b = a
    <3>1. /\ DOMAIN unread[a] = 1..Len(unread[a]) /\ Len(unread[a]) \in Nat \ {0}
          /\ DOMAIN unread'[a] = 1..(Len(unread[a]) - 1)
          /\ \A i \in 1..(Len(unread[a]) - 1) : unread'[a][i] = unread[a][i + 1]
          /\ m = unread[a][1]
      BY <1>1 DEF HeardQueue
    <3>2. k + 1 \in DOMAIN unread[a] /\ unread[a][k + 1] = RequestContext(q, c)
      BY <2>2, <3>1
    <3>3. \/ Owner(a, c) = n
          \/ \E j \in 1..((k + 1) - 1) : unread[a][j] = Context(n, c)
      <4>1. CASE Owner(b, c)' = n
        BY <1>1, <2>2, <4>1 DEF HeardAnswers
      <4>2. ASSUME NEW j \in 1..(k-1), unread'[b][j] = Context(n, c)
            PROVE  \E i \in 1..((k + 1) - 1) : unread[a][i] = Context(n, c)
        <5>1. k \in 1..(Len(unread[a]) - 1)
          BY <2>2, <3>1
        <5>2. j \in 1..(Len(unread[a]) - 1) /\ j + 1 \in 1..((k + 1) - 1)
          BY <3>1, <5>1
        <5>3. unread[a][j + 1] = Context(n, c)
          BY <2>2, <3>1, <4>2, <5>2
        <5> QED BY <5>2, <5>3
      <4> QED BY <4>1, <4>2
    <3>4. \/ Answering(n, q, c)
          \/ \E j \in DOMAIN unread[a], p \in Sharers : j > k + 1 /\ unread[a][j] = Context(p, c)
      BY <2>2, <3>2, <3>3 DEF AnswerInv, Unheard
    <3>5. Knows(n, c)
      BY <3>2, <3>3, BeforeKnown
    <3>6. ASSUME NEW j \in DOMAIN unread[a], NEW p \in Sharers, j > k + 1, unread[a][j] = Context(p, c)
          PROVE  \E i \in DOMAIN unread'[b], l \in Sharers : i > k /\ unread'[b][i] = Context(l, c)
      <4>1. j - 1 \in DOMAIN unread'[a] /\ j - 1 > k /\ (j - 1) + 1 = j
        BY <2>2, <3>1, <3>6
      <4>2. unread'[a][j - 1] = Context(p, c)
        BY <3>1, <3>6, <4>1
      <4> QED BY <2>2, <4>1, <4>2
    <3> QED BY <1>8, <3>4, <3>5, <3>6
  <2> QED BY <2>1, <2>2
<1>15. Tracking'
  <2> SUFFICES ASSUME NEW b \in Sharers, NEW n \in Sharers, NEW i \in DOMAIN requests'[b],
                      NEW r \in Req, r = requests'[b][i],
                      ~r.fulfilled, Owner(b, r.component)' = n, n \notin {b, r.by}
               PROVE  Answering(n, r.by, r.component)' \/ Announced(b, r.component)'
    <3>1. \A b \in Sharers : \A i \in DOMAIN requests'[b] : requests'[b][i] \in Req
      BY <1>10
    <3> QED BY <3>1 DEF Tracking, Answering, Announced, Owner
  <2>1. r.component \in Components /\ r.by \in Sharers
    BY DEF Req
  <2>2. Owner(b, r.component) = n => Knows(n, r.component)
    BY <2>1 DEF AnswerInv, Spoken
  <2>3. ASSUME i \in DOMAIN requests[b], requests[b][i] = r,
               ~(b = a /\ \E p \in Sharers : m = Context(p, r.component))
        PROVE  Answering(n, r.by, r.component)' \/ Announced(b, r.component)'
    <3>1. Owner(b, r.component) = n
      BY <1>1, <2>1, <2>3 DEF HeardAnswers
    <3>2. Answering(n, r.by, r.component) \/ Announced(b, r.component)
      BY <2>3, <3>1 DEF AnswerInv, Tracking
    <3> QED BY <1>8, <1>9, <2>1, <2>2, <2>3, <3>1, <3>2
  <2>4. CASE b # a
    BY <1>10, <2>3, <2>4
  <2>5. CASE b = a
    <3>1. requests \in [Sharers -> Seq(Req)] /\ requests[a] \in Seq(Req)
      BY DEF AnswerInv, ReqTypes
    <3>2. ASSUME NEW p \in Sharers, NEW c \in Components, m = Context(p, c),
                 requests' = [requests EXCEPT ![a] = Fulfilled(@, c)]
          PROVE  Answering(n, r.by, r.component)' \/ Announced(b, r.component)'
      <4>1. requests'[a] = Fulfilled(requests[a], c)
        BY <3>1, <3>2
      <4>2. i \in DOMAIN requests[a] /\ r.component # c /\ requests[a][i] = r
        BY <2>5, <3>1, <4>1, FulfilledReqs
      <4>3. ~\E l \in Sharers : m = Context(l, r.component)
        BY <2>1, <3>2, <4>2, Different
      <4> QED BY <2>3, <2>5, <4>2, <4>3
    <3>3. ASSUME \A p \in Sharers, c \in Components : m # Context(p, c), requests' = requests
          PROVE  Answering(n, r.by, r.component)' \/ Announced(b, r.component)'
      BY <2>1, <2>3, <2>5, <3>3
    <3> QED BY <1>1, <3>2, <3>3 DEF HeardRequests
  <2> QED BY <2>4, <2>5
<1> QED BY <1>11, <1>12, <1>13, <1>14, <1>15

LEMMA AnswerStart == CtxInit => AnswerInv
<1> SUFFICES ASSUME CtxInit PROVE AnswerInv
  OBVIOUS
<1>1. CtxInv
  BY CtxStart
<1>2. \A a \in Sharers : /\ unread[a] = <<>> /\ answers[a] = <<>> /\ requests[a] = <<>>
                         /\ sharing[a] = NoMessage
                         /\ \A c \in Components : Owner(a, c) = NoSharer
  BY DEF CtxInit, Owner, NoEntry
<1>3. \A a \in Sharers : ToSet(unread[a]) = {} /\ ToSet(answers[a]) = {}
                         /\ DOMAIN unread[a] = {} /\ DOMAIN requests[a] = {}
  BY <1>2 DEF ToSet
<1>4. ReqTypes
  BY <1>2, <1>3 DEF CtxInit, ReqTypes
<1>5. Spoken
  BY <1>2, <1>3, Different, ContextConstants DEF Spoken
<1>6. Spread
  BY <1>2 DEF Spread, Knows
<1>7. Unheard /\ Tracking /\ Heard
  BY <1>3 DEF CtxInit, Unheard, Tracking, Heard
<1> QED BY <1>1, <1>4, <1>5, <1>6, <1>7 DEF AnswerInv

\* Who stores an announcement knows the component, and what it knew before.
LEMMA StoredKnows ==
  ASSUME CtxTypes, NEW a \in Sharers, NEW m \in ContextMsg,
         entries' = [entries EXCEPT ![a] = Stored(entries[a], m)]
  PROVE  /\ \A b \in Sharers, d \in Components : Knows(b, d) => Knows(b, d)'
         /\ Knows(a, m.component)'
<1>1. m.nick \in Sharers /\ m.component \in Components /\ m.nick # NoSharer
  BY ContextConstants DEF ContextMsg
<1>2. \A b \in Sharers : entries'[b] = IF b = a THEN Stored(entries[a], m) ELSE entries[b]
  BY DEF CtxTypes
<1>3. \A d \in Components : Stored(entries[a], m)[d] =
        IF d = m.component THEN [by |-> m.nick, payload |-> NoSharer] ELSE entries[a][d]
  <2>1. entries[a] \in [Components -> Entry]
    BY DEF CtxTypes
  <2> QED BY <2>1, StoredEntry, Zenon
<1> QED BY <1>1, <1>2, <1>3 DEF Knows, Owner

\* What an agent that has half handled an announcement knows it keeps knowing.
LEMMA HeardStep == AnswerInv /\ [CtxNext]_ctxVars => Heard'
<1> SUFFICES ASSUME AnswerInv, [CtxNext]_ctxVars PROVE Heard'
  OBVIOUS
<1>1. /\ CtxTypes /\ Heard /\ hearing \subseteq Sharers
      /\ \A a \in hearing : /\ unread[a] # <<>> /\ answers[a] = <<>>
                            /\ unread[a][1].action # "SHARING-CONTEXT"
  BY DEF AnswerInv, CtxInv, Half
<1>2. ASSUME hearing' \subseteq hearing, \A b \in hearing' : unread'[b][1] = unread[b][1],
             \A b \in Sharers, c \in Components : Knows(b, c) => Knows(b, c)'
      PROVE  Heard'
  BY <1>1, <1>2 DEF Heard
<1>3. ASSUME NEW a \in Sharers, NEW c \in Components, Share(a, c) PROVE Heard'
  <2>1. entries' = [entries EXCEPT ![a] = Stored(entries[a], Context(a, c))]
        /\ UNCHANGED <<hearing, unread>>
    BY <1>3 DEF Share
  <2>2. Context(a, c) \in ContextMsg /\ Context(a, c).nick = a /\ a # NoSharer
    BY ContextConstants DEF Context, ContextMsg
  <2>3. \A b \in Sharers, d \in Components : Knows(b, d) => Knows(b, d)'
    BY <1>1, <2>1, <2>2, StoredKnows
  <2> QED BY <1>2, <2>1, <2>3
<1>4. ASSUME NEW a \in Sharers, Hear(a) PROVE Heard'
  <2>1. /\ unread[a] # <<>> /\ unread[a] \in Seq(Msg) /\ Head(unread[a]) = unread[a][1]
        /\ hearing' = hearing \cup {a} /\ UNCHANGED unread
    BY <1>1, <1>4 DEF Hear, CtxTypes
  <2>2. PICK m \in Msg : m = unread[a][1] /\ m = Head(unread[a])
    BY <2>1
  <2>3. CASE m.action = "CONTEXT"
    <3>1. m \in ContextMsg
      BY <2>3 DEF Msg, ContextMsg, PayloadMsg, RequestMsg
    <3>2. entries' = [entries EXCEPT ![a] = Stored(entries[a], m)]
      BY <1>4, <2>2, <2>3 DEF Hear
    <3>3. /\ \A b \in Sharers, d \in Components : Knows(b, d) => Knows(b, d)'
          /\ Knows(a, m.component)'
      BY <1>1, <3>1, <3>2, StoredKnows
    <3>4. \A n \in Sharers, d \in Components : m = Context(n, d) => d = m.component
      BY DEF Context
    <3> QED BY <1>1, <2>1, <2>2, <3>3, <3>4 DEF Heard
  <2>4. CASE m.action # "CONTEXT"
    <3>1. \A b \in Sharers, d \in Components : Knows(b, d)' = Knows(b, d)
      BY <1>4, <2>2, <2>4 DEF Hear, Knows, Owner
    <3>2. \A n \in Sharers, d \in Components : m # Context(n, d)
      BY <2>4 DEF Context
    <3> QED BY <1>1, <2>1, <2>2, <3>1, <3>2 DEF Heard
  <2> QED BY <2>3, <2>4
<1>5. ASSUME NEW a \in Sharers, NEW m \in Msg, Deliver(a, m), UNCHANGED <<hearing, entries>>
      PROVE  Heard'
  <2>1. \A b \in hearing : unread'[b][1] = unread[b][1]
    BY <1>1, <1>5, DeliverKeepsHead
  <2>2. \A b \in Sharers, d \in Components : Knows(b, d)' = Knows(b, d)
    BY <1>5 DEF Knows, Owner
  <2> QED BY <1>2, <1>5, <2>1, <2>2
<1>6. ASSUME NEW a \in Sharers, Sent(a) PROVE Heard'
  <2>1. sharing[a] \in Msg
    BY <1>1, <1>6 DEF Sent, CtxTypes
  <2> QED BY <1>5, <1>6, <2>1 DEF Sent
<1>7. ASSUME NEW a \in Sharers, AnswerRequest(a) PROVE Heard'
  <2>1. Head(answers[a]) \in Msg
    BY <1>1, <1>7 DEF AnswerRequest, CtxTypes
  <2> QED BY <1>5, <1>7, <2>1 DEF AnswerRequest
<1>8. ASSUME NEW a \in Sharers, HearPayload(a) \/ EndHearing(a) PROVE Heard'
  <2>1. \A b \in Sharers, d \in Components : Knows(b, d)' = Knows(b, d)
    <3>1. CASE EndHearing(a)
      BY <3>1 DEF EndHearing, Knows, Owner
    <3>2. CASE HearPayload(a)
      BY <1>1, <3>2, PayloadKeepsOwner DEF HearPayload, CtxTypes, Knows
    <3> QED BY <1>8, <3>1, <3>2
  <2>2. hearing' \subseteq hearing /\ a \notin hearing'
    <3>1. CASE EndHearing(a)
      BY <3>1 DEF EndHearing
    <3>2. CASE HearPayload(a)
      <4>1. unread[a] \in Seq(Msg) /\ unread[a] # <<>> /\ Head(unread[a]).action = "SHARING-CONTEXT"
        BY <1>1, <3>2 DEF HearPayload, CtxTypes
      <4> QED BY <1>1, <3>2, <4>1 DEF HearPayload
    <3> QED BY <1>8, <3>1, <3>2
  <2>3. \A b \in Sharers \ {a} : unread'[b] = unread[b]
    BY <1>1, <1>8 DEF HearPayload, EndHearing, CtxTypes
  <2> QED BY <1>1, <1>2, <2>1, <2>2, <2>3
<1>9. ASSUME NEW a \in Sharers, SharePayload(a) PROVE Heard'
  <2>1. \A b \in Sharers, d \in Components : Knows(b, d)' = Knows(b, d)
    BY <1>1, <1>9, PayloadKeepsOwner DEF SharePayload, CtxTypes, Knows
  <2>2. UNCHANGED <<hearing, unread>>
    BY <1>9 DEF SharePayload
  <2> QED BY <1>2, <2>1, <2>2
<1>10. CASE UNCHANGED <<hearing, entries, unread>>
  BY <1>10 DEF AnswerInv, Heard, Knows, Owner
<1>11. ASSUME NEW a \in Sharers, NEW c \in Components, Request(a, c) PROVE Heard'
  BY <1>10, <1>11 DEF Request
<1>12. ASSUME NEW a \in Sharers, FulfillRequest(a) PROVE Heard'
  BY <1>10, <1>12 DEF FulfillRequest
<1> QED BY <1>3, <1>4, <1>6, <1>7, <1>8, <1>9, <1>10, <1>11, <1>12 DEF CtxNext, ctxVars

LEMMA AnswerStep == AnswerInv /\ [CtxNext]_ctxVars => AnswerInv'
<1> SUFFICES ASSUME AnswerInv, [CtxNext]_ctxVars PROVE AnswerInv'
  OBVIOUS
<1> DEFINE Goal == ReqTypes' /\ Spoken' /\ Spread' /\ Unheard' /\ Tracking'
<1>1. CtxInv'
  BY CtxStep DEF AnswerInv
<1>2. /\ entries \in [Sharers -> [Components -> Entry]]
      /\ sharing \in [Sharers -> Msg \cup {NoMessage}]
      /\ answers \in [Sharers -> Seq(Msg)]
      /\ requests \in [Sharers -> Seq(Req)]
      /\ \A a \in Sharers : \A i \in DOMAIN requests[a] : requests[a][i] \in Req
      /\ \A a \in Sharers : sharing[a] = NoMessage \/ sharing[a].nick = a
  BY DEF AnswerInv, CtxInv, CtxTypes, ReqTypes
<1>3. ASSUME NEW a \in Sharers, NEW c \in Components, Share(a, c) PROVE Goal
  BY <1>3, ShareAnswered
<1>4. ASSUME NEW a \in Sharers, NEW m \in Msg, m.nick = a, sharing[a] = NoMessage,
             \A n \in Sharers, c \in Components : m # Context(n, c),
             sharing' = [sharing EXCEPT ![a] = m],
             \A b \in Sharers, c \in Components : Owner(b, c)' = Owner(b, c),
             UNCHANGED <<requests, answers, unread>>
      PROVE  Goal
  <2>1. \A b \in Sharers : sharing'[b] = IF b = a THEN m ELSE sharing[b]
    BY <1>2, <1>4
  <2>2. \A b, n \in Sharers, c \in Components :
          sharing'[b] = Context(n, c) <=> sharing[b] = Context(n, c)
    BY <1>4, <2>1, Different
  <2>3. \A b \in Sharers : sharing'[b] = NoMessage \/ sharing'[b].nick = b
    BY <1>2, <1>4, <2>1
  <2>4. requests' \in [Sharers -> Seq(Req)]
    BY <1>2, <1>4
  <2> QED BY <1>2, <1>4, <2>2, <2>3, <2>4, NothingNew
<1>5. ASSUME NEW a \in Sharers, NEW c \in Components, Request(a, c) PROVE Goal
  <2>1. RequestContext(a, c) \in Msg /\ RequestContext(a, c).nick = a
    BY Constructors DEF RequestContext
  <2>2. \A n \in Sharers, d \in Components : RequestContext(a, c) # Context(n, d)
    BY Different
  <2>3. \A b \in Sharers, d \in Components : Owner(b, d)' = Owner(b, d)
    BY <1>5 DEF Request, Owner
  <2>4. /\ sharing[a] = NoMessage /\ sharing' = [sharing EXCEPT ![a] = RequestContext(a, c)]
        /\ UNCHANGED <<requests, answers, unread>>
    BY <1>5 DEF Request
  <2> QED BY <1>4, <2>1, <2>2, <2>3, <2>4
<1>6. ASSUME NEW a \in Sharers, SharePayload(a) PROVE Goal
  <2>1. SharingContext(a) \in Msg /\ SharingContext(a).nick = a
    BY Constructors DEF SharingContext
  <2>2. \A n \in Sharers, d \in Components : SharingContext(a) # Context(n, d)
    BY Different
  <2>3. \A b \in Sharers, d \in Components : Owner(b, d)' = Owner(b, d)
    BY <1>2, <1>6, <2>1, PayloadKeepsOwner DEF SharePayload
  <2>4. /\ sharing[a] = NoMessage /\ sharing' = [sharing EXCEPT ![a] = SharingContext(a)]
        /\ UNCHANGED <<requests, answers, unread>>
    BY <1>6 DEF SharePayload
  <2> QED BY <1>4, <2>1, <2>2, <2>3, <2>4
<1>7. ASSUME NEW a \in Sharers, FulfillRequest(a) PROVE Goal
  <2>1. PICK d : d = sharing[a].component
    OBVIOUS
  <2>2. /\ requests' = [requests EXCEPT ![a] = Fulfilled(requests[a], d)]
        /\ UNCHANGED <<entries, sharing, answers, unread>>
    BY <1>7, <2>1 DEF FulfillRequest
  <2>3. requests[a] \in Seq(Req)
    BY <1>2
  <2>4. PICK rs \in Seq(Req) : rs = Fulfilled(requests[a], d)
    BY <2>3, FulfilledReqs
  <2>5. requests' = [requests EXCEPT ![a] = rs]
    BY <2>2, <2>4
  <2>6. requests' \in [Sharers -> Seq(Req)]
    BY <1>2, <2>5
  <2>7. /\ DOMAIN rs = DOMAIN requests[a]
        /\ \A i \in DOMAIN rs : /\ rs[i].component = requests[a][i].component
                                /\ rs[i].by = requests[a][i].by
                                /\ requests[a][i].fulfilled => rs[i].fulfilled
    BY <2>3, <2>4, FulfilledReqs
  <2>8. \A b \in Sharers : \A i \in DOMAIN requests'[b] :
          /\ i \in DOMAIN requests[b] /\ requests[b][i] \in Req
          /\ requests'[b][i].component = requests[b][i].component
          /\ requests'[b][i].by = requests[b][i].by
          /\ requests[b][i].fulfilled => requests'[b][i].fulfilled
    <3>1. \A b \in Sharers : requests'[b] = IF b = a THEN rs ELSE requests[b]
      BY <1>2, <2>5
    <3> QED BY <1>2, <2>7, <3>1
  <2>9. /\ \A b \in Sharers, c \in Components : Owner(b, c)' = Owner(b, c)
        /\ \A b, n \in Sharers, c \in Components :
             sharing'[b] = Context(n, c) <=> sharing[b] = Context(n, c)
        /\ \A b \in Sharers : sharing'[b] = NoMessage \/ sharing'[b].nick = b
    BY <1>2, <2>2 DEF Owner
  <2> QED BY <2>2, <2>6, <2>8, <2>9, NothingNew
<1>8. ASSUME NEW a \in Sharers, Sent(a) PROVE Goal
  <2>1. PICK m \in Msg : m = sharing[a] /\ m.nick = a
    BY <1>2, <1>8 DEF Sent
  <2>2. Deliver(a, m) /\ UNCHANGED <<entries, requests, answers>>
        /\ sharing' = [sharing EXCEPT ![a] = NoMessage]
    BY <1>8, <2>1 DEF Sent
  <2>3. \A c \in Components : m = Context(a, c) => Knows(a, c)
    BY <2>1 DEF AnswerInv, Spoken
  <2>4. sharing'[a] = NoMessage /\ \A b \in Sharers \ {a} : sharing'[b] = sharing[b]
    BY <1>2, <2>2
  <2>5. /\ \A b \in Sharers \ {a} : answers'[b] = answers[b]
        /\ ToSet(answers'[a]) \subseteq ToSet(answers[a])
        /\ ToSet(answers[a]) \subseteq ToSet(answers'[a]) \cup {m}
    BY <2>2
  <2> QED BY <2>1, <2>2, <2>3, <2>4, <2>5, DeliverAnswered
<1>9. ASSUME NEW a \in Sharers, AnswerRequest(a) PROVE Goal
  <2>1. answers[a] \in Seq(Msg) /\ answers[a] # <<>>
    BY <1>2, <1>9 DEF AnswerRequest
  <2>2. /\ ToSet(answers[a]) = {Head(answers[a])} \cup ToSet(Tail(answers[a]))
        /\ Head(answers[a]) \in Msg
    BY <2>1, ToSetTail
  <2>3. PICK m \in Msg : m = Head(answers[a])
    BY <2>2
  <2>4. m \in ToSet(answers[a]) /\ m.nick = a
    BY <2>2, <2>3 DEF AnswerInv, ReqTypes
  <2>5. Deliver(a, m) /\ UNCHANGED <<entries, requests, sharing>>
        /\ answers' = [answers EXCEPT ![a] = Tail(answers[a])]
    BY <1>9, <2>3 DEF AnswerRequest
  <2>6. \A c \in Components : m = Context(a, c) => Knows(a, c)
    BY <2>4 DEF AnswerInv, Spoken
  <2>7. answers'[a] = Tail(answers[a]) /\ \A b \in Sharers \ {a} : answers'[b] = answers[b]
    BY <1>2, <2>5
  <2>8. /\ ToSet(answers'[a]) \subseteq ToSet(answers[a])
        /\ ToSet(answers[a]) \subseteq ToSet(answers'[a]) \cup {m}
    BY <2>2, <2>3, <2>7
  <2>9. sharing'[a] = sharing[a] /\ \A b \in Sharers \ {a} : sharing'[b] = sharing[b]
    BY <2>5
  <2> QED BY <2>4, <2>5, <2>6, <2>7, <2>8, <2>9, DeliverAnswered
<1>10. ASSUME NEW a \in Sharers, Hear(a) PROVE Goal
  BY <1>10, HearAnswered
<1>11. ASSUME NEW a \in Sharers, HearPayload(a) \/ EndHearing(a) PROVE Goal
  BY <1>11, HeardAnswered
<1>12. CASE UNCHANGED ctxVars
  <2>1. UNCHANGED <<entries, requests, sharing, answers, unread>>
    BY <1>12 DEF ctxVars
  <2>2. Goal
    BY <2>1 DEF AnswerInv, ReqTypes, Spoken, Spread, Unheard, Tracking, Knows, Owner,
                Announced, Answering
  <2>3. Heard'
    BY HeardStep
  <2> QED BY <1>1, <2>2, <2>3 DEF AnswerInv
<1>13. ASSUME Goal PROVE AnswerInv'
  <2>1. Heard'
    BY HeardStep
  <2> QED BY <1>1, <1>13, <2>1 DEF AnswerInv
<1> HIDE DEF Goal
<1> QED BY <1>3, <1>5, <1>6, <1>7, <1>8, <1>9, <1>10, <1>11, <1>12, <1>13 DEF CtxNext

\* PendingMeansUnanswered, for any agents, components and number of messages: when
\* everything is read, the requester knows what anybody knows, and a request is
\* pending only where the component is the agent's own, the requester's, or
\* unknown (context_sharing.go TrackRequest, FulfillRequest, HandleContextRequest).
THEOREM RequestsAreAnswered == CtxSpec => []PendingMeansUnanswered
<1>1. AnswerInv => PendingMeansUnanswered
  <2> SUFFICES ASSUME AnswerInv,
                      \A a \in Sharers : /\ unread[a] = <<>> /\ answers[a] = <<>>
                                         /\ sharing[a] = NoMessage,
                      NEW a \in Sharers, NEW i \in DOMAIN requests[a],
                      NEW r \in Req, r = requests[a][i]
               PROVE  /\ \A b \in Sharers : entries[b][r.component] # NoEntry
                                            => entries[r.by][r.component] # NoEntry
                      /\ ~r.fulfilled => entries[a][r.component].by \in {NoSharer, a, r.by}
    <3>1. AnswerInv => \A a \in Sharers : \A i \in DOMAIN requests[a] :
                         requests[a][i] \in Req /\ requests[a][i].by \in Sharers
      <4>1. ASSUME NEW q \in Req PROVE q.by \in Sharers
        BY DEF Req
      <4>2. AnswerInv => requests \in [Sharers -> Seq(Req)]
        BY DEF AnswerInv, ReqTypes
      <4> QED BY <4>1, <4>2
    <3> QED BY <3>1 DEF PendingMeansUnanswered
  <2>1. r.component \in Components /\ r.by \in Sharers
    BY DEF Req
  <2>2. \A b \in Sharers : ToSet(unread[b]) = {} /\ ToSet(answers[b]) = {}
    BY DEF ToSet
  <2>3. \A b \in Sharers, c \in Components : Knows(b, c) <=> entries[b][c] # NoEntry
    <3>1. \A b \in Sharers, c \in Components :
            entries[b][c] \in Entry /\ entries[b][c].payload \in {NoSharer, entries[b][c].by}
      BY DEF AnswerInv, CtxInv, CtxTypes, NoForeignPayload
    <3> QED BY <3>1 DEF Knows, Owner, NoEntry, Entry
  <2>4. \A b \in Sharers : Knows(b, r.component) => Knows(r.by, r.component)
    BY <2>1, <2>2, Different DEF AnswerInv, Spread, Announced
  <2>5. ASSUME ~r.fulfilled PROVE entries[a][r.component].by \in {NoSharer, a, r.by}
    <3>1. ~Answering(Owner(a, r.component), r.by, r.component) \/ Owner(a, r.component) \notin Sharers
      BY <2>2 DEF Answering
    <3>2. ~Announced(a, r.component)
      BY <2>2 DEF Announced
    <3>3. Owner(a, r.component) \in Sharers \cup {NoSharer}
      BY <2>1 DEF AnswerInv, CtxInv, CtxTypes, Entry, Owner
    <3>4. Owner(a, r.component) \in {NoSharer, a, r.by}
      BY <2>5, <3>1, <3>2, <3>3 DEF AnswerInv, Tracking
    <3> QED BY <3>4 DEF Owner
  <2> QED BY <2>1, <2>3, <2>4, <2>5
<1> QED BY <1>1, AnswerStart, AnswerStep, PTL DEF CtxSpec

-----------------------------------------------------------------------------
(***************************************************************************)
(* The manager's events.  Broadcast never meets a closed channel: whoever  *)
(* is still to be visited is registered, because its broadcast holds the   *)
(* read lock, and Unregister waits for the write lock; and a channel that  *)
(* is closed is not registered again.                                      *)
(***************************************************************************)
LockInv ==
  /\ readers \in [Actors -> SUBSET Subscribers]
  /\ clients \subseteq Subscribers
  /\ clients \cap closed = {}
  /\ \A g \in Actors : readers[g] \subseteq clients
  /\ \A g \in Actors : readers[g] # {} => g \in casting

LEMMA LockStep == LockInv /\ [HubNext]_hubVars => LockInv'
<1> SUFFICES ASSUME LockInv, [HubNext]_hubVars PROVE LockInv'
  OBVIOUS
<1> USE DEF LockInv
<1>1. CASE ReceiveMessage \/ HandleRequest
  BY <1>1 DEF ReceiveMessage, HandleRequest, Begin
<1>2. ASSUME NEW g \in Actors, ChangeStore(g) PROVE LockInv'
  BY <1>2 DEF ChangeStore
<1>3. ASSUME NEW g \in Actors, BeginBroadcast(g) PROVE LockInv'
  BY <1>3 DEF BeginBroadcast
<1>4. ASSUME NEW g \in Actors, EndBroadcast(g) PROVE LockInv'
  BY <1>4 DEF EndBroadcast
<1>5. ASSUME NEW g \in Actors, NEW c \in Subscribers, Visit(g, c) PROVE LockInv'
  BY <1>5 DEF Visit
<1>6. ASSUME NEW c \in Subscribers, Register(c) PROVE LockInv'
  BY <1>6 DEF Register
<1>7. ASSUME NEW c \in Subscribers, WriteEvent(c) PROVE LockInv'
  BY <1>7 DEF WriteEvent
<1>8. ASSUME NEW c \in Subscribers, Unregister(c) PROVE LockInv'
  BY <1>8 DEF Unregister
<1>9. CASE UNCHANGED hubVars
  BY <1>9 DEF hubVars
<1> QED BY <1>1, <1>2, <1>3, <1>4, <1>5, <1>6, <1>7, <1>8, <1>9 DEF HubNext

\* NoSendOnClosed, for any goroutines, subscribers and buffers: a client that a
\* Broadcast has still to visit is registered and its channel is open (hub.go
\* Broadcast, Register, Unregister).
THEOREM BroadcastsMeetOpenChannels == HubSpec => []NoSendOnClosed
<1>1. HubInit => LockInv
  BY DEF HubInit, LockInv
<1>2. LockInv => NoSendOnClosed
  BY DEF LockInv, NoSendOnClosed
<1> QED BY <1>1, <1>2, LockStep, PTL DEF HubSpec

-----------------------------------------------------------------------------
(***************************************************************************)
(* An event comes after the changes it tells of.                           *)
(***************************************************************************)
Stores == {"inspector", "state", "context", "discovery", "registry", "costs", "board"}
Names  == Stores \cup EventTypes

Step == [job : Nat, name : Names, stores : SUBSET Stores]

\* In a list of steps, an event stands behind the stores it tells of.
InOrder(steps) ==
  \A i \in DOMAIN steps : steps[i] \in EventTypes =>
    \A s \in ToSet(steps) \cap TellsOf(steps[i]) : \E j \in 1..(i-1) : steps[j] = s

\* What dispatchToStores does is in order, and the message is not part of it.
LEMMA DispatchInOrder ==
  ASSUME NEW a
  PROVE  /\ dispatchToStores(a) \in Seq(Names)
         /\ InOrder(dispatchToStores(a))
         /\ \A i \in DOMAIN dispatchToStores(a) : dispatchToStores(a)[i] # "message"
<1> DEFINE d == dispatchToStores(a)
<1>1. CASE a = "OFFER"
  <2>1. d = <<"state">> \o <<"board">> \o <<"task_update">>
    BY <1>1 DEF dispatchToStores, TaskActions, BoardActions
  <2>2. /\ d \in Seq(Names) /\ Len(d) = 3
        /\ d[1] = "state" /\ d[2] = "board" /\ d[3] = "task_update"
    BY <2>1 DEF Names, Stores, EventTypes
  <2> HIDE DEF d
  <2>3. DOMAIN d = 1..3
    BY <2>2
  <2> QED BY <2>2, <2>3 DEF InOrder, EventTypes, TellsOf, d
<1>2. CASE a \in BoardActions \ {"OFFER"}
  <2>1. d = <<"state">> \o <<"board">> \o <<>>
    BY <1>2 DEF dispatchToStores, TaskActions, BoardActions
  <2>2. d \in Seq(Names) /\ Len(d) = 2 /\ d[1] = "state" /\ d[2] = "board"
    BY <2>1 DEF Names, Stores, EventTypes
  <2> HIDE DEF d
  <2>3. DOMAIN d = 1..2
    BY <2>2
  <2> QED BY <2>2, <2>3 DEF InOrder, EventTypes, d
<1>3. CASE a \notin BoardActions
  <2> DEFINE lists == {<<"state">>, <<"context">>, <<"discovery", "registry", "agent_update">>,
                       <<"costs", "cost">>, <<>>}
  <2> DEFINE e == CASE a \in TaskActions -> <<"state">>
                    [] a \in {"CONTEXT", "SHARING-CONTEXT", "REQUEST-CONTEXT"} -> <<"context">>
                    [] a = "CAPABILITIES" -> CapabilitiesSteps
                    [] a = "COST-REPORT" -> <<"costs", "cost">>
                    [] OTHER -> <<>>
  <2>1. PICK x \in lists : d = x \o <<>> \o <<>>
    <3>1. a # "OFFER"
      BY <1>3 DEF BoardActions
    <3>2. d = e \o <<>> \o <<>>
      BY <1>3, <3>1 DEF dispatchToStores
    <3>3. e \in lists
      <4>1. CASE a \in TaskActions
        BY <4>1 DEF TaskActions
      <4>2. CASE a \notin TaskActions
        BY <4>2 DEF CapabilitiesSteps
      <4> QED BY <4>1, <4>2
    <3> QED BY <3>2, <3>3
  <2>2. x \in Seq(Names)
    <3>1. /\ <<"state">> \in Seq(Names) /\ <<"context">> \in Seq(Names)
          /\ <<"discovery", "registry", "agent_update">> \in Seq(Names)
          /\ <<"costs", "cost">> \in Seq(Names) /\ <<>> \in Seq(Names)
      BY DEF Names, Stores, EventTypes
    <3> QED BY <3>1, Zenon
  <2>3. d = x
    BY <2>1, <2>2
  <2>4. InOrder(x) /\ \A i \in DOMAIN x : x[i] # "message"
    <3>1. CASE x \in {<<"state">>, <<"context">>, <<>>}
      BY <3>1 DEF InOrder, EventTypes
    <3>2. CASE x = <<"costs", "cost">>
      BY <3>2 DEF InOrder, EventTypes, TellsOf
    <3>3. CASE x = <<"discovery", "registry", "agent_update">>
      BY <3>3 DEF InOrder, EventTypes, TellsOf
    <3> QED BY <3>1, <3>2, <3>3
  <2> QED BY <2>2, <2>3, <2>4
<1> QED BY <1>1, <1>2, <1>3 DEF BoardActions

\* So is a call of the manager: the message event comes last.
LEMMA CallsInOrder ==
  /\ \A a : handleIRCMessage(a) \in Seq(Names) /\ InOrder(handleIRCMessage(a))
  /\ AgentRequest \in Seq(Names) /\ InOrder(AgentRequest)
<1>1. ASSUME NEW a
      PROVE  handleIRCMessage(a) \in Seq(Names) /\ InOrder(handleIRCMessage(a))
  <2> DEFINE d == dispatchToStores(a)
  <2> DEFINE h == <<"inspector">> \o d \o <<"message">>
  <2>1. d \in Seq(Names) /\ InOrder(d) /\ \A i \in DOMAIN d : d[i] # "message"
    BY DispatchInOrder
  <2> HIDE DEF d
  <2>2. /\ h \in Seq(Names) /\ Len(h) = Len(d) + 2
        /\ h[1] = "inspector" /\ h[Len(d) + 2] = "message"
        /\ \A i \in 1..Len(d) : h[i + 1] = d[i]
    BY <2>1 DEF Names, Stores, EventTypes
  <2> HIDE DEF h
  <2>3. InOrder(h)
    <3> SUFFICES ASSUME NEW i \in DOMAIN h, h[i] \in EventTypes,
                        NEW s \in ToSet(h) \cap TellsOf(h[i])
                 PROVE  \E j \in 1..(i-1) : h[j] = s
      BY DEF InOrder
    <3>1. PICK k \in DOMAIN h : h[k] = s
      BY DEF ToSet
    <3>2. DOMAIN h = 1..(Len(d) + 2) /\ DOMAIN d = 1..Len(d) /\ Len(d) \in Nat
      BY <2>1, <2>2
    <3>3. s # "message"
      BY DEF TellsOf, EventTypes
    <3>4. k \in 1..(Len(d) + 1)
      BY <2>2, <3>1, <3>2, <3>3
    <3>5. CASE i = Len(d) + 2
      BY <3>1, <3>2, <3>4, <3>5
    <3>6. CASE i # Len(d) + 2
      <4>1. i - 1 \in 1..Len(d) /\ h[i] = d[i - 1]
        <5>1. i # 1
          BY <2>2 DEF EventTypes
        <5>2. i - 1 \in 1..Len(d)
          BY <3>2, <3>6, <5>1
        <5> QED BY <2>2, <3>2, <5>2
      <4>2. d[i - 1] # "message" /\ s # "inspector"
        <5>1. d[i - 1] # "message"
          BY <2>1, <3>2, <4>1
        <5> QED BY <4>1, <5>1 DEF TellsOf, EventTypes
      <4>3. k - 1 \in 1..Len(d) /\ d[k - 1] = s
        <5>1. k # 1
          BY <2>2, <3>1, <4>2
        <5>2. k - 1 \in 1..Len(d)
          BY <3>2, <3>4, <5>1
        <5> QED BY <2>2, <3>1, <3>2, <5>2
      <4>4. s \in ToSet(d)
        BY <3>2, <4>3 DEF ToSet
      <4>5. PICK j \in 1..(i - 2) : d[j] = s
        <5>1. PICK j \in 1..((i - 1) - 1) : d[j] = s
          BY <2>1, <3>2, <4>1, <4>4 DEF InOrder
        <5> QED BY <5>1, <4>1, <3>2
      <4>6. j \in 1..Len(d) /\ j + 1 \in 1..(i - 1)
        BY <3>2, <4>1
      <4>7. h[j + 1] = s
        BY <2>2, <4>5, <4>6
      <4> QED BY <4>6, <4>7
    <3> QED BY <3>5, <3>6
  <2> QED BY <2>2, <2>3 DEF h, d, handleIRCMessage
<1>2. AgentRequest \in Seq(Names) /\ InOrder(AgentRequest)
  BY DEF AgentRequest, Names, Stores, InOrder, EventTypes, TellsOf
<1> QED BY <1>1, <1>2

HubTypes ==
  /\ jobs \in Nat
  /\ todo \in [Actors -> Seq(Step)]
  /\ buffer \in [Subscribers -> Seq(Step)]
  /\ written \in [Subscribers -> Seq(Step)]
  /\ dropped \in [Subscribers -> SUBSET Step]
  /\ owed \in [Subscribers -> SUBSET Step]
  /\ casting \subseteq Actors

\* The stores that a step sends to were changed.
Told(e) == \A s \in e.stores : <<e.job, s>> \in changed

\* A store that an event tells of was changed, or is changed before it.
Ordered ==
  \A g \in Actors : \A i \in DOMAIN todo[g] : todo[g][i].name \in EventTypes =>
    \A s \in todo[g][i].stores :
      \/ <<todo[g][i].job, s>> \in changed
      \/ \E j \in 1..(i-1) : todo[g][j].job = todo[g][i].job /\ todo[g][j].name = s

\* A goroutine that broadcasts is at an event.
Casts == \A g \in casting : todo[g] # <<>> /\ Head(todo[g]).name \in EventTypes

Received(c) == ToSet(written[c]) \cup ToSet(buffer[c])
Pending(c)  == {Head(todo[g]) : g \in {h \in casting : c \in readers[h]}}

\* What a subscriber has, and what it has not; nothing before it registers.
Accounts ==
  \A c \in Subscribers :
    /\ \A e \in Received(c) : Told(e)
    /\ c \in clients => owed[c] = Received(c) \cup dropped[c] \cup Pending(c)
    /\ c \notin clients \cup closed =>
         owed[c] = {} /\ Received(c) = {} /\ dropped[c] = {}

HubInv == HubTypes /\ LockInv /\ Ordered /\ Casts /\ Accounts

-----------------------------------------------------------------------------
\* The first event of a goroutine tells of what was changed.
LEMMA HeadTold ==
  ASSUME HubInv, NEW g \in Actors, todo[g] # <<>>, Head(todo[g]).name \in EventTypes
  PROVE  Head(todo[g]) \in Step /\ Told(Head(todo[g]))
<1>1. todo[g] \in Seq(Step) /\ 1 \in DOMAIN todo[g] /\ Head(todo[g]) = todo[g][1]
  BY DEF HubInv, HubTypes
<1> QED BY <1>1 DEF HubInv, Ordered, Told

\* When the first step is done, the rest is in order: it was an event, or its
\* store has been changed.
LEMMA TailOrdered ==
  ASSUME HubInv, NEW g \in Actors, todo[g] # <<>>,
         todo' = [todo EXCEPT ![g] = Tail(@)], changed \subseteq changed',
         \/ Head(todo[g]).name \in EventTypes
         \/ <<Head(todo[g]).job, Head(todo[g]).name>> \in changed'
  PROVE  Ordered' /\ todo' \in [Actors -> Seq(Step)]
<1>1. /\ todo[g] \in Seq(Step) /\ Tail(todo[g]) \in Seq(Step)
      /\ DOMAIN Tail(todo[g]) = 1..(Len(todo[g]) - 1) /\ DOMAIN todo[g] = 1..Len(todo[g])
      /\ Len(todo[g]) \in Nat \ {0}
      /\ \A i \in 1..(Len(todo[g]) - 1) : Tail(todo[g])[i] = todo[g][i + 1]
      /\ Head(todo[g]) = todo[g][1]
  BY DEF HubInv, HubTypes
<1>2. /\ todo' \in [Actors -> Seq(Step)] /\ todo'[g] = Tail(todo[g])
      /\ \A k \in Actors \ {g} : todo'[k] = todo[k]
  BY <1>1 DEF HubInv, HubTypes
<1>3. Ordered'
  <2> SUFFICES ASSUME NEW k \in Actors, NEW i \in DOMAIN todo'[k],
                      todo'[k][i].name \in EventTypes, NEW s \in todo'[k][i].stores
               PROVE  \/ <<todo'[k][i].job, s>> \in changed'
                      \/ \E j \in 1..(i-1) : todo'[k][j].job = todo'[k][i].job /\ todo'[k][j].name = s
    BY DEF Ordered
  <2>1. CASE k # g
    <3>1. todo'[k] = todo[k]
      BY <1>2, <2>1
    <3>2. /\ i \in DOMAIN todo[k] /\ todo[k][i].name \in EventTypes
          /\ s \in todo[k][i].stores
      BY <3>1, Zenon
    <3>3. \/ <<todo[k][i].job, s>> \in changed
          \/ \E j \in 1..(i-1) : todo[k][j].job = todo[k][i].job /\ todo[k][j].name = s
      BY <3>2, Zenon DEF HubInv, Ordered
    <3> QED BY <3>1, <3>3, Zenon
  <2>2. CASE k = g
    <3>1. i \in 1..(Len(todo[g]) - 1) /\ todo'[k][i] = todo[g][i + 1] /\ i + 1 \in DOMAIN todo[g]
      BY <1>1, <1>2, <2>2
    <3>2. \/ <<todo[g][i + 1].job, s>> \in changed
          \/ \E j \in 1..i : todo[g][j].job = todo[g][i + 1].job /\ todo[g][j].name = s
      <4>1. (i + 1) - 1 = i
        BY <3>1
      <4> QED BY <3>1, <4>1 DEF HubInv, Ordered
    <3>3. CASE <<todo[g][i + 1].job, s>> \in changed
      BY <3>1, <3>3
    <3>4. ASSUME NEW j \in 1..i, todo[g][j].job = todo[g][i + 1].job, todo[g][j].name = s
          PROVE  \/ <<todo'[k][i].job, s>> \in changed'
                 \/ \E l \in 1..(i-1) : todo'[k][l].job = todo'[k][i].job /\ todo'[k][l].name = s
      <4>1. CASE j = 1
        <5>1. s \in Stores
          <6>1. todo'[k][i] \in Step
            BY <1>1, <1>2, <3>1
          <6> QED BY <6>1 DEF Step
        <5>2. s \notin EventTypes
          BY <5>1 DEF Stores, EventTypes
        <5> QED BY <1>1, <3>1, <3>4, <4>1, <5>2
      <4>2. CASE j # 1
        <5>1. j - 1 \in 1..(i - 1) /\ j - 1 \in 1..(Len(todo[g]) - 1) /\ (j - 1) + 1 = j
          BY <1>1, <3>1, <4>2
        <5>2. todo'[k][j - 1] = todo[g][j]
          BY <1>1, <1>2, <2>2, <5>1
        <5> QED BY <3>1, <3>4, <5>1, <5>2
      <4> QED BY <4>1, <4>2
    <3> QED BY <3>2, <3>3, <3>4
  <2> QED BY <2>1, <2>2
<1> QED BY <1>2, <1>3

\* Steps that do not reach the subscribers.
LEMMA AccountsKept ==
  ASSUME HubInv, UNCHANGED <<clients, closed, buffer, written, dropped, owed>>,
         changed \subseteq changed', \A c \in clients : Pending(c)' = Pending(c)
  PROVE  Accounts'
<1>1. \A c \in Subscribers : Received(c)' = Received(c)
  BY DEF Received
<1>2. \A e : Told(e) => Told(e)'
  BY DEF Told
<1> QED BY <1>1, <1>2 DEF HubInv, Accounts

\* A goroutine that does not broadcast is not pending.
LEMMA PendingKept ==
  ASSUME HubInv, NEW g \in Actors, g \notin casting \/ readers[g] = {},
         casting' = casting \/ casting' = casting \ {g}, UNCHANGED readers,
         \A k \in Actors \ {g} : todo'[k] = todo[k]
  PROVE  \A c \in Subscribers : Pending(c)' = Pending(c)
<1> SUFFICES ASSUME NEW c \in Subscribers PROVE Pending(c)' = Pending(c)
  OBVIOUS
<1> DEFINE H == {h \in casting : c \in readers[h]}
<1> DEFINE I == {h \in casting' : c \in readers[h]}
<1>1. I = H /\ g \notin H /\ H \subseteq Actors
  BY DEF HubInv, HubTypes
<1>2. \A h \in H : todo'[h] = todo[h]
  BY <1>1
<1>3. Pending(c)' = {Head(todo'[h]) : h \in I}
  BY DEF Pending
<1>4. Pending(c) = {Head(todo[h]) : h \in H}
  BY DEF Pending
<1> HIDE DEF H, I
<1> QED BY <1>1, <1>2, <1>3, <1>4

LEMMA BeginKeeps ==
  ASSUME HubInv, NEW g, NEW steps \in Seq(Names), InOrder(steps), Begin(g, steps)
  PROVE  HubTypes' /\ Ordered' /\ Casts' /\ Accounts'
<1> DEFINE new == [i \in DOMAIN steps |->
          [job |-> jobs + 1, name |-> steps[i],
           stores |-> ToSet(steps) \cap TellsOf(IF steps[i] \in EventTypes
                                                THEN steps[i] ELSE "message")]]
<1>1. todo' = [todo EXCEPT ![g] = new] /\ jobs' = jobs + 1 /\ todo[g] = <<>>
      /\ UNCHANGED <<changed, clients, readers, casting, buffer, closed, written, dropped, owed>>
  BY DEF Begin
<1>2. \A i \in DOMAIN steps : new[i] \in Step
  <2>1. \A x \in EventTypes : TellsOf(x) \subseteq Stores
    BY DEF EventTypes, TellsOf, Stores
  <2>2. "message" \in EventTypes /\ jobs + 1 \in Nat
    BY DEF EventTypes, HubInv, HubTypes
  <2>3. \A i \in DOMAIN steps : steps[i] \in Names
    OBVIOUS
  <2>4. ASSUME NEW i \in DOMAIN steps PROVE new[i] \in Step
    <3>1. TellsOf(IF steps[i] \in EventTypes THEN steps[i] ELSE "message") \subseteq Stores
      BY <2>1, <2>2
    <3> QED BY <2>2, <2>3, <3>1 DEF Step
  <2> QED BY <2>4
<1>3. new \in Seq(Step) /\ DOMAIN new = DOMAIN steps
  <2>1. DOMAIN steps = 1..Len(steps) /\ Len(steps) \in Nat
    OBVIOUS
  <2>2. DOMAIN new = 1..Len(steps) /\ new \in [1..Len(steps) -> Step]
    BY <1>2, <2>1
  <2> QED BY <2>1, <2>2
<1>4. \A i \in DOMAIN steps :
        /\ new[i].job = jobs + 1 /\ new[i].name = steps[i]
        /\ steps[i] \in EventTypes => new[i].stores = ToSet(steps) \cap TellsOf(steps[i])
  OBVIOUS
<1> HIDE DEF new
<1>5. todo' \in [Actors -> Seq(Step)] /\ \A k \in Actors : todo'[k] = IF k = g THEN new ELSE todo[k]
  BY <1>1, <1>3 DEF HubInv, HubTypes
<1>6. HubTypes'
  BY <1>1, <1>5 DEF HubInv, HubTypes
<1>7. Ordered'
  <2> SUFFICES ASSUME NEW k \in Actors, NEW i \in DOMAIN todo'[k],
                      todo'[k][i].name \in EventTypes, NEW s \in todo'[k][i].stores
               PROVE  \/ <<todo'[k][i].job, s>> \in changed'
                      \/ \E j \in 1..(i-1) : todo'[k][j].job = todo'[k][i].job /\ todo'[k][j].name = s
    BY DEF Ordered
  <2>1. CASE k # g
    <3>1. todo'[k] = todo[k] /\ changed' = changed
      BY <1>1, <1>5, <2>1
    <3>2. i \in DOMAIN todo[k] /\ todo[k][i].name \in EventTypes /\ s \in todo[k][i].stores
      BY <3>1, Zenon
    <3>3. \/ <<todo[k][i].job, s>> \in changed
          \/ \E j \in 1..(i-1) : todo[k][j].job = todo[k][i].job /\ todo[k][j].name = s
      BY <3>2, Zenon DEF HubInv, Ordered
    <3> QED BY <3>1, <3>3, Zenon
  <2>2. CASE k = g
    <3>1. todo'[k] = new
      BY <1>5, <2>2
    <3>2. i \in DOMAIN steps /\ steps[i] \in EventTypes /\ s \in ToSet(steps) \cap TellsOf(steps[i])
      BY <1>3, <1>4, <3>1
    <3>3. PICK j \in 1..(i-1) : steps[j] = s
      BY <3>2 DEF InOrder
    <3>4. j \in DOMAIN steps
      BY <3>2
    <3> QED BY <1>4, <3>1, <3>2, <3>3, <3>4
  <2> QED BY <2>1, <2>2
<1>8. g \in casting => g \notin Actors
  BY <1>1 DEF HubInv, Casts
<1>9. Casts'
  BY <1>1, <1>5, <1>8 DEF HubInv, HubTypes, Casts
<1>10. Accounts'
  <2>1. CASE g \in Actors
    BY <1>1, <1>5, <1>8, <2>1, PendingKept, AccountsKept DEF HubInv, LockInv
  <2>2. CASE g \notin Actors
    <3>1. todo' = todo
      BY <1>1, <2>2 DEF HubInv, HubTypes
    <3>2. \A c \in clients : Pending(c)' = Pending(c)
      BY <1>1, <3>1 DEF Pending
    <3> QED BY <1>1, <3>2, AccountsKept
  <2> QED BY <2>1, <2>2
<1> QED BY <1>6, <1>7, <1>9, <1>10

\* The broadcast offers its event to one subscriber.
LEMMA VisitKeeps ==
  ASSUME HubInv, NEW g \in Actors, NEW c \in Subscribers, Visit(g, c)
  PROVE  HubTypes' /\ Ordered' /\ Casts' /\ Accounts'
<1> DEFINE e == Head(todo[g])
<1>1. g \in casting /\ todo[g] # <<>> /\ e.name \in EventTypes /\ c \in clients
  BY DEF HubInv, LockInv, Casts, Visit
<1>2. e \in Step /\ Told(e)
  BY <1>1, HeadTold
<1>3. UNCHANGED <<jobs, todo, changed, clients, casting, closed, written, owed>>
  BY DEF Visit
<1>4. Ordered' /\ Casts'
  BY <1>3 DEF HubInv, Ordered, Casts
<1> HIDE DEF e
<1>5. /\ buffer' \in [Subscribers -> Seq(Step)] /\ dropped' \in [Subscribers -> SUBSET Step]
      /\ Received(c)' \cup dropped'[c] = Received(c) \cup dropped[c] \cup {e}
      /\ Received(c)' \subseteq Received(c) \cup {e}
      /\ \A d \in Subscribers \ {c} : Received(d)' = Received(d) /\ dropped'[d] = dropped[d]
  <2>1. CASE buffer' = [buffer EXCEPT ![c] = Append(@, e)] /\ UNCHANGED dropped
    <3>1. buffer[c] \in Seq(Step)
      BY DEF HubInv, HubTypes
    <3>2. /\ buffer' \in [Subscribers -> Seq(Step)] /\ buffer'[c] = Append(buffer[c], e)
          /\ \A d \in Subscribers \ {c} : buffer'[d] = buffer[d]
      BY <1>2, <2>1 DEF HubInv, HubTypes
    <3>3. ToSet(buffer'[c]) = ToSet(buffer[c]) \cup {e}
      BY <1>2, <3>1, <3>2, ToSetAppend
    <3> QED BY <1>3, <2>1, <3>2, <3>3 DEF Received, HubInv, HubTypes
  <2>2. CASE dropped' = [dropped EXCEPT ![c] = @ \cup {e}] /\ UNCHANGED buffer
    BY <1>2, <1>3, <2>2 DEF Received, HubInv, HubTypes
  <2> QED BY <2>1, <2>2 DEF Visit, e
<1>6. HubTypes'
  BY <1>3, <1>5 DEF HubInv, HubTypes
<1>7. Pending(c)' \cup {e} = Pending(c) /\ \A d \in Subscribers \ {c} : Pending(d)' = Pending(d)
  <2>1. /\ readers'[g] = readers[g] \ {c} /\ c \in readers[g]
        /\ \A h \in Actors \ {g} : readers'[h] = readers[h]
    BY DEF Visit, HubInv, LockInv
  <2>2. \A d : Pending(d)' = {Head(todo[h]) : h \in {k \in casting : d \in readers'[k]}}
    BY <1>3 DEF Pending
  <2>3. casting \subseteq Actors
    BY DEF HubInv, HubTypes
  <2>4. ASSUME NEW d \in Subscribers \ {c} PROVE Pending(d)' = Pending(d)
    <3>1. {k \in casting : d \in readers'[k]} = {k \in casting : d \in readers[k]}
      BY <2>1, <2>3
    <3> QED BY <2>2, <3>1 DEF Pending
  <2>5. {k \in casting : c \in readers'[k]} = {k \in casting : c \in readers[k]} \ {g}
    BY <2>1, <2>3
  <2>6. Pending(c)' \cup {e} = Pending(c)
    <3>1. PICK H : H = {k \in casting : c \in readers[k]}
      OBVIOUS
    <3>2. g \in H /\ Pending(c) = {Head(todo[h]) : h \in H}
      BY <1>1, <2>1, <3>1 DEF Pending
    <3>3. Pending(c)' = {Head(todo[h]) : h \in H \ {g}}
      BY <2>2, <2>5, <3>1
    <3>4. e = Head(todo[g])
      BY DEF e
    <3> QED BY <3>2, <3>3, <3>4
  <2> QED BY <2>4, <2>6
<1>8. Accounts'
  <2>1. \A x : Told(x)' = Told(x)
    BY <1>3 DEF Told
  <2>2. ASSUME NEW d \in Subscribers \ {c}
        PROVE  /\ \A x \in Received(d)' : Told(x)'
               /\ d \in clients' => owed'[d] = Received(d)' \cup dropped'[d] \cup Pending(d)'
               /\ d \notin clients' \cup closed' =>
                    owed'[d] = {} /\ Received(d)' = {} /\ dropped'[d] = {}
    BY <1>3, <1>5, <1>7, <2>1 DEF HubInv, Accounts
  <2>3. /\ \A x \in Received(c)' : Told(x)'
        /\ owed'[c] = Received(c)' \cup dropped'[c] \cup Pending(c)'
    <3>1. \A x \in Received(c)' : Told(x)'
      BY <1>2, <1>5, <2>1 DEF HubInv, Accounts
    <3>2. owed[c] = Received(c) \cup dropped[c] \cup Pending(c)
      BY <1>1 DEF HubInv, Accounts
    <3>3. owed'[c] = Received(c)' \cup dropped'[c] \cup Pending(c)'
      BY <1>3, <1>5, <1>7, <3>2
    <3> QED BY <3>1, <3>3
  <2> QED BY <1>1, <1>3, <2>2, <2>3 DEF Accounts
<1> QED BY <1>4, <1>6, <1>8

\* The broadcast begins: its event is owed to whoever is registered.
LEMMA BeginBroadcastKeeps ==
  ASSUME HubInv, NEW g \in Actors, BeginBroadcast(g)
  PROVE  HubTypes' /\ Ordered' /\ Casts' /\ Accounts'
<1> DEFINE e == Head(todo[g])
<1>1. todo[g] # <<>> /\ e.name \in EventTypes /\ g \notin casting
      /\ UNCHANGED <<jobs, todo, changed, clients, buffer, closed, written, dropped>>
      /\ casting' = casting \cup {g} /\ readers' = [readers EXCEPT ![g] = clients]
  BY DEF BeginBroadcast
<1>2. e \in Step
  BY <1>1, HeadTold
<1>3. Ordered' /\ Casts'
  BY <1>1 DEF HubInv, Ordered, Casts
<1>4. owed' = [c \in Subscribers |-> IF c \in clients THEN owed[c] \cup {e} ELSE owed[c]]
  BY DEF BeginBroadcast
<1>5. HubTypes'
  BY <1>1, <1>2, <1>4 DEF HubInv, HubTypes
<1>6. \A c \in clients : Pending(c)' = Pending(c) \cup {e}
  <2> SUFFICES ASSUME NEW c \in clients PROVE Pending(c)' = Pending(c) \cup {e}
    OBVIOUS
  <2>1. readers'[g] = clients /\ \A h \in Actors \ {g} : readers'[h] = readers[h]
    BY <1>1 DEF HubInv, LockInv
  <2>2. casting \subseteq Actors
    BY DEF HubInv, HubTypes
  <2>3. {k \in casting' : c \in readers'[k]} = {k \in casting : c \in readers[k]} \cup {g}
    BY <1>1, <2>1, <2>2
  <2>4. Pending(c)' = {Head(todo[h]) : h \in {k \in casting' : c \in readers'[k]}}
    BY <1>1 DEF Pending
  <2> QED BY <2>3, <2>4 DEF Pending
<1> HIDE DEF e
<1>7. \A c \in Subscribers : Received(c)' = Received(c)
  BY <1>1 DEF Received
<1>8. \A x : Told(x)' = Told(x)
  BY <1>1 DEF Told
<1>9. Accounts'
  BY <1>1, <1>4, <1>6, <1>7, <1>8 DEF HubInv, Accounts
<1> QED BY <1>3, <1>5, <1>9

\* A call changes a store, or a broadcast is over.
LEMMA AdvanceKeeps ==
  ASSUME HubInv, NEW g \in Actors, ChangeStore(g) \/ EndBroadcast(g)
  PROVE  HubTypes' /\ Ordered' /\ Casts' /\ Accounts'
<1>1. /\ todo[g] # <<>> /\ todo' = [todo EXCEPT ![g] = Tail(@)]
      /\ changed \subseteq changed'
      /\ \/ Head(todo[g]).name \in EventTypes
         \/ <<Head(todo[g]).job, Head(todo[g]).name>> \in changed'
      /\ g \notin casting \/ readers[g] = {}
      /\ casting' = casting \ {g}
      /\ UNCHANGED <<jobs, clients, readers, buffer, closed, written, dropped, owed>>
  <2>1. CASE ChangeStore(g)
    BY <2>1 DEF ChangeStore, HubInv, Casts
  <2>2. CASE EndBroadcast(g)
    BY <2>2 DEF EndBroadcast, HubInv, Casts
  <2> QED BY <2>1, <2>2
<1>2. Ordered' /\ todo' \in [Actors -> Seq(Step)]
  BY <1>1, TailOrdered
<1>3. \A k \in Actors \ {g} : todo'[k] = todo[k]
  BY <1>1 DEF HubInv, HubTypes
<1>4. HubTypes'
  BY <1>1, <1>2 DEF HubInv, HubTypes
<1>5. Casts'
  BY <1>1, <1>3 DEF HubInv, HubTypes, Casts
<1>6. Accounts'
  <2>1. \A c \in Subscribers : Pending(c)' = Pending(c)
    BY <1>1, <1>3, PendingKept
  <2> QED BY <1>1, <2>1, AccountsKept DEF HubInv, LockInv
<1> QED BY <1>2, <1>4, <1>5, <1>6

\* A subscriber comes, is served and leaves.
LEMMA SubscriberKeeps ==
  ASSUME HubInv, NEW c \in Subscribers, Register(c) \/ WriteEvent(c) \/ Unregister(c)
  PROVE  HubTypes' /\ Ordered' /\ Casts' /\ Accounts'
<1>1. UNCHANGED <<jobs, todo, changed, readers, casting, dropped, owed>>
  BY DEF Register, WriteEvent, Unregister
<1>2. Ordered' /\ Casts'
  BY <1>1 DEF HubInv, Ordered, Casts
<1>3. \A d : Pending(d)' = Pending(d)
  BY <1>1 DEF Pending
<1>4. \A x : Told(x)' = Told(x)
  BY <1>1 DEF Told
<1>5. CASE Register(c)
  <2>1. UNCHANGED <<buffer, written, closed>> /\ clients' = clients \cup {c} /\ casting = {}
        /\ c \notin clients \cup closed
    BY <1>5 DEF Register
  <2>2. \A d : Received(d)' = Received(d)
    BY <2>1 DEF Received
  <2>3. Pending(c) = {}
    BY <2>1 DEF Pending
  <2>4. HubTypes'
    BY <1>1, <2>1 DEF HubInv, HubTypes
  <2>5. Accounts'
    BY <1>1, <1>3, <1>4, <2>1, <2>2, <2>3 DEF HubInv, Accounts
  <2> QED BY <1>2, <2>4, <2>5
<1>6. CASE WriteEvent(c)
  <2>1. /\ UNCHANGED <<clients, closed>> /\ buffer[c] # <<>> /\ c \in clients
        /\ buffer' = [buffer EXCEPT ![c] = Tail(@)]
        /\ written' = [written EXCEPT ![c] = Append(@, Head(buffer[c]))]
    BY <1>6 DEF WriteEvent
  <2>2. buffer[c] \in Seq(Step) /\ written[c] \in Seq(Step)
    BY DEF HubInv, HubTypes
  <2>3. /\ ToSet(buffer[c]) = {Head(buffer[c])} \cup ToSet(Tail(buffer[c]))
        /\ Head(buffer[c]) \in Step /\ Tail(buffer[c]) \in Seq(Step)
    BY <2>1, <2>2, ToSetTail
  <2>4. ToSet(Append(written[c], Head(buffer[c]))) = ToSet(written[c]) \cup {Head(buffer[c])}
    BY <2>2, <2>3, ToSetAppend
  <2>5. /\ buffer'[c] = Tail(buffer[c]) /\ written'[c] = Append(written[c], Head(buffer[c]))
        /\ \A d \in Subscribers \ {c} : buffer'[d] = buffer[d] /\ written'[d] = written[d]
    BY <2>1 DEF HubInv, HubTypes
  <2>6. HubTypes'
    <3>1. Append(written[c], Head(buffer[c])) \in Seq(Step)
      BY <2>2, <2>3
    <3> QED BY <1>1, <2>1, <2>3, <3>1 DEF HubInv, HubTypes
  <2>7. \A d \in Subscribers : Received(d)' = Received(d)
    BY <2>3, <2>4, <2>5 DEF Received
  <2>8. Accounts'
    BY <1>1, <1>3, <1>4, <2>1, <2>7 DEF HubInv, Accounts
  <2> QED BY <1>2, <2>6, <2>8
<1>7. CASE Unregister(c)
  <2>1. /\ UNCHANGED <<buffer, written>> /\ clients' = clients \ {c} /\ closed' = closed \cup {c}
    BY <1>7 DEF Unregister
  <2>2. \A d : Received(d)' = Received(d)
    BY <2>1 DEF Received
  <2>3. HubTypes'
    BY <1>1, <2>1 DEF HubInv, HubTypes
  <2>4. Accounts'
    BY <1>1, <1>3, <1>4, <2>1, <2>2 DEF HubInv, Accounts
  <2> QED BY <1>2, <2>3, <2>4
<1> QED BY <1>5, <1>6, <1>7

\* EventsFollowChanges, for any goroutines, subscribers, buffers and calls: an event
\* that reaches a subscriber comes after the changes of the stores it sends it to,
\* and what a registered subscriber misses found its own buffer full (manager.go
\* handleIRCMessage, dispatchToStores, hub.go Broadcast, server.go serveWS).
THEOREM SubscribersFollowTheManager == HubSpec => []EventsFollowChanges
<1>1. HubInit => HubInv
  <2> SUFFICES ASSUME HubInit PROVE HubInv
    OBVIOUS
  <2>1. ToSet(<<>>) = {}
    BY DEF ToSet
  <2>2. HubTypes /\ LockInv /\ Ordered /\ Casts
    BY DEF HubInit, HubTypes, LockInv, Ordered, Casts
  <2>3. Accounts
    BY <2>1 DEF HubInit, Accounts, Received, Told
  <2> QED BY <2>2, <2>3 DEF HubInv
<1>2. HubInv /\ [HubNext]_hubVars => HubInv'
  <2> SUFFICES ASSUME HubInv, [HubNext]_hubVars PROVE HubInv'
    OBVIOUS
  <2>1. LockInv'
    BY LockStep DEF HubInv
  <2>2. CASE ReceiveMessage \/ HandleRequest
    BY <2>1, <2>2, BeginKeeps, CallsInOrder DEF ReceiveMessage, HandleRequest, HubInv
  <2>3. CASE UNCHANGED hubVars
    <3>1. HubTypes' /\ Ordered' /\ Casts'
      BY <2>3 DEF hubVars, HubInv, HubTypes, Ordered, Casts
    <3>2. \A c \in clients : Pending(c)' = Pending(c)
      BY <2>3 DEF hubVars, Pending
    <3> QED BY <2>1, <2>3, <3>1, <3>2, AccountsKept DEF hubVars, HubInv
  <2>4. ASSUME NEW g \in Actors, ChangeStore(g) \/ EndBroadcast(g) PROVE HubInv'
    BY <2>1, <2>4, AdvanceKeeps DEF HubInv
  <2>5. ASSUME NEW g \in Actors, BeginBroadcast(g) PROVE HubInv'
    BY <2>1, <2>5, BeginBroadcastKeeps DEF HubInv
  <2>6. ASSUME NEW g \in Actors, NEW c \in Subscribers, Visit(g, c) PROVE HubInv'
    BY <2>1, <2>6, VisitKeeps DEF HubInv
  <2>7. ASSUME NEW c \in Subscribers, Register(c) \/ WriteEvent(c) \/ Unregister(c)
        PROVE  HubInv'
    BY <2>1, <2>7, SubscriberKeeps DEF HubInv
  <2> QED BY <2>2, <2>3, <2>4, <2>5, <2>6, <2>7 DEF HubNext
<1>3. HubInv => EventsFollowChanges
  BY DEF HubInv, Accounts, EventsFollowChanges, Received, Pending, Told
<1> QED BY <1>1, <1>2, <1>3, PTL DEF HubSpec

-----------------------------------------------------------------------------
(***************************************************************************)
(* Discovery.  A step is either Tick, which lets every clock advance by    *)
(* one, or one of the others, which all keep within Moves; the proofs      *)
(* treat these two.                                                        *)
(***************************************************************************)

Hearing == {"member", "joined", "stopping"}

Packet == [from : Peers, to : Peers, kind : {"CAPABILITIES", "DISCOVER"},
           expertise : SUBSET Tags, age : 0..Delay]

\* What is under way is addressed to another agent that the server has in the
\* channel; what an agent keeps lives for at most ttl.
DiscTypes ==
  /\ phase \in [Peers -> {"off", "up"} \cup Hearing]
  /\ first \subseteq beating /\ beating \subseteq Peers
  /\ timer \in [Peers -> 0..Interval]
  /\ inPhase \in [Peers -> Nat]
  /\ DOMAIN known = Peers
  /\ \A a \in Peers : \A b \in DOMAIN known[a] : known[a][b] \in (-1)..Ttl
  /\ \A m \in wire : m \in Packet /\ m.from # m.to /\ phase[m.to] \in Hearing

-----------------------------------------------------------------------------
\* The heartbeat's period is at least one unit.
LEMMA IntervalIsPositive == Interval \in Nat \ {0}
BY DiscoveryConstants DEF Interval

\* What Sends makes: messages of a to the others the server has in the channel.
LEMMA SendsAre ==
  ASSUME NEW a \in Peers, NEW kind, NEW tags, NEW m \in Sends(a, kind, tags)
  PROVE  /\ m.from = a /\ m.to \in Peers \ {a} /\ phase[m.to] \in Hearing
         /\ m.kind = kind /\ m.expertise = tags /\ m.age = 0
         /\ m = [from |-> a, to |-> m.to, kind |-> kind, expertise |-> tags, age |-> 0]
<1>1. PICK b \in {c \in Peers \ {a} : phase[c] \in {"member", "joined", "stopping"}} :
        m = [from |-> a, to |-> b, kind |-> kind, expertise |-> tags, age |-> 0]
  BY DEF Sends
<1> QED
  BY <1>1 DEF Hearing

LEMMA SendsAreMessages ==
  ASSUME DiscTypes, NEW a \in Peers, NEW kind \in {"CAPABILITIES", "DISCOVER"},
         NEW tags \in SUBSET Tags, NEW m \in Sends(a, kind, tags)
  PROVE  m \in Packet /\ m.from = a /\ m.from # m.to /\ phase[m.to] \in Hearing
<1>1. /\ m.from = a /\ m.to \in Peers \ {a} /\ phase[m.to] \in Hearing
      /\ m = [from |-> a, to |-> m.to, kind |-> kind, expertise |-> tags, age |-> 0]
  BY SendsAre
<1>2. 0 \in 0..Delay
  BY DiscoveryConstants
<1>3. m.to \in Peers /\ m.from # m.to
  BY <1>1
<1> DEFINE x == m.to
<1>4. x \in Peers
  BY <1>3
<1> HIDE DEF x
<1>5. [from |-> a, to |-> x, kind |-> kind, expertise |-> tags, age |-> 0] \in Packet
  BY <1>2, <1>4 DEF Packet
<1> QED
  BY <1>1, <1>3, <1>5 DEF x

\* announceCapabilities sends only for an agent that is not off.
LEMMA AnnouncementsAre ==
  ASSUME DiscTypes, NEW a \in Peers, NEW m \in announceCapabilities(a)
  PROVE  /\ m \in Packet /\ m.from = a /\ m.from # m.to /\ phase[m.to] \in Hearing
         /\ phase[a] # "off"
<1>1. phase[a] \in {"joined", "stopping"} /\ m \in Sends(a, "CAPABILITIES", Expertise[a])
  BY DEF announceCapabilities
<1>2. Expertise[a] \in SUBSET Tags
  BY DiscoveryConstants
<1> QED
  BY <1>1, <1>2, SendsAreMessages

\* Every other joined agent is sent the announcement of a joined one.
LEMMA AnnouncementReaches ==
  ASSUME NEW a \in Peers, NEW b \in Peers, a # b, phase[a] = "joined",
         phase[b] = "joined", Expertise[b] # {}
  PROVE  \E m \in announceCapabilities(b) :
           m.kind = "CAPABILITIES" /\ m.from = b /\ m.to = a /\ m.age = 0
<1> DEFINE m == [from |-> b, to |-> a, kind |-> "CAPABILITIES",
                 expertise |-> Expertise[b], age |-> 0]
<1>1. m \in announceCapabilities(b)
  BY DEF announceCapabilities, Sends
<1>2. m.kind = "CAPABILITIES" /\ m.from = b /\ m.to = a /\ m.age = 0
  OBVIOUS
<1> HIDE DEF m
<1> QED
  BY <1>1, <1>2

-----------------------------------------------------------------------------
\* What a step other than Tick does with the messages under way.
WireMoves ==
  /\ \A m \in wire' :
       /\ m \in Packet /\ m.from # m.to /\ phase'[m.to] \in Hearing
       /\ m \in wire \/ phase'[m.from] # "off"
  /\ \A m \in wire : m.kind = "CAPABILITIES" /\ phase'[m.to] = "joined" =>
       \/ m \in wire'
       \/ m.from \in DOMAIN known'[m.to] /\ known'[m.to][m.from] = Ttl

\* An agent that is joined or off was so before, or is so from now on.
PhaseMoves ==
  \A a \in Peers : phase'[a] \in {"joined", "off"} =>
    inPhase'[a] = 0 \/ (phase[a] = phase'[a] /\ inPhase'[a] = inPhase[a])

\* An entry is as old as it was, or just heard; a joined agent drops no entry that
\* has not expired.
KnownMoves ==
  /\ \A a \in Peers : \A b \in DOMAIN known'[a] :
       \/ b \in DOMAIN known[a] /\ known'[a][b] = known[a][b]
       \/ known'[a][b] = Ttl /\ \E m \in wire : m.from = b
  /\ \A a \in Peers : \A b \in DOMAIN known[a] :
       phase'[a] = "joined" /\ known[a][b] >= 0
         => b \in DOMAIN known'[a] /\ known'[a][b] >= known[a][b]

\* A heartbeat's timer is only set again when the agent has pruned, and, if it is
\* joined, has announced itself to the joined.
TimerMoves ==
  /\ \A a \in beating' : \/ a \in beating /\ timer'[a] = timer[a]
                         \/ \A b \in DOMAIN known'[a] : known'[a][b] >= 0
  /\ \A b \in Peers : phase'[b] = "joined" =>
       \/ timer'[b] = timer[b]
       \/ /\ timer'[b] = Interval
          /\ \A a \in Peers : a # b /\ phase'[a] = "joined" /\ Expertise[b] # {} =>
               \E m \in wire' : m.kind = "CAPABILITIES" /\ m.from = b /\ m.to = a /\ m.age = 0

Moves == WireMoves /\ PhaseMoves /\ KnownMoves /\ TimerMoves

\* A step in which nothing happens but that some messages are sent.
LEMMA SendingMoves ==
  ASSUME DiscTypes, NEW new,
         \A m \in new : /\ m \in Packet /\ m.from # m.to /\ phase[m.to] \in Hearing
                        /\ phase[m.from] # "off",
         wire' = wire \cup new, UNCHANGED <<phase, beating, timer, known, inPhase>>
  PROVE  Moves
<1>1. WireMoves
  BY DEF WireMoves, DiscTypes
<1>2. PhaseMoves /\ KnownMoves /\ TimerMoves
  BY DEF PhaseMoves, KnownMoves, TimerMoves, DiscTypes
<1> QED
  BY <1>1, <1>2 DEF Moves

\* Prune keeps what has not expired, Update changes one entry.
LEMMA PruneKeeps ==
  ASSUME NEW k, NEW b
  PROVE  /\ b \in DOMAIN Prune(k) <=> b \in DOMAIN k /\ k[b] >= 0
         /\ b \in DOMAIN Prune(k) => Prune(k)[b] = k[b]
BY DEF Prune, Restrict

LEMMA UpdateKeeps ==
  ASSUME NEW k, NEW b, NEW c
  PROVE  /\ c \in DOMAIN Update(k, b) <=> c \in DOMAIN k \/ c = b
         /\ c \in DOMAIN Update(k, b) => Update(k, b)[c] = IF c = b THEN Ttl ELSE k[c]
BY DEF Update

LEMMA NothingKnown == DOMAIN <<>> = {}
OBVIOUS

\* Every step but Tick keeps within Moves.
LEMMA OthersMove ==
  ASSUME DiscTypes, DiscNext \/ UNCHANGED discVars, ~Tick
  PROVE  Moves
<1>1. ASSUME NEW a \in Peers, Start(a) PROVE Moves
  <2>1. phase[a] = "off" /\ phase' = [phase EXCEPT ![a] = "up"]
    BY <1>1 DEF Start
  <2>2. known' = [known EXCEPT ![a] = <<>>] /\ inPhase' = [inPhase EXCEPT ![a] = 0] /\ wire' = wire
    BY <1>1 DEF Start
  <2>3. beating' \subseteq beating \cup {a} /\ \A b \in Peers \ {a} : timer'[b] = timer[b]
    BY <1>1 DEF Start, DiscTypes
  <2>4. DOMAIN known'[a] = {} /\ \A b \in Peers \ {a} : known'[b] = known[b]
    BY <2>2, NothingKnown DEF DiscTypes
  <2>5. phase'[a] = "up" /\ \A b \in Peers \ {a} : phase'[b] = phase[b] /\ inPhase'[b] = inPhase[b]
    BY <2>1, <2>2 DEF DiscTypes
  <2>6. \A m \in wire : m.to \in Peers \ {a} /\ m.from \in Peers
    BY <2>1 DEF DiscTypes, Hearing, Packet
  <2>7. WireMoves
    BY <2>2, <2>5, <2>6 DEF WireMoves, DiscTypes
  <2>8. PhaseMoves
    BY <2>5 DEF PhaseMoves
  <2>9. KnownMoves
    BY <2>4, <2>5 DEF KnownMoves, DiscTypes
  <2>10. TimerMoves
    BY <2>3, <2>4, <2>5 DEF TimerMoves, DiscTypes
  <2> QED
    BY <2>7, <2>8, <2>9, <2>10 DEF Moves
<1>2. ASSUME NEW a \in Peers, JoinChannel(a) PROVE Moves
  <2>1. /\ phase[a] = "up" /\ phase'[a] = "member"
        /\ \A b \in Peers \ {a} : phase'[b] = phase[b]
        /\ UNCHANGED <<first, beating, timer, known, wire, inPhase>>
    BY <1>2 DEF JoinChannel, DiscTypes
  <2> QED
    BY <2>1 DEF Moves, WireMoves, PhaseMoves, KnownMoves, TimerMoves, DiscTypes, Packet, Hearing
<1>3. ASSUME NEW a \in Peers, JoinEcho(a) PROVE Moves
  <2>1. /\ phase[a] = "member" /\ phase'[a] = "joined" /\ inPhase'[a] = 0
        /\ \A b \in Peers \ {a} : phase'[b] = phase[b] /\ inPhase'[b] = inPhase[b]
        /\ UNCHANGED <<first, beating, timer, known, wire>>
    BY <1>3 DEF JoinEcho, DiscTypes
  <2> QED
    BY <2>1 DEF Moves, WireMoves, PhaseMoves, KnownMoves, TimerMoves, DiscTypes, Packet, Hearing
<1>4. ASSUME NEW a \in Peers, FirstAnnouncement(a) \/ AnnounceCapabilities(a) PROVE Moves
  <2>1. /\ wire' = wire \cup announceCapabilities(a)
        /\ UNCHANGED <<phase, beating, timer, known, inPhase>>
    BY <1>4 DEF FirstAnnouncement, AnnounceCapabilities
  <2> QED
    BY <2>1, AnnouncementsAre, SendingMoves
<1>5. ASSUME NEW a \in Peers, Heartbeat(a) PROVE Moves
  <2>1. /\ wire' = wire \cup announceCapabilities(a) /\ UNCHANGED <<phase, beating, inPhase>>
        /\ known' = [known EXCEPT ![a] = Prune(known[a])]
        /\ timer' = [timer EXCEPT ![a] = Interval]
    BY <1>5 DEF Heartbeat
  <2>2. known'[a] = Prune(known[a]) /\ \A b \in Peers \ {a} : known'[b] = known[b]
    BY <2>1 DEF DiscTypes
  <2>3. timer'[a] = Interval /\ \A b \in Peers \ {a} : timer'[b] = timer[b]
    BY <2>1 DEF DiscTypes
  <2>4. WireMoves
    BY <2>1, AnnouncementsAre DEF WireMoves, DiscTypes
  <2>5. PhaseMoves
    BY <2>1 DEF PhaseMoves
  <2>6. KnownMoves
    BY <2>2, PruneKeeps DEF KnownMoves, DiscTypes
  <2>7. \A b \in DOMAIN known'[a] : known'[a][b] >= 0
    BY <2>2, PruneKeeps
  <2>8. \A c \in Peers : c # a /\ phase'[c] = "joined" /\ phase'[a] = "joined" /\ Expertise[a] # {} =>
          \E m \in wire' : m.kind = "CAPABILITIES" /\ m.from = a /\ m.to = c /\ m.age = 0
    BY <2>1, AnnouncementReaches
  <2>9. TimerMoves
    BY <2>1, <2>3, <2>7, <2>8 DEF TimerMoves, DiscTypes
  <2> QED
    BY <2>4, <2>5, <2>6, <2>9 DEF Moves
<1>6. ASSUME NEW a \in Peers, Shutdown(a) PROVE Moves
  <2>1. /\ phase[a] = "joined" /\ phase'[a] = "stopping"
        /\ \A b \in Peers \ {a} : phase'[b] = phase[b] /\ inPhase'[b] = inPhase[b]
        /\ UNCHANGED <<first, beating, timer, known, wire>>
    BY <1>6 DEF Shutdown, DiscTypes
  <2> QED
    BY <2>1 DEF Moves, WireMoves, PhaseMoves, KnownMoves, TimerMoves, DiscTypes, Packet, Hearing
<1>7. ASSUME NEW a \in Peers, HeartbeatStops(a) PROVE Moves
  <2>1. beating' \subseteq beating /\ UNCHANGED <<phase, first, timer, known, wire, inPhase>>
    BY <1>7 DEF HeartbeatStops
  <2> QED
    BY <2>1 DEF Moves, WireMoves, PhaseMoves, KnownMoves, TimerMoves, DiscTypes, Packet
<1>8. ASSUME NEW a \in Peers, Leave(a) PROVE Moves
  <2>1. /\ phase'[a] = "off" /\ inPhase'[a] = 0
        /\ \A b \in Peers \ {a} : phase'[b] = phase[b] /\ inPhase'[b] = inPhase[b]
    BY <1>8 DEF Leave, DiscTypes
  <2>2. /\ DOMAIN known'[a] = {}
        /\ \A b \in Peers \ {a} : known'[b] = known[b] /\ timer'[b] = timer[b]
    BY <1>8, NothingKnown DEF Leave, DiscTypes
  <2>3. wire' = {m \in wire : m.to # a} /\ beating' = beating \ {a}
    BY <1>8 DEF Leave
  <2>4. WireMoves
    BY <2>1, <2>3 DEF WireMoves, DiscTypes, Packet
  <2>5. PhaseMoves /\ KnownMoves
    BY <2>1, <2>2 DEF PhaseMoves, KnownMoves, DiscTypes
  <2>6. TimerMoves
    BY <2>1, <2>2, <2>3 DEF TimerMoves, DiscTypes
  <2> QED
    BY <2>4, <2>5, <2>6 DEF Moves
<1>9. ASSUME NEW a \in Peers, NEW tag \in Tags, Discover(a, tag) PROVE Moves
  <2>1. /\ wire' = wire \cup Sends(a, "DISCOVER", {tag}) /\ phase[a] = "joined"
        /\ UNCHANGED <<phase, beating, timer, known, inPhase>>
    BY <1>9 DEF Discover
  <2>2. {tag} \in SUBSET Tags
    OBVIOUS
  <2>3. \A m \in Sends(a, "DISCOVER", {tag}) :
          m \in Packet /\ m.from # m.to /\ phase[m.to] \in Hearing /\ phase[m.from] # "off"
    BY <2>1, <2>2, SendsAreMessages
  <2> QED
    BY <2>1, <2>3, SendingMoves
<1>10. ASSUME NEW m \in wire, Hears(m) PROVE Moves
  <2>1. UNCHANGED <<phase, first, beating, timer, inPhase>>
    BY <1>10 DEF Hears
  <2>2. m.to \in Peers /\ m.from \in Peers /\ m.from # m.to /\ phase[m.to] \in Hearing
    BY DEF DiscTypes, Packet
  <2>3. CASE handleCapabilities(m)
    <3>1. wire' = wire \ {m} /\ known' = [known EXCEPT ![m.to] = Update(known[m.to], m.from)]
      BY <2>3 DEF handleCapabilities
    <3>2. /\ known'[m.to] = Update(known[m.to], m.from)
          /\ \A a \in Peers : a # m.to => known'[a] = known[a]
      BY <2>2, <3>1 DEF DiscTypes
    <3>3. /\ m.from \in DOMAIN known'[m.to] /\ known'[m.to][m.from] = Ttl
          /\ \A b : b # m.from => /\ b \in DOMAIN known'[m.to] <=> b \in DOMAIN known[m.to]
                                  /\ b \in DOMAIN known[m.to] => known'[m.to][b] = known[m.to][b]
      BY <3>2, UpdateKeeps
    <3>4. Ttl \in Nat /\ Ttl >= 0
      BY DiscoveryConstants
    <3>5. WireMoves
      BY <2>1, <3>1, <3>3 DEF WireMoves, DiscTypes
    <3>6. PhaseMoves
      BY <2>1 DEF PhaseMoves
    <3>7. KnownMoves
      BY <2>1, <3>2, <3>3, <3>4 DEF KnownMoves, DiscTypes
    <3>8. TimerMoves
      BY <2>1 DEF TimerMoves, DiscTypes
    <3> QED
      BY <3>5, <3>6, <3>7, <3>8 DEF Moves
  <2>4. CASE handleDiscover(m)
    <3> DEFINE new == IF m.expertise \subseteq Expertise[m.to]
                      THEN Sends(m.to, "CAPABILITIES", Expertise[m.to]) ELSE {}
    <3>1. m.kind = "DISCOVER" /\ wire' = (wire \ {m}) \cup new /\ known' = known
      BY <2>4 DEF handleDiscover
    <3>2. Expertise[m.to] \in SUBSET Tags
      BY <2>2, DiscoveryConstants
    <3>3. phase[m.to] # "off"
      BY <2>2 DEF Hearing
    <3>4. \A n \in new :
            n \in Packet /\ n.from # n.to /\ phase[n.to] \in Hearing /\ phase[n.from] # "off"
      BY <2>2, <3>2, <3>3, SendsAreMessages
    <3> HIDE DEF new
    <3>5. WireMoves
      BY <2>1, <3>1, <3>4 DEF WireMoves, DiscTypes
    <3>6. PhaseMoves /\ KnownMoves /\ TimerMoves
      BY <2>1, <3>1 DEF PhaseMoves, KnownMoves, TimerMoves, DiscTypes
    <3> QED
      BY <3>5, <3>6 DEF Moves
  <2> QED
    BY <1>10, <2>3, <2>4 DEF Hears
<1>11. ASSUME UNCHANGED discVars PROVE Moves
  BY <1>11 DEF discVars, Moves, WireMoves, PhaseMoves, KnownMoves, TimerMoves, DiscTypes
<1> QED
  BY <1>1, <1>2, <1>3, <1>4, <1>5, <1>6, <1>7, <1>8, <1>9, <1>10, <1>11 DEF DiscNext

-----------------------------------------------------------------------------
\* What Tick does: the clocks of peer a, its entries and the messages advance by one.
LEMMA TickOfPeer ==
  ASSUME DiscTypes, Tick, NEW a \in Peers
  PROVE  /\ inPhase'[a] \in Nat /\ inPhase[a] <= inPhase'[a] /\ inPhase'[a] <= inPhase[a] + 1
         /\ a \in beating => timer'[a] = timer[a] - 1 /\ timer[a] > 0
         /\ a \notin beating => timer'[a] = timer[a]
         /\ DOMAIN known'[a] = DOMAIN known[a]
         /\ \A b \in DOMAIN known[a] :
              known'[a][b] = IF known[a][b] < 0 THEN -1 ELSE known[a][b] - 1
<1>1. \/ inPhase'[a] = inPhase[a] + 1
      \/ inPhase'[a] = inPhase[a]
  BY DEF Tick
<1>2. timer'[a] = IF a \in beating THEN timer[a] - 1 ELSE timer[a]
  BY DEF Tick
<1>3. known'[a] = [b \in DOMAIN known[a] |-> IF known[a][b] < 0 THEN -1 ELSE known[a][b] - 1]
  BY DEF Tick
<1> QED
  BY <1>1, <1>2, <1>3 DEF Tick, DiscTypes

LEMMA TickOfWire ==
  ASSUME DiscTypes, Tick
  PROVE  /\ \A n \in wire' : \E m \in wire : n = [m EXCEPT !.age = m.age + 1]
         /\ \A m \in wire : [m EXCEPT !.age = m.age + 1] \in wire'
         /\ \A m \in wire : m.age \in Nat /\ m.age + 1 <= Delay
<1>1. wire' = {[m EXCEPT !.age = m.age + 1] : m \in wire}
  BY DEF Tick
<1>2. \A m \in wire : m.age \in 0..Delay /\ m.age < Delay
  BY DEF Tick, DiscTypes, Packet
<1>3. \A m \in wire : m.age \in Nat /\ m.age + 1 <= Delay
  BY <1>2, DiscoveryConstants
<1> QED
  BY <1>1, <1>3, Zenon

\* A message that is one unit older.
LEMMA Older ==
  ASSUME NEW m \in Packet, m.age + 1 <= Delay, NEW n, n = [m EXCEPT !.age = m.age + 1]
  PROVE  /\ n \in Packet /\ n.age = m.age + 1
         /\ n.from = m.from /\ n.to = m.to /\ n.kind = m.kind
BY DiscoveryConstants DEF Packet

LEMMA TypesInit == DiscInit => DiscTypes
<1> SUFFICES ASSUME DiscInit PROVE DiscTypes
  OBVIOUS
<1>1. \A a \in Peers : DOMAIN known[a] = {}
  BY NothingKnown DEF DiscInit
<1> QED
  BY <1>1, IntervalIsPositive DEF DiscInit, DiscTypes

LEMMA TypesStep ==
  ASSUME DiscTypes, [DiscNext]_discVars
  PROVE  DiscTypes'
<1>1. CASE Tick
  <2>1. phase' = phase /\ first' = first /\ beating' = beating
    BY <1>1 DEF Tick
  <2>2. timer' \in [Peers -> 0..Interval]
    <3>1. timer' = [a \in Peers |-> timer'[a]]
      BY <1>1 DEF Tick
    <3>2. \A a \in Peers : timer'[a] \in 0..Interval
      BY <1>1, TickOfPeer, IntervalIsPositive DEF DiscTypes
    <3> QED
      BY <3>1, <3>2
  <2>3. inPhase' \in [Peers -> Nat]
    <3>1. inPhase' = [a \in Peers |-> inPhase'[a]]
      BY <1>1 DEF Tick
    <3>2. \A a \in Peers : inPhase'[a] \in Nat
      BY <1>1, TickOfPeer
    <3> QED
      BY <3>1, <3>2
  <2>4. DOMAIN known' = Peers
    BY <1>1 DEF Tick
  <2>5. \A a \in Peers : \A b \in DOMAIN known'[a] : known'[a][b] \in (-1)..Ttl
    BY <1>1, TickOfPeer, DiscoveryConstants DEF DiscTypes
  <2>6. \A n \in wire' : n \in Packet /\ n.from # n.to /\ phase'[n.to] \in Hearing
    <3> TAKE n \in wire'
    <3>1. PICK m \in wire : n = [m EXCEPT !.age = m.age + 1]
      BY <1>1, TickOfWire
    <3>2. m \in Packet /\ m.from # m.to /\ phase[m.to] \in Hearing /\ m.age + 1 <= Delay
      BY <1>1, TickOfWire DEF DiscTypes
    <3> QED
      BY <2>1, <3>1, <3>2, Older
  <2> QED
    BY <2>1, <2>2, <2>3, <2>4, <2>5, <2>6 DEF DiscTypes
<1>2. CASE ~Tick
  <2>1. Moves
    BY <1>2, OthersMove
  <2>2. \A m \in wire' : m \in Packet /\ m.from # m.to /\ phase'[m.to] \in Hearing
    BY <2>1 DEF Moves, WireMoves
  <2>3. \A a \in Peers : \A b \in DOMAIN known'[a] : known'[a][b] \in (-1)..Ttl
    BY <2>1, DiscoveryConstants DEF Moves, KnownMoves, DiscTypes
  <2>4. DOMAIN known' = Peers
    BY <1>2 DEF DiscNext, discVars, Start, JoinChannel, JoinEcho, FirstAnnouncement, Heartbeat,
       AnnounceCapabilities, Shutdown, HeartbeatStops, Leave, Discover, Hears,
       handleCapabilities, handleDiscover, DiscTypes
  <2>5. /\ phase' \in [Peers -> {"off", "up"} \cup Hearing] /\ inPhase' \in [Peers -> Nat]
        /\ timer' \in [Peers -> 0..Interval]
        /\ first' \subseteq beating' /\ beating' \subseteq Peers
    <3>1. Interval \in 0..Interval /\ 0 \in 0..Interval
      BY IntervalIsPositive
    <3>2. ASSUME NEW a \in Peers, Start(a) PROVE <2>5!:
      BY <3>1, <3>2 DEF Start, DiscTypes
    <3>3. ASSUME NEW a \in Peers, Leave(a) PROVE <2>5!:
      BY <3>1, <3>3 DEF Leave, DiscTypes
    <3>4. ASSUME NEW a \in Peers, JoinChannel(a) \/ JoinEcho(a) \/ Shutdown(a) PROVE <2>5!:
      BY <3>4 DEF JoinChannel, JoinEcho, Shutdown, DiscTypes, Hearing
    <3>5. ASSUME NEW a \in Peers,
                 \/ FirstAnnouncement(a) \/ AnnounceCapabilities(a) \/ HeartbeatStops(a)
                 \/ \E tag \in Tags : Discover(a, tag)
          PROVE  <2>5!:
      BY <3>5 DEF FirstAnnouncement, AnnounceCapabilities, HeartbeatStops, Discover, DiscTypes
    <3>6. ASSUME NEW a \in Peers, Heartbeat(a) PROVE <2>5!:
      BY <3>1, <3>6 DEF Heartbeat, DiscTypes
    <3>7. ASSUME NEW m \in wire, Hears(m) PROVE <2>5!:
      BY <3>7 DEF Hears, DiscTypes
    <3>8. ASSUME UNCHANGED discVars PROVE <2>5!:
      BY <3>8 DEF discVars, DiscTypes
    <3> QED
      BY <1>2, <3>2, <3>3, <3>4, <3>5, <3>6, <3>7, <3>8 DEF DiscNext
  <2> QED
    BY <2>2, <2>3, <2>4, <2>5 DEF DiscTypes
<1> QED
  BY <1>1, <1>2

-----------------------------------------------------------------------------
\* What an agent that is off has sent is at least as old as its end; so what is kept
\* of it expires in time, and the heartbeat that follows prunes it.
WireFades ==
  \A b \in Peers : phase[b] = "off" => \A m \in wire : m.from = b => inPhase[b] <= m.age

EntriesExpire ==
  \A a, b \in Peers : phase[b] = "off" /\ b \in DOMAIN known[a] =>
    known[a][b] < 0 \/ known[a][b] + inPhase[b] <= Ttl + Delay

EntriesGo ==
  \A a, b \in Peers :
    phase[b] = "off" /\ b \in DOMAIN known[a] /\ a \in beating /\ inPhase[b] > Ttl + Delay =>
      inPhase[b] + timer[a] <= Ttl + Delay + Interval

GoneInv == DiscTypes /\ WireFades /\ EntriesExpire /\ EntriesGo

LEMMA GoneStep ==
  ASSUME GoneInv, [DiscNext]_discVars
  PROVE  GoneInv'
<1> USE DEF GoneInv
<1>1. DiscTypes'
  BY TypesStep
<1>2. CASE Tick
  <2>1. phase' = phase /\ beating' = beating
    BY <1>2 DEF Tick
  <2>2. WireFades'
    <3> SUFFICES ASSUME NEW b \in Peers, phase'[b] = "off", NEW n \in wire', n.from = b
                 PROVE  inPhase'[b] <= n.age
      BY DEF WireFades
    <3>1. PICK m \in wire : n = [m EXCEPT !.age = m.age + 1]
      BY <1>2, TickOfWire
    <3>2. m \in Packet /\ m.age \in Nat /\ n.age = m.age + 1 /\ m.from = b
      BY <1>2, <3>1, TickOfWire, Older DEF DiscTypes
    <3> QED
      BY <1>2, <2>1, <3>2, TickOfPeer DEF WireFades, DiscTypes
  <2>3. EntriesExpire'
    BY <1>2, <2>1, TickOfPeer, DiscoveryConstants DEF EntriesExpire, DiscTypes
  <2>4. EntriesGo'
    <3> SUFFICES ASSUME NEW a \in Peers, NEW b \in Peers, phase'[b] = "off",
                        b \in DOMAIN known'[a], a \in beating', inPhase'[b] > Ttl + Delay
                 PROVE  inPhase'[b] + timer'[a] <= Ttl + Delay + Interval
      BY DEF EntriesGo
    <3>1. /\ phase[b] = "off" /\ b \in DOMAIN known[a] /\ a \in beating
          /\ timer'[a] = timer[a] - 1 /\ inPhase'[b] <= inPhase[b] + 1
          /\ timer[a] \in 0..Interval /\ inPhase[b] \in Nat /\ inPhase'[b] \in Nat
      BY <1>2, <2>1, TickOfPeer DEF DiscTypes
    <3>2. inPhase[b] > Ttl + Delay => inPhase[b] + timer[a] <= Ttl + Delay + Interval
      BY <3>1 DEF EntriesGo
    <3> QED
      BY <3>1, <3>2, IntervalIsPositive, DiscoveryConstants
  <2> QED
    BY <1>1, <2>2, <2>3, <2>4
<1>3. CASE ~Tick
  <2>1. Moves
    BY <1>3, OthersMove
  <2>2. \A b \in Peers : phase'[b] = "off" /\ inPhase'[b] # 0 =>
          phase[b] = "off" /\ inPhase'[b] = inPhase[b]
    BY <2>1 DEF Moves, PhaseMoves
  <2>3. WireFades'
    <3> SUFFICES ASSUME NEW b \in Peers, phase'[b] = "off", NEW m \in wire', m.from = b
                 PROVE  inPhase'[b] <= m.age
      BY DEF WireFades
    <3>1. m \in wire /\ m.age \in Nat
      BY <2>1, DiscoveryConstants DEF Moves, WireMoves, Packet
    <3> QED
      BY <2>2, <3>1 DEF WireFades
  <2>4. \A b \in Peers : phase[b] = "off" => \A m \in wire : m.from = b => inPhase[b] <= Delay
    BY DiscoveryConstants DEF WireFades, DiscTypes, Packet
  <2>5. EntriesExpire'
    <3> SUFFICES ASSUME NEW a \in Peers, NEW b \in Peers, phase'[b] = "off", b \in DOMAIN known'[a]
                 PROVE  known'[a][b] < 0 \/ known'[a][b] + inPhase'[b] <= Ttl + Delay
      BY DEF EntriesExpire
    <3>1. known'[a][b] \in (-1)..Ttl /\ inPhase'[b] \in Nat
      BY <1>1 DEF DiscTypes
    <3>2. CASE inPhase'[b] = 0
      BY <3>1, <3>2, DiscoveryConstants
    <3>3. CASE inPhase'[b] # 0
      <4>1. phase[b] = "off" /\ inPhase'[b] = inPhase[b]
        BY <2>2, <3>3
      <4>2. CASE b \in DOMAIN known[a] /\ known'[a][b] = known[a][b]
        BY <4>1, <4>2 DEF EntriesExpire
      <4>3. CASE known'[a][b] = Ttl /\ \E m \in wire : m.from = b
        BY <2>4, <3>1, <4>1, <4>3, DiscoveryConstants
      <4> QED
        BY <2>1, <4>2, <4>3 DEF Moves, KnownMoves
    <3> QED
      BY <3>2, <3>3
  <2>6. EntriesGo'
    <3> SUFFICES ASSUME NEW a \in Peers, NEW b \in Peers, phase'[b] = "off",
                        b \in DOMAIN known'[a], a \in beating', inPhase'[b] > Ttl + Delay
                 PROVE  inPhase'[b] + timer'[a] <= Ttl + Delay + Interval
      BY DEF EntriesGo
    <3>1. phase[b] = "off" /\ inPhase'[b] = inPhase[b]
      BY <2>2, DiscoveryConstants
    <3>2. b \in DOMAIN known[a] /\ known'[a][b] = known[a][b]
      BY <2>1, <2>4, <3>1, DiscoveryConstants DEF Moves, KnownMoves, DiscTypes
    <3>3. known'[a][b] < 0
      BY <3>1, <3>2, DiscoveryConstants DEF EntriesExpire, DiscTypes
    <3>4. a \in beating /\ timer'[a] = timer[a]
      BY <2>1, <3>3, <1>1, DiscoveryConstants DEF Moves, TimerMoves, DiscTypes
    <3> QED
      BY <3>1, <3>2, <3>4 DEF EntriesGo
  <2> QED
    BY <1>1, <2>3, <2>5, <2>6
<1> QED
  BY <1>2, <1>3

\* An agent that is gone is no longer listed once its last message's ttl is over, and
\* no longer kept an interval later by an agent whose heartbeat runs.
THEOREM GoneAgentsAreForgotten == DiscSpec => []GoneAreForgotten
<1>1. DiscInit => GoneInv
  <2> SUFFICES ASSUME DiscInit PROVE GoneInv
    OBVIOUS
  <2>1. \A a \in Peers : DOMAIN known[a] = {}
    BY NothingKnown DEF DiscInit
  <2> QED
    BY <2>1, TypesInit DEF DiscInit, GoneInv, WireFades, EntriesExpire, EntriesGo
<1>2. GoneInv /\ [DiscNext]_discVars => GoneInv'
  BY GoneStep
<1>3. GoneInv => GoneAreForgotten
  <2> SUFFICES ASSUME GoneInv, NEW a \in Peers, NEW b \in Peers, phase[b] = "off"
               PROVE  /\ inPhase[b] > Ttl + Delay => b \notin ListActive(a)
                      /\ inPhase[b] > Ttl + Delay + Interval /\ a \in beating => b \notin DOMAIN known[a]
    BY DEF GoneAreForgotten
  <2>1. b \in ListActive(a) => b \in DOMAIN known[a] /\ known[a][b] >= 0
    BY DEF ListActive, Unexpired, Restrict
  <2>2. \A c \in DOMAIN known[a] : known[a][c] \in (-1)..Ttl
    BY DEF GoneInv, DiscTypes
  <2>3. inPhase[b] \in Nat /\ timer[a] \in 0..Interval
    BY DEF GoneInv, DiscTypes
  <2>4. inPhase[b] > Ttl + Delay => b \notin ListActive(a)
    BY <2>1, <2>2, <2>3, DiscoveryConstants DEF GoneInv, EntriesExpire
  <2>5. inPhase[b] > Ttl + Delay + Interval /\ a \in beating => b \notin DOMAIN known[a]
    BY <2>3, DiscoveryConstants, IntervalIsPositive DEF GoneInv, EntriesGo
  <2> QED
    BY <2>4, <2>5
<1> QED
  BY <1>1, <1>2, <1>3, PTL DEF DiscSpec

-----------------------------------------------------------------------------
\* The heartbeat of an agent with capabilities runs while it is joined, and has made
\* its first announcement before time passes.
HeartBeats ==
  \A a \in Peers :
    /\ phase[a] \in {"up", "member", "joined"} /\ Expertise[a] # {} => a \in beating
    /\ phase[a] = "joined" /\ inPhase[a] > 0 => a \notin first

\* An announcement of b that is between lo and hi old is under way to a, or a has an
\* entry of b made of one that is no older than hi.
Fresh(a, b, lo, hi) ==
  \/ \E m \in wire : /\ m.kind = "CAPABILITIES" /\ m.from = b /\ m.to = a
                     /\ lo <= m.age /\ m.age <= hi
  \/ b \in DOMAIN known[a] /\ known[a][b] >= Ttl - hi

\* a and b have both been joined for more than t, and b has something to announce.
Together(a, b, t) ==
  /\ a # b /\ Expertise[b] # {}
  /\ phase[a] = "joined" /\ phase[b] = "joined" /\ inPhase[a] > t /\ inPhase[b] > t

\* The announcement of b's last tick, u ago, was made to a.
LastBeat ==
  \A a, b \in Peers, u \in 0..Interval :
    timer[b] + u = Interval /\ Together(a, b, u) => Fresh(a, b, u, u)

\* Among the announcements that are more than x old, there is one that is at most an
\* interval older than x: the one that the last announcement is about to replace.
EarlierBeat ==
  \A a, b \in Peers, x \in 0..Delay :
    Together(a, b, x + Interval) => Fresh(a, b, x + 1, x + Interval)

JoinInv == DiscTypes /\ HeartBeats /\ LastBeat /\ EarlierBeat

LEMMA HeartBeatsStep ==
  ASSUME DiscTypes, HeartBeats, [DiscNext]_discVars
  PROVE  HeartBeats'
<1>1. CASE Tick
  BY <1>1 DEF Tick, HeartBeats
<1>2. ASSUME NEW a \in Peers, Start(a) PROVE HeartBeats'
  <2>1. /\ phase'[a] = "up" /\ (Expertise[a] # {} => a \in beating')
        /\ beating \subseteq beating' /\ first' \subseteq first \cup {a}
        /\ \A b \in Peers \ {a} : phase'[b] = phase[b] /\ inPhase'[b] = inPhase[b]
    BY <1>2 DEF Start, DiscTypes
  <2> QED
    BY <2>1 DEF HeartBeats
<1>3. ASSUME NEW a \in Peers, JoinChannel(a) PROVE HeartBeats'
  <2>1. /\ phase[a] = "up" /\ phase'[a] = "member"
        /\ \A b \in Peers \ {a} : phase'[b] = phase[b]
        /\ UNCHANGED <<first, beating, inPhase>>
    BY <1>3 DEF JoinChannel, DiscTypes
  <2> QED
    BY <2>1 DEF HeartBeats
<1>4. ASSUME NEW a \in Peers, JoinEcho(a) PROVE HeartBeats'
  <2>1. /\ phase[a] = "member" /\ phase'[a] = "joined" /\ inPhase'[a] = 0
        /\ \A b \in Peers \ {a} : phase'[b] = phase[b] /\ inPhase'[b] = inPhase[b]
        /\ UNCHANGED <<first, beating>>
    BY <1>4 DEF JoinEcho, DiscTypes
  <2> QED
    BY <2>1 DEF HeartBeats
<1>5. ASSUME NEW a \in Peers, Shutdown(a) PROVE HeartBeats'
  <2>1. /\ phase'[a] = "stopping" /\ UNCHANGED <<first, beating>>
        /\ \A b \in Peers \ {a} : phase'[b] = phase[b] /\ inPhase'[b] = inPhase[b]
    BY <1>5 DEF Shutdown, DiscTypes
  <2> QED
    BY <2>1 DEF HeartBeats
<1>6. ASSUME NEW a \in Peers, HeartbeatStops(a) PROVE HeartBeats'
  BY <1>6 DEF HeartbeatStops, HeartBeats
<1>7. ASSUME NEW a \in Peers, Leave(a) PROVE HeartBeats'
  <2>1. /\ phase'[a] = "off" /\ first' = first \ {a} /\ beating' = beating \ {a}
        /\ \A b \in Peers \ {a} : phase'[b] = phase[b] /\ inPhase'[b] = inPhase[b]
    BY <1>7 DEF Leave, DiscTypes
  <2> QED
    BY <2>1 DEF HeartBeats
<1>8. CASE /\ UNCHANGED <<phase, beating, inPhase>> /\ first' \subseteq first
  BY <1>8 DEF HeartBeats
<1> QED
  BY <1>1, <1>2, <1>3, <1>4, <1>5, <1>6, <1>7, <1>8 DEF DiscNext, discVars,
     FirstAnnouncement, Heartbeat, AnnounceCapabilities, Discover, Hears

\* What is fresh ages by one with every Tick.
LEMMA FreshAges ==
  ASSUME DiscTypes, Tick, NEW a \in Peers, NEW b \in Peers, NEW lo \in Nat, NEW hi \in Nat,
         Fresh(a, b, lo, hi)
  PROVE  Fresh(a, b, lo + 1, hi + 1)'
<1>1. CASE \E m \in wire : /\ m.kind = "CAPABILITIES" /\ m.from = b /\ m.to = a
                           /\ lo <= m.age /\ m.age <= hi
  <2>1. PICK m \in wire : /\ m.kind = "CAPABILITIES" /\ m.from = b /\ m.to = a
                          /\ lo <= m.age /\ m.age <= hi
    BY <1>1
  <2>2. PICK n : n = [m EXCEPT !.age = m.age + 1]
    OBVIOUS
  <2>3. n \in wire' /\ m \in Packet /\ m.age \in Nat /\ m.age + 1 <= Delay
    BY <2>2, TickOfWire DEF DiscTypes
  <2>4. n.age = m.age + 1 /\ n.from = m.from /\ n.to = m.to /\ n.kind = m.kind
    BY <2>2, <2>3, Older
  <2>5. lo + 1 <= n.age /\ n.age <= hi + 1
    BY <2>1, <2>3, <2>4
  <2> QED
    BY <2>1, <2>3, <2>4, <2>5 DEF Fresh
<1>2. CASE b \in DOMAIN known[a] /\ known[a][b] >= Ttl - hi
  <2>1. known[a][b] \in (-1)..Ttl
    BY <1>2 DEF DiscTypes
  <2>2. /\ b \in DOMAIN known'[a]
        /\ known'[a][b] = IF known[a][b] < 0 THEN -1 ELSE known[a][b] - 1
    BY <1>2, TickOfPeer
  <2>3. known'[a][b] >= Ttl - (hi + 1)
    BY <1>2, <2>1, <2>2, DiscoveryConstants
  <2> QED
    BY <2>2, <2>3 DEF Fresh
<1> QED
  BY <1>1, <1>2 DEF Fresh

\* A joined agent keeps what is fresh until it expires.
LEMMA FreshStays ==
  ASSUME DiscTypes, Moves, NEW a \in Peers, NEW b \in Peers, NEW lo \in Nat, NEW hi \in Nat,
         hi <= Ttl, phase'[a] = "joined", Fresh(a, b, lo, hi)
  PROVE  Fresh(a, b, lo, hi)'
<1>1. CASE \E m \in wire : /\ m.kind = "CAPABILITIES" /\ m.from = b /\ m.to = a
                           /\ lo <= m.age /\ m.age <= hi
  <2>1. PICK m \in wire : /\ m.kind = "CAPABILITIES" /\ m.from = b /\ m.to = a
                          /\ lo <= m.age /\ m.age <= hi
    BY <1>1
  <2>2. \/ m \in wire'
        \/ b \in DOMAIN known'[a] /\ known'[a][b] = Ttl
    BY <2>1 DEF Moves, WireMoves
  <2>3. Ttl >= Ttl - hi
    BY DiscoveryConstants
  <2> QED
    BY <2>1, <2>2, <2>3 DEF Fresh
<1>2. CASE b \in DOMAIN known[a] /\ known[a][b] >= Ttl - hi
  <2>1. known[a][b] \in (-1)..Ttl /\ known[a][b] >= 0
    BY <1>2, DiscoveryConstants DEF DiscTypes
  <2>2. /\ b \in DOMAIN known'[a] /\ known'[a][b] >= known[a][b]
        /\ known'[a][b] \in Int
    BY <1>2, <2>1, DiscoveryConstants DEF Moves, KnownMoves, DiscTypes
  <2>3. known'[a][b] >= Ttl - hi
    BY <1>2, <2>1, <2>2, DiscoveryConstants
  <2> QED
    BY <2>2, <2>3 DEF Fresh
<1> QED
  BY <1>1, <1>2 DEF Fresh

LEMMA JoinTick ==
  ASSUME JoinInv, Tick, DiscTypes'
  PROVE  LastBeat' /\ EarlierBeat'
<1> USE DEF JoinInv
<1>1. phase' = phase
  BY DEF Tick
<1>2. ASSUME NEW a \in Peers, NEW b \in Peers, NEW t \in Nat, Together(a, b, t)'
      PROVE  /\ b \in beating /\ timer'[b] = timer[b] - 1 /\ timer[b] \in 1..Interval
             /\ inPhase[a] \in Nat /\ inPhase[b] \in Nat
             /\ inPhase[a] + 1 > t /\ inPhase[b] + 1 > t
             /\ a # b /\ Expertise[b] # {} /\ phase[a] = "joined" /\ phase[b] = "joined"
  <2>1. /\ a # b /\ Expertise[b] # {} /\ phase[a] = "joined" /\ phase[b] = "joined"
        /\ inPhase'[a] > t /\ inPhase'[b] > t
    BY <1>1, <1>2 DEF Together
  <2>2. b \in beating
    BY <2>1 DEF HeartBeats
  <2> QED
    BY <2>1, <2>2, TickOfPeer, IntervalIsPositive DEF DiscTypes
<1>3. LastBeat'
  <2> SUFFICES ASSUME NEW a \in Peers, NEW b \in Peers, NEW u \in 0..Interval,
                      timer'[b] + u = Interval, Together(a, b, u)'
               PROVE  Fresh(a, b, u, u)'
    BY DEF LastBeat
  <2>1. u \in Nat
    BY IntervalIsPositive
  <2>2. PICK v \in 0..Interval : u = v + 1 /\ timer[b] + v = Interval
    <3>1. u - 1 \in 0..Interval /\ u = (u - 1) + 1 /\ timer[b] + (u - 1) = Interval
      BY <1>2, <2>1, IntervalIsPositive
    <3> QED
      BY <3>1
  <2>3. v \in Nat
    BY IntervalIsPositive
  <2>4. Together(a, b, v)
    BY <1>2, <2>1, <2>2, <2>3 DEF Together
  <2>5. Fresh(a, b, v, v)
    BY <2>2, <2>4 DEF LastBeat
  <2>6. Fresh(a, b, v + 1, v + 1)'
    BY <2>3, <2>5, FreshAges
  <2> QED
    BY <2>2, <2>6
<1>4. EarlierBeat'
  <2> SUFFICES ASSUME NEW a \in Peers, NEW b \in Peers, NEW x \in 0..Delay,
                      Together(a, b, x + Interval)'
               PROVE  Fresh(a, b, x + 1, x + Interval)'
    BY DEF EarlierBeat
  <2>1. x \in Nat /\ x + Interval \in Nat /\ x + 1 \in Nat
    BY IntervalIsPositive, DiscoveryConstants
  <2>2. CASE x = 0
    <3>1. PICK u \in 0..Interval : timer'[b] + u = Interval /\ 1 <= u
      <4>1. Interval - timer'[b] \in 0..Interval /\ 1 <= Interval - timer'[b]
            /\ timer'[b] + (Interval - timer'[b]) = Interval
        BY <1>2, <2>1, IntervalIsPositive
      <4> QED
        BY <4>1
    <3>2. u \in Nat /\ u <= x + Interval /\ x + 1 <= u
      BY <2>2, <3>1, IntervalIsPositive
    <3>3. Together(a, b, u)'
      BY <2>1, <3>2, <1>1 DEF Together, DiscTypes
    <3>4. Fresh(a, b, u, u)'
      BY <1>3, <3>1, <3>3 DEF LastBeat
    <3>5. CASE \E m \in wire' : /\ m.kind = "CAPABILITIES" /\ m.from = b /\ m.to = a
                                /\ u <= m.age /\ m.age <= u
      <4>1. \A m \in wire' : m.age \in Nat
        BY DiscoveryConstants DEF DiscTypes, Packet
      <4> QED
        BY <2>1, <3>2, <3>5, <4>1 DEF Fresh
    <3>6. CASE b \in DOMAIN known'[a] /\ known'[a][b] >= Ttl - u
      <4>1. known'[a][b] \in Int
        BY <3>6, DiscoveryConstants DEF DiscTypes
      <4>2. known'[a][b] >= Ttl - (x + Interval)
        BY <2>1, <3>2, <3>6, <4>1, DiscoveryConstants
      <4> QED
        BY <3>6, <4>2 DEF Fresh
    <3> QED
      BY <3>4, <3>5, <3>6 DEF Fresh
  <2>3. CASE x # 0
    <3>1. PICK y \in 0..Delay : x = y + 1
      <4>1. x - 1 \in 0..Delay /\ x = (x - 1) + 1
        BY <2>3, DiscoveryConstants
      <4> QED
        BY <4>1
    <3>2. y \in Nat /\ y + Interval \in Nat /\ y + 1 \in Nat
      BY IntervalIsPositive, DiscoveryConstants
    <3>3. Together(a, b, y + Interval)
      BY <1>2, <2>1, <3>1, <3>2, IntervalIsPositive DEF Together
    <3>4. Fresh(a, b, y + 1, y + Interval)
      BY <3>3 DEF EarlierBeat
    <3>5. Fresh(a, b, (y + 1) + 1, (y + Interval) + 1)'
      BY <3>2, <3>4, FreshAges
    <3>6. (y + 1) + 1 = x + 1 /\ (y + Interval) + 1 = x + Interval
      BY <3>1, IntervalIsPositive, DiscoveryConstants
    <3> QED
      BY <3>5, <3>6
  <2> QED
    BY <2>2, <2>3
<1> QED
  BY <1>3, <1>4

LEMMA JoinMoves ==
  ASSUME Interval + Delay <= Ttl, JoinInv, Moves, DiscTypes'
  PROVE  LastBeat' /\ EarlierBeat'
<1> USE DEF JoinInv
<1>1. ASSUME NEW a \in Peers, NEW b \in Peers, NEW t \in Nat, Together(a, b, t)'
      PROVE  Together(a, b, t) /\ phase'[a] = "joined" /\ phase'[b] = "joined"
  BY <1>1 DEF Together, Moves, PhaseMoves
<1>2. LastBeat'
  <2> SUFFICES ASSUME NEW a \in Peers, NEW b \in Peers, NEW u \in 0..Interval,
                      timer'[b] + u = Interval, Together(a, b, u)'
               PROVE  Fresh(a, b, u, u)'
    BY DEF LastBeat
  <2>1. u \in Nat /\ u <= Ttl
    BY IntervalIsPositive, DiscoveryConstants
  <2>2. Together(a, b, u) /\ phase'[a] = "joined" /\ phase'[b] = "joined"
    BY <1>1, <2>1
  <2>3. CASE timer'[b] = timer[b]
    <3>1. Fresh(a, b, u, u)
      BY <2>2, <2>3 DEF LastBeat
    <3> QED
      BY <2>1, <2>2, <3>1, FreshStays
  <2>4. CASE timer'[b] # timer[b]
    <3>1. timer'[b] = Interval
      BY <2>2, <2>4 DEF Moves, TimerMoves
    <3>2. u = 0
      BY <2>1, <3>1, IntervalIsPositive
    <3>3. \E m \in wire' : m.kind = "CAPABILITIES" /\ m.from = b /\ m.to = a /\ m.age = 0
      BY <2>2, <2>4 DEF Moves, TimerMoves, Together
    <3> QED
      BY <3>2, <3>3 DEF Fresh
  <2> QED
    BY <2>3, <2>4
<1>3. EarlierBeat'
  <2> SUFFICES ASSUME NEW a \in Peers, NEW b \in Peers, NEW x \in 0..Delay,
                      Together(a, b, x + Interval)'
               PROVE  Fresh(a, b, x + 1, x + Interval)'
    BY DEF EarlierBeat
  <2>1. x + Interval \in Nat /\ x + 1 \in Nat /\ x + Interval <= Ttl
    BY IntervalIsPositive, DiscoveryConstants
  <2>2. Together(a, b, x + Interval) /\ phase'[a] = "joined"
    BY <1>1, <2>1
  <2>3. Fresh(a, b, x + 1, x + Interval)
    BY <2>2 DEF EarlierBeat
  <2> QED
    BY <2>1, <2>2, <2>3, FreshStays
<1> QED
  BY <1>2, <1>3

\* Two agents that have both been joined for an interval and a delay find each other by
\* their expertise.  The ttl must be long enough for an announcement to be replaced in
\* time by the next: with Interval = ttl / 2 the network may delay by half the ttl.
THEOREM JoinedAgentsAreFound ==
  ASSUME Interval + Delay <= Ttl
  PROVE  DiscSpec => []JoinedAreFound
<1>1. DiscInit => JoinInv
  <2> SUFFICES ASSUME DiscInit PROVE JoinInv
    OBVIOUS
  <2>1. \A a \in Peers : phase[a] = "off"
    BY DEF DiscInit
  <2> QED
    BY <2>1, TypesInit DEF JoinInv, HeartBeats, LastBeat, EarlierBeat, Together
<1>2. JoinInv /\ [DiscNext]_discVars => JoinInv'
  <2> SUFFICES ASSUME JoinInv, [DiscNext]_discVars PROVE JoinInv'
    OBVIOUS
  <2>1. DiscTypes' /\ HeartBeats'
    BY TypesStep, HeartBeatsStep DEF JoinInv
  <2>2. CASE Tick
    BY <2>1, <2>2, JoinTick DEF JoinInv
  <2>3. CASE ~Tick
    <3>1. Moves
      BY <2>3, OthersMove DEF JoinInv
    <3> QED
      BY <2>1, <3>1, JoinMoves DEF JoinInv
  <2> QED
    BY <2>2, <2>3
<1>3. JoinInv => JoinedAreFound
  <2> SUFFICES ASSUME JoinInv, NEW a \in Peers, NEW b \in Peers, NEW tag \in Expertise[b], a # b,
                      \A c \in {a, b} : phase[c] = "joined" /\ inPhase[c] > Interval + Delay
               PROVE  b \in FindByExpertise(a, tag)
    BY DEF JoinedAreFound
  <2>1. Together(a, b, Delay + Interval)
    BY IntervalIsPositive, DiscoveryConstants DEF Together
  <2>2. Delay \in 0..Delay
    BY DiscoveryConstants
  <2>3. Fresh(a, b, Delay + 1, Delay + Interval)
    BY <2>1, <2>2 DEF JoinInv, EarlierBeat
  <2>4. \A m \in wire : ~(Delay + 1 <= m.age)
    BY DiscoveryConstants DEF JoinInv, DiscTypes, Packet
  <2>5. b \in DOMAIN known[a] /\ known[a][b] >= Ttl - (Delay + Interval)
    BY <2>3, <2>4 DEF Fresh
  <2>6. known[a][b] \in (-1)..Ttl
    BY <2>5 DEF JoinInv, DiscTypes
  <2>7. known[a][b] >= 0
    BY <2>5, <2>6, IntervalIsPositive, DiscoveryConstants
  <2> QED
    BY <2>5, <2>7 DEF FindByExpertise, ListActive, Unexpired, Restrict
<1> QED
  BY <1>1, <1>2, <1>3, PTL DEF DiscSpec

-----------------------------------------------------------------------------
(***************************************************************************)
(* The task board.  For any tasks, nicks, loads and window length: the     *)
(* timers match the pending claims, the loop finds the winner, and the     *)
(* board implements ClaimBoard.  The inductive invariant adds that instant *)
(* arbitration never leaves a claim pending, and that every open window    *)
(* has a winner.                                                           *)
(***************************************************************************)
InstantLeavesNothing ==
  instant => \A t \in Tasks : pendingClaims[t] = <<>>

HasWinner(claims) == \E i \in 1..Len(claims) : IsFirstLeast(claims, i)

WindowHasWinner ==
  \A t \in Tasks : pendingClaims[t] # <<>> => HasWinner(pendingClaims[t])

Inv == TypeOK /\ TimerIffPending /\ InstantLeavesNothing /\ WindowHasWinner

-----------------------------------------------------------------------------
(***************************************************************************)
(* The winner of a list.                                                   *)
(***************************************************************************)

\* The entries of a list of claims.
LEMMA ClaimAt ==
  ASSUME NEW s \in Seq(ClaimEntry), NEW i \in 1..Len(s)
  PROVE  s[i] \in ClaimEntry /\ s[i].nick \in Nicks /\ s[i].load \in Int
<1>1. s[i] \in ClaimEntry
  OBVIOUS
<1> QED
  BY <1>1, TaskBoardConstants DEF ClaimEntry

\* At most one index is the first least loaded one.
LEMMA FirstLeastUnique ==
  ASSUME NEW s \in Seq(ClaimEntry), NEW i \in 1..Len(s), NEW j \in 1..Len(s),
         IsFirstLeast(s, i), IsFirstLeast(s, j)
  PROVE  i = j
<1>1. s[i].load \in Int /\ s[j].load \in Int
  BY ClaimAt
<1> QED
  BY <1>1 DEF IsFirstLeast

\* So the winner of a list is the claim at that index.
LEMMA WinnerAt ==
  ASSUME NEW s \in Seq(ClaimEntry), NEW i \in 1..Len(s), IsFirstLeast(s, i)
  PROVE  Winner(s) = s[i]
<1> DEFINE k == CHOOSE j \in 1..Len(s) : IsFirstLeast(s, j)
<1>1. k \in 1..Len(s) /\ IsFirstLeast(s, k)
  OBVIOUS
<1>2. k = i
  <2> HIDE DEF k
  <2> QED
    BY <1>1, FirstLeastUnique
<1> QED
  BY <1>2 DEF Winner

\* The first claim of a window wins it.
LEMMA WinnerOfOne ==
  ASSUME NEW c \in ClaimEntry
  PROVE  HasWinner(<<c>>) /\ Winner(<<c>>) = c
<1> DEFINE s == <<c>>
<1>1. s \in Seq(ClaimEntry) /\ Len(s) = 1 /\ s[1] = c
  OBVIOUS
<1>2. c.load \in Int
  BY TaskBoardConstants DEF ClaimEntry
<1> HIDE DEF s
<1>3. 1 \in 1..Len(s) /\ IsFirstLeast(s, 1)
  BY <1>1, <1>2 DEF IsFirstLeast
<1>4. Winner(s) = c
  BY <1>1, <1>3, WinnerAt
<1> QED
  BY <1>3, <1>4 DEF HasWinner, s

\* A later claim wins exactly when its load is lower than the winner's.
LEMMA WinnerOfAppend ==
  ASSUME NEW s \in Seq(ClaimEntry), NEW c \in ClaimEntry, HasWinner(s)
  PROVE  /\ HasWinner(Append(s, c))
         /\ Winner(Append(s, c)) = IF c.load < Winner(s).load THEN c
                                                              ELSE Winner(s)
<1> DEFINE a == Append(s, c)
           n == Len(s) + 1
<1>1. PICK i \in 1..Len(s) : IsFirstLeast(s, i)
  BY DEF HasWinner
<1>2. /\ a \in Seq(ClaimEntry) /\ Len(a) = n /\ a[n] = c
      /\ \A j \in 1..Len(s) : a[j] = s[j]
      /\ Len(s) \in Nat
  OBVIOUS
<1>6. c.load \in Int /\ \A j \in 1..Len(s) : s[j].load \in Int
  BY ClaimAt, TaskBoardConstants DEF ClaimEntry
<1>3. Winner(s) = s[i]
  BY <1>1, WinnerAt
<1> HIDE DEF a
<1>4. CASE c.load < s[i].load
  <2>1. n \in 1..Len(a) /\ IsFirstLeast(a, n)
    BY <1>1, <1>2, <1>4, <1>6 DEF IsFirstLeast
  <2>2. Winner(a) = c
    BY <1>2, <2>1, WinnerAt
  <2> QED
    BY <1>3, <1>4, <2>1, <2>2 DEF HasWinner, a
<1>5. CASE ~(c.load < s[i].load)
  <2>1. i \in 1..Len(a) /\ IsFirstLeast(a, i)
    BY <1>1, <1>2, <1>5, <1>6 DEF IsFirstLeast
  <2>2. Winner(a) = s[i]
    BY <1>2, <2>1, WinnerAt
  <2> QED
    BY <1>3, <1>5, <2>1, <2>2 DEF HasWinner, a
<1> QED
  BY <1>4, <1>5

-----------------------------------------------------------------------------
(***************************************************************************)
(* The invariant.                                                          *)
(***************************************************************************)

\* What a claim in a window does to the list of its task.
LEMMA DeferredClaim ==
  ASSUME Inv, NEW t \in Tasks, NEW c \in ClaimEntry, ClaimDeferred(t, c)
  PROVE  /\ pendingClaims'[t] = Append(pendingClaims[t], c)
         /\ pendingClaims'[t] \in Seq(ClaimEntry) /\ pendingClaims'[t] # <<>>
         /\ HasWinner(pendingClaims'[t])
         /\ Winner(pendingClaims'[t]) =
              IF pendingClaims[t] = <<>> \/ c.load < Winner(pendingClaims[t]).load
              THEN c ELSE Winner(pendingClaims[t])
<1> DEFINE s == pendingClaims[t]
<1>1. s \in Seq(ClaimEntry) /\ pendingClaims'[t] = Append(s, c)
  BY DEF Inv, TypeOK, ClaimDeferred
<1>2. Append(s, c) \in Seq(ClaimEntry) /\ Append(s, c) # <<>>
  BY <1>1
<1>3. CASE s = <<>>
  <2>1. Append(s, c) = <<c>>
    BY <1>3
  <2> QED
    BY <1>1, <1>2, <1>3, <2>1, WinnerOfOne
<1>4. CASE s # <<>>
  <2>1. HasWinner(s)
    BY <1>4 DEF Inv, WindowHasWinner
  <2> QED
    BY <1>1, <1>2, <1>4, <2>1, WinnerOfAppend
<1> QED
  BY <1>3, <1>4

LEMMA InvInit == Init => Inv
BY DEF Init, Inv, TypeOK, OfferInfo, TimerIffPending, InstantLeavesNothing,
   WindowHasWinner

\* Giving a task to somebody, or to nobody, keeps the type of its entry.
LEMMA GiveToType ==
  ASSUME TypeOK, NEW t \in Tasks, NEW n \in Nicks \cup {NoNick}, GiveTo(t, n)
  PROVE  offers' \in [Tasks -> OfferInfo]
<1>1. CASE offers' = offers
  BY <1>1 DEF TypeOK
<1>2. CASE offers[t].listed /\ offers' = [offers EXCEPT ![t].claimedBy = n]
  <2>1. offers[t] \in OfferInfo
    BY DEF TypeOK
  <2>2. [offers[t] EXCEPT !.claimedBy = n] \in OfferInfo
    BY <1>2, <2>1 DEF OfferInfo
  <2> QED
    BY <1>2, <2>2 DEF TypeOK
<1> QED
  BY <1>1, <1>2 DEF GiveTo

\* The steps that only write offers, on a task, keep the entry's type.
LEMMA OffersStep ==
  ASSUME Inv, NEW t \in Tasks,
         NEW n \in Nicks \cup {NoNick}, UNCHANGED <<instant, pendingClaims, timers>>,
         \/ offers' = [offers EXCEPT ![t] = [listed |-> TRUE, claimedBy |-> n]]
         \/ GiveTo(t, n)
  PROVE  Inv'
<1>1. offers' \in [Tasks -> OfferInfo]
  <2>1. CASE GiveTo(t, n)
    BY <2>1, GiveToType DEF Inv
  <2>2. CASE offers' = [offers EXCEPT ![t] = [listed |-> TRUE, claimedBy |-> n]]
    BY <2>2 DEF Inv, TypeOK, OfferInfo
  <2> QED
    BY <2>1, <2>2
<1> QED
  BY <1>1 DEF Inv, TypeOK, TimerIffPending, InstantLeavesNothing, WindowHasWinner

LEMMA InvStep == Inv /\ [Next]_vars => Inv'
<1> SUFFICES ASSUME Inv, [Next]_vars PROVE Inv'
  OBVIOUS
<1>1. ASSUME NEW t \in Tasks, RecordOffer(t) PROVE Inv'
  BY <1>1, OffersStep DEF RecordOffer
<1>2. ASSUME NEW t \in Tasks, NEW c \in ClaimEntry, ClaimInstantly(t, c)
      PROVE  Inv'
  <2>1. pendingClaims[t] = <<>> /\ pendingClaims' = pendingClaims
    BY <1>2 DEF Inv, TypeOK, InstantLeavesNothing, ClaimInstantly
  <2>2. Append(pendingClaims[t], c)[1].nick \in Nicks
    BY <2>1 DEF ClaimEntry
  <2> QED
    BY <1>2, <2>1, <2>2, OffersStep DEF ClaimInstantly
<1>3. ASSUME NEW t \in Tasks, NEW c \in ClaimEntry, ClaimDeferred(t, c)
      PROVE  Inv'
  <2>1. /\ pendingClaims'[t] \in Seq(ClaimEntry)
        /\ pendingClaims'[t] # <<>> /\ HasWinner(pendingClaims'[t])
    BY <1>3, DeferredClaim
  <2>2. /\ \A u \in Tasks \ {t} : pendingClaims'[u] = pendingClaims[u]
        /\ pendingClaims' \in [Tasks -> Seq(ClaimEntry)]
        /\ timers' = timers \cup {t} /\ offers' = offers
        /\ ~instant /\ instant' = instant
    BY <1>3, <2>1 DEF ClaimDeferred, Inv, TypeOK
  <2> QED
    BY <2>1, <2>2 DEF Inv, TypeOK, TimerIffPending, InstantLeavesNothing,
       WindowHasWinner
<1>4. ASSUME NEW t \in Tasks, ResolveArbitration(t) PROVE Inv'
  <2>1. pendingClaims[t] # <<>> /\ HasWinner(pendingClaims[t])
    BY <1>4 DEF Inv, TimerIffPending, WindowHasWinner, ResolveArbitration
  <2>2. PICK i \in 1..Len(pendingClaims[t]) : IsFirstLeast(pendingClaims[t], i)
    BY <2>1 DEF HasWinner
  <2>3. Winner(pendingClaims[t]).nick \in Nicks
    <3>1. pendingClaims[t] \in Seq(ClaimEntry)
      BY DEF Inv, TypeOK
    <3> QED
      BY <2>2, <3>1, WinnerAt, ClaimAt
  <2>4. offers' \in [Tasks -> OfferInfo]
    BY <1>4, <2>1, <2>3, GiveToType DEF ResolveArbitration, Inv
  <2>5. /\ pendingClaims' = [pendingClaims EXCEPT ![t] = <<>>]
        /\ timers' = timers \ {t} /\ instant' = instant
    BY <1>4, <2>1 DEF ResolveArbitration
  <2> QED
    BY <2>4, <2>5 DEF Inv, TypeOK, TimerIffPending, InstantLeavesNothing,
       WindowHasWinner
<1>5. ASSUME NEW t \in Tasks, NEW n \in Nicks \cup {NoNick}, RecordAssign(t, n)
      PROVE  Inv'
  BY <1>5, OffersStep DEF RecordAssign
<1>6. ASSUME NEW t \in Tasks, RecordDecline(t) \/ RecordYield(t) PROVE Inv'
  BY <1>6, OffersStep DEF RecordDecline, RecordYield
<1>7. CASE UNCHANGED vars
  BY <1>7 DEF vars, Inv, TypeOK, TimerIffPending, InstantLeavesNothing,
     WindowHasWinner
<1> QED
  BY <1>1, <1>2, <1>3, <1>4, <1>5, <1>6, <1>7 DEF Next, RecordClaim

\* The invariant holds in every reachable state.
LEMMA Invariance == Spec => []Inv
BY InvInit, InvStep, PTL DEF Spec

\* The board's maps hold what their Go types say.
THEOREM BoardTypeCorrect == Spec => []TypeOK
BY Invariance, PTL DEF Inv

\* resolveArbitration never finds an empty list, and no claim is without a
\* timer, whatever else happens to the task meanwhile.
THEOREM TimersMatchClaims == Spec => []TimerIffPending
BY Invariance, PTL DEF Inv

-----------------------------------------------------------------------------
(***************************************************************************)
(* The board implements ClaimBoard.                                        *)
(***************************************************************************)

\* The winner of an open window is a claim, so it is not NoClaim.
LEMMA WinnerIsClaim ==
  ASSUME Inv, NEW t \in Tasks, pendingClaims[t] # <<>>
  PROVE  Winner(pendingClaims[t]) \in ClaimEntry /\ bestBar[t] # NoClaim
<1>1. pendingClaims[t] \in Seq(ClaimEntry) /\ HasWinner(pendingClaims[t])
  BY DEF Inv, TypeOK, WindowHasWinner
<1>2. PICK i \in 1..Len(pendingClaims[t]) : IsFirstLeast(pendingClaims[t], i)
  BY <1>1 DEF HasWinner
<1>3. Winner(pendingClaims[t]) \in ClaimEntry
  BY <1>1, <1>2, WinnerAt, ClaimAt
<1> QED
  BY <1>3, TaskBoardConstants DEF bestBar, ClaimEntry

\* How the two ways of writing offers look abstractly.
LEMMA NewEntryMaps ==
  ASSUME Inv, NEW t \in Tasks, NEW n \in Nicks \cup {NoNick},
         offers' = [offers EXCEPT ![t] = [listed |-> TRUE, claimedBy |-> n]]
  PROVE  /\ listedBar' = listedBar \cup {t}
         /\ ownerBar' = [ownerBar EXCEPT ![t] = n]
BY DEF Inv, TypeOK, listedBar, ownerBar

LEMMA GiveToMaps ==
  ASSUME Inv, NEW t \in Tasks, NEW n \in Nicks \cup {NoNick}, GiveTo(t, n)
  PROVE  /\ listedBar' = listedBar
         /\ t \in listedBar => ownerBar' = [ownerBar EXCEPT ![t] = n]
         /\ t \notin listedBar => ownerBar' = ownerBar
<1>1. CASE t \in listedBar
  <2>1. offers' = [offers EXCEPT ![t].claimedBy = n]
    BY <1>1 DEF GiveTo, listedBar
  <2>2. /\ \A u \in Tasks : offers'[u].listed = offers[u].listed
        /\ \A u \in Tasks : offers'[u].claimedBy =
                             IF u = t THEN n ELSE offers[u].claimedBy
    BY <2>1 DEF Inv, TypeOK, OfferInfo
  <2> QED
    BY <1>1, <2>2 DEF listedBar, ownerBar
<1>2. CASE t \notin listedBar
  BY <1>2 DEF GiveTo, listedBar, ownerBar
<1> QED
  BY <1>1, <1>2

\* Every step of the board is a step of ClaimBoard or leaves its state alone.
LEMMA RefinementStep == Inv /\ [Next]_vars => [Abstract!Next]_(Abstract!vars)
<1> SUFFICES ASSUME Inv, [Next]_vars
             PROVE  Abstract!Next \/ UNCHANGED <<listedBar, ownerBar, bestBar>>
  BY DEF Abstract!vars
<1>1. ASSUME NEW t \in Tasks, RecordOffer(t) PROVE Abstract!Offer(t)
  <2>1. bestBar' = bestBar
    BY <1>1 DEF RecordOffer, bestBar
  <2> QED
    BY <1>1, <2>1, NewEntryMaps DEF RecordOffer, Abstract!Offer
<1>2. ASSUME NEW t \in Tasks, NEW c \in ClaimEntry, ClaimInstantly(t, c)
      PROVE  Abstract!Take(t, c)
  <2>1. pendingClaims[t] = <<>> /\ pendingClaims' = pendingClaims
    BY <1>2 DEF Inv, TypeOK, InstantLeavesNothing, ClaimInstantly
  <2>2. Append(pendingClaims[t], c)[1] = c
    BY <2>1
  <2>3. GiveTo(t, c.nick) /\ c.nick \in Nicks
    BY <1>2, <2>2 DEF ClaimInstantly, ClaimEntry
  <2>4. bestBar[t] = NoClaim /\ bestBar' = bestBar
    BY <2>1 DEF bestBar
  <2> QED
    BY <2>3, <2>4, GiveToMaps DEF Abstract!Take
<1>3. ASSUME NEW t \in Tasks, NEW c \in ClaimEntry, ClaimDeferred(t, c)
      PROVE  Abstract!Compete(t, c)
  <2>1. /\ pendingClaims'[t] # <<>>
        /\ Winner(pendingClaims'[t]) =
             IF pendingClaims[t] = <<>> \/ c.load < Winner(pendingClaims[t]).load
             THEN c ELSE Winner(pendingClaims[t])
    BY <1>3, DeferredClaim
  <2>2. \A u \in Tasks \ {t} : pendingClaims'[u] = pendingClaims[u]
    BY <1>3 DEF ClaimDeferred, Inv, TypeOK
  <2>3. \A u \in Tasks \ {t} : bestBar'[u] = bestBar[u]
    BY <2>2 DEF bestBar
  <2>4. bestBar'[t] = IF bestBar[t] = NoClaim \/ c.load < bestBar[t].load
                      THEN c ELSE bestBar[t]
    <3>1. CASE pendingClaims[t] = <<>>
      BY <2>1, <3>1 DEF bestBar
    <3>2. CASE pendingClaims[t] # <<>>
      <4>1. bestBar[t] # NoClaim
        BY <3>2, WinnerIsClaim
      <4>2. bestBar[t] = Winner(pendingClaims[t])
            /\ bestBar'[t] = Winner(pendingClaims'[t])
        BY <2>1, <3>2 DEF bestBar
      <4> QED
        BY <2>1, <3>2, <4>1, <4>2
    <3> QED
      BY <3>1, <3>2
  <2>5. bestBar' = [bestBar EXCEPT ![t] =
          IF bestBar[t] = NoClaim \/ c.load < bestBar[t].load THEN c
          ELSE bestBar[t]]
    BY <2>3, <2>4 DEF bestBar
  <2>6. UNCHANGED <<listedBar, ownerBar>>
    BY <1>3 DEF ClaimDeferred, listedBar, ownerBar
  <2> QED
    BY <2>5, <2>6 DEF Abstract!Compete
<1>4. ASSUME NEW t \in Tasks, ResolveArbitration(t) PROVE Abstract!Decide(t)
  <2>1. pendingClaims[t] # <<>>
    BY <1>4 DEF Inv, TimerIffPending, ResolveArbitration
  <2>2. /\ GiveTo(t, Winner(pendingClaims[t]).nick)
        /\ pendingClaims' = [pendingClaims EXCEPT ![t] = <<>>]
    BY <1>4, <2>1 DEF ResolveArbitration
  <2>3. /\ bestBar[t] # NoClaim /\ bestBar[t] = Winner(pendingClaims[t])
        /\ bestBar[t].nick \in Nicks
    BY <2>1, WinnerIsClaim DEF bestBar, ClaimEntry
  <2>4. bestBar' = [bestBar EXCEPT ![t] = NoClaim]
    BY <2>2 DEF bestBar, Inv, TypeOK
  <2> QED
    BY <2>2, <2>3, <2>4, GiveToMaps DEF Abstract!Decide
<1>5. ASSUME NEW t \in Tasks, NEW n \in Nicks \cup {NoNick}, RecordAssign(t, n)
      PROVE  Abstract!Assign(t, n)
  <2>1. bestBar' = bestBar
    BY <1>5 DEF RecordAssign, bestBar
  <2> QED
    BY <1>5, <2>1, NewEntryMaps DEF RecordAssign, Abstract!Assign
<1>6. ASSUME NEW t \in Tasks, RecordDecline(t) \/ RecordYield(t)
      PROVE  Abstract!Release(t) \/ UNCHANGED <<listedBar, ownerBar, bestBar>>
  <2>1. GiveTo(t, NoNick) /\ bestBar' = bestBar
    BY <1>6 DEF RecordDecline, RecordYield, bestBar
  <2> QED
    BY <2>1, GiveToMaps DEF Abstract!Release
<1>7. CASE UNCHANGED vars
  BY <1>7 DEF vars, listedBar, ownerBar, bestBar
<1> QED
  BY <1>1, <1>2, <1>3, <1>4, <1>5, <1>6, <1>7
     DEF Next, RecordClaim, Abstract!Next, ClaimEntry, Abstract!Claim

\* A TaskBoard behaves as a ClaimBoard, with a window or with instant
\* arbitration: the lists and the timers are invisible.
THEOREM BoardRefines == Spec => ImplementsClaimBoard
<1>1. Init => Abstract!Init
  BY DEF Init, Abstract!Init, listedBar, ownerBar, bestBar
<1>2. Inv /\ [Next]_vars => [Abstract!Next]_(Abstract!vars)
  BY RefinementStep
<1> QED
  BY <1>1, <1>2, Invariance, PTL DEF Spec, ImplementsClaimBoard, Abstract!Spec

-----------------------------------------------------------------------------
(***************************************************************************)
(* The loop of resolveArbitration.                                         *)
(***************************************************************************)

\* Of the claims at the places I, the i-th is the first with the lowest load.
FirstLeastOf(s, I, i) ==
  i \in I /\ \A j \in I : s[i].load <= s[j].load /\ (j < i => s[i].load < s[j].load)

\* A place after all of them takes over exactly when its load is lower.
LEMMA FirstLeastOfMore ==
  ASSUME NEW s \in Seq(ClaimEntry), NEW I \in SUBSET (1..Len(s)), NEW m \in 1..Len(s),
         \A j \in I : j < m, NEW i, FirstLeastOf(s, I, i)
  PROVE  FirstLeastOf(s, I \cup {m}, IF s[m].load < s[i].load THEN m ELSE i)
<1>1. /\ \A j \in 1..Len(s) : s[j].load \in Int /\ j \in Int
      /\ Len(s) \in Nat
  BY ClaimAt
<1>2. \A j \in I \cup {m} : j \in 1..Len(s)
  OBVIOUS
<1>3. /\ i \in I /\ \A j \in I : s[i].load <= s[j].load /\ (j < i => s[i].load < s[j].load)
  BY DEF FirstLeastOf
<1>4. CASE s[m].load < s[i].load
  <2> SUFFICES ASSUME NEW j \in I \cup {m}
               PROVE  s[m].load <= s[j].load /\ (j < m => s[m].load < s[j].load)
    BY <1>4 DEF FirstLeastOf
  <2> QED
    BY <1>1, <1>2, <1>3, <1>4
<1>5. CASE ~(s[m].load < s[i].load)
  <2> SUFFICES ASSUME NEW j \in I \cup {m}
               PROVE  s[i].load <= s[j].load /\ (j < i => s[i].load < s[j].load)
    BY <1>3, <1>5 DEF FirstLeastOf
  <2> QED
    BY <1>1, <1>2, <1>3, <1>5
<1> QED
  BY <1>4, <1>5

\* Of some claims there always is a first one with the lowest load, and only one.
LEMMA FirstLeastExists ==
  ASSUME NEW s \in Seq(ClaimEntry), NEW I \in SUBSET (1..Len(s)), I # {}
  PROVE  \E i \in I : FirstLeastOf(s, I, i)
<1> DEFINE K == {k \in Nat : \A J \in SUBSET (1..Len(s)) :
                   J # {} /\ (\A j \in J : j <= k) => \E i \in J : FirstLeastOf(s, J, i)}
<1>1. Len(s) \in Nat
  OBVIOUS
<1>2. 0 \in K
  <2>1. \A J \in SUBSET (1..Len(s)) : (\A j \in J : j <= 0) => J = {}
    BY <1>1
  <2> QED
    BY <2>1
<1>3. ASSUME NEW k \in Nat, k \in K PROVE k + 1 \in K
  <2> SUFFICES ASSUME NEW J \in SUBSET (1..Len(s)), J # {}, \A j \in J : j <= k + 1
               PROVE  \E i \in J : FirstLeastOf(s, J, i)
    OBVIOUS
  <2> DEFINE R == J \ {k + 1}
  <2>1. R \in SUBSET (1..Len(s)) /\ \A j \in R : j <= k /\ j < k + 1
    BY <1>1
  <2>2. CASE R = {}
    <3>1. J = {k + 1} /\ k + 1 \in 1..Len(s)
      BY <2>2
    <3>2. s[k + 1].load \in Int
      BY <3>1, ClaimAt
    <3> QED
      BY <3>1, <3>2 DEF FirstLeastOf
  <2>3. CASE R # {}
    <3> HIDE DEF R
    <3>1. PICK i \in R : FirstLeastOf(s, R, i)
      BY <1>3, <2>1, <2>3
    <3>2. CASE k + 1 \in J
      <4>1. J = R \cup {k + 1} /\ k + 1 \in 1..Len(s)
        BY <3>2 DEF R
      <4>2. FirstLeastOf(s, J, IF s[k + 1].load < s[i].load THEN k + 1 ELSE i)
        BY <2>1, <3>1, <4>1, FirstLeastOfMore
      <4> QED
        BY <3>1, <4>1, <4>2
    <3>3. CASE k + 1 \notin J
      BY <3>1, <3>3 DEF R
    <3> QED
      BY <3>2, <3>3
  <2> QED
    BY <2>2, <2>3
<1>4. Len(s) \in K
  <2> HIDE DEF K
  <2> QED
    BY <1>1, <1>2, <1>3, NatSetInduction
<1>5. \A j \in I : j <= Len(s)
  BY <1>1
<1> QED
  BY <1>4, <1>5

LEMMA FirstLeastOfOne ==
  ASSUME NEW s \in Seq(ClaimEntry), NEW I \in SUBSET (1..Len(s)), NEW i, NEW j,
         FirstLeastOf(s, I, i), FirstLeastOf(s, I, j)
  PROVE  i = j
<1>1. i \in 1..Len(s) /\ j \in 1..Len(s) /\ i \in Int /\ j \in Int
  BY DEF FirstLeastOf
<1>2. s[i].load \in Int /\ s[j].load \in Int
  BY <1>1, ClaimAt
<1> QED
  BY <1>1, <1>2 DEF FirstLeastOf

\* The loop over a list that is not empty ends with its winner.
LEMMA LoopEndsWithWinner ==
  ASSUME NEW s \in Seq(ClaimEntry), s # <<>>
  PROVE  ArbitrationLoop(s) = Winner(s)
<1> DEFINE n == Len(s) - 1
           r == Tail(s)
           Better(c, w) == IF c.load < w.load THEN c ELSE w
           Turn(f, T) == IF T = {} THEN Head(s) ELSE Better(r[Max(T)], f[T \ {Max(T)}])
           Solves(f) == f = [T \in SUBSET DOMAIN r |-> Turn(f, T)]
           Places(T) == {1} \cup {i + 1 : i \in T}
           Best(I) == s[CHOOSE i \in I : FirstLeastOf(s, I, i)]
           g == [T \in SUBSET DOMAIN r |-> Best(Places(T))]
           h == CHOOSE f : Solves(f)
<1>1. /\ n \in Nat /\ Len(s) = n + 1 /\ DOMAIN r = 1..n /\ Head(s) = s[1]
      /\ \A i \in 1..n : r[i] = s[i + 1]
  OBVIOUS
<1>2. ArbitrationLoop(s) = h[DOMAIN r]
  BY DEF ArbitrationLoop, FoldLeft, MapThenFoldSet
<1>3. ASSUME NEW I \in SUBSET (1..Len(s)), NEW i, FirstLeastOf(s, I, i)
      PROVE  Best(I) = s[i]
  <2> DEFINE c == CHOOSE j \in I : FirstLeastOf(s, I, j)
  <2>1. c \in I /\ FirstLeastOf(s, I, c)
    BY <1>3 DEF FirstLeastOf
  <2> HIDE DEF c
  <2>2. c = i
    BY <1>3, <2>1, FirstLeastOfOne
  <2> QED
    BY <2>2 DEF c
\* One more place: the turn of the loop.
<1>4. ASSUME NEW I \in SUBSET (1..Len(s)), I # {}, NEW m \in 1..Len(s), \A j \in I : j < m
      PROVE  Best(I \cup {m}) = Better(s[m], Best(I))
  <2>1. PICK i \in I : FirstLeastOf(s, I, i)
    BY <1>4, FirstLeastExists
  <2>2. FirstLeastOf(s, I \cup {m}, IF s[m].load < s[i].load THEN m ELSE i)
    BY <1>4, <2>1, FirstLeastOfMore
  <2>3. Best(I) = s[i]
    BY <2>1, <1>3
  <2>4. Best(I \cup {m}) = s[IF s[m].load < s[i].load THEN m ELSE i]
    <3> DEFINE J == I \cup {m}
               x == IF s[m].load < s[i].load THEN m ELSE i
    <3>1. J \in SUBSET (1..Len(s)) /\ FirstLeastOf(s, J, x)
      BY <2>2
    <3> HIDE DEF J, x, Best
    <3>2. Best(J) = s[x]
      BY <3>1, <1>3
    <3> QED
      BY <3>2 DEF J, x
  <2> HIDE DEF Best
  <2> QED
    BY <2>3, <2>4
<1>5. Best({1}) = s[1]
  <2>1. FirstLeastOf(s, {1}, 1)
    BY <1>1, ClaimAt DEF FirstLeastOf
  <2> QED
    BY <1>1, <1>3, <2>1
<1> HIDE DEF Best
<1>6. Solves(g)
  <2> SUFFICES ASSUME NEW T \in SUBSET (1..n) PROVE Best(Places(T)) = Turn(g, T)
    BY <1>1
  <2>1. CASE T = {}
    BY <1>1, <1>5, <2>1
  <2>2. CASE T # {}
    <3> DEFINE m == Max(T)
               I == Places(T \ {m})
    <3>1. m \in T /\ \A j \in T : j <= m
      BY <1>1, <2>2, MaxOfSome
    <3>2. m \in 1..n /\ T \ {m} \in SUBSET (1..n)
      BY <3>1
    <3> HIDE DEF m
    <3>3. I \in SUBSET (1..Len(s)) /\ m + 1 \in 1..Len(s) /\ I # {}
      BY <1>1, <3>2
    <3>4. \A j \in I : j < m + 1
      BY <1>1, <3>1, <3>2
    <3>5. Places(T) = I \cup {m + 1}
      BY <3>1
    <3>6. g[T \ {m}] = Best(I)
      BY <1>1, <3>2
    <3>7. r[m] = s[m + 1]
      BY <1>1, <3>2
    <3> HIDE DEF I, Places, g
    <3>8. Best(I \cup {m + 1}) = Better(s[m + 1], Best(I))
      BY <3>3, <3>4, <1>4
    <3> QED
      BY <2>2, <3>5, <3>6, <3>7, <3>8 DEF m
  <2> QED
    BY <2>1, <2>2
<1>7. Solves(h)
  <2> HIDE DEF Solves, g
  <2> QED
    BY <1>6
<1>8. ASSUME NEW T \in SUBSET (1..n) PROVE h[T] = Turn(h, T)
  BY <1>1, <1>7
<1> DEFINE K == {k \in Nat : k <= n => h[1..k] = Best(1..(k + 1))}
<1> HIDE DEF h
<1>9. 0 \in K
  <2>1. 1..0 = {} /\ 1..(0 + 1) = {1}
    OBVIOUS
  <2>2. h[{}] = s[1]
    BY <1>1, <1>8
  <2> QED
    BY <1>5, <2>1, <2>2
<1>10. ASSUME NEW k \in Nat, k \in K PROVE k + 1 \in K
  <2> SUFFICES ASSUME k + 1 <= n PROVE h[1..(k + 1)] = Best(1..((k + 1) + 1))
    OBVIOUS
  <2> DEFINE I == 1..k
             J == 1..(k + 1)
             L == 1..((k + 1) + 1)
             m == (k + 1) + 1
  <2>1. /\ J \in SUBSET (1..n) /\ J \in SUBSET (1..Len(s)) /\ J # {}
        /\ m \in 1..Len(s) /\ (\A j \in J : j < m) /\ L = J \cup {m}
        /\ r[k + 1] = s[m]
    <3> HIDE DEF n, r
    <3>1. k + 1 \in J /\ k + 1 \in 1..n
      BY <1>1
    <3>2. r[k + 1] = s[(k + 1) + 1]
      BY <1>1, <3>1
    <3>3. J \in SUBSET (1..n) /\ J \in SUBSET (1..Len(s)) /\ m \in 1..Len(s)
      BY <1>1
    <3>4. (\A j \in J : j < m) /\ L = J \cup {m}
      OBVIOUS
    <3> QED
      BY <3>1, <3>2, <3>3, <3>4
  <2>2. Max(J) = k + 1 /\ J \ {k + 1} = I
    BY MaxOfSegment
  <2>3. h[I] = Best(J)
    BY <1>10
  <2> HIDE DEF I, J, L, m
  <2>4. h[J] = Turn(h, J)
    BY <2>1, <1>8
  <2>5. h[J] = Better(s[m], Best(J))
    BY <2>1, <2>2, <2>3, <2>4
  <2>6. Best(L) = Better(s[m], Best(J))
    BY <2>1, <1>4
  <2> QED
    BY <2>5, <2>6 DEF J, L
<1>11. n \in K
  <2> HIDE DEF K, n
  <2> QED
    BY <1>1, <1>9, <1>10, NatSetInduction
<1>12. h[1..n] = Best(1..Len(s))
  BY <1>1, <1>11
<1>13. Best(1..Len(s)) = Winner(s)
  <2>1. 1..Len(s) # {}
    BY <1>1
  <2>2. PICK i \in 1..Len(s) : FirstLeastOf(s, 1..Len(s), i)
    BY <2>1, FirstLeastExists
  <2>3. IsFirstLeast(s, i)
    BY <2>2 DEF FirstLeastOf, IsFirstLeast
  <2>4. Best(1..Len(s)) = s[i]
    BY <1>3, <2>2
  <2> QED
    BY <2>3, <2>4, WinnerAt
<1> QED
  BY <1>1, <1>2, <1>12, <1>13

\* The loop of resolveArbitration, which keeps one claim and compares each later one
\* with it, ends with the earliest of the least loaded claims, however many claims the
\* window has collected.
THEOREM LoopIsRight == Spec => []LoopFindsWinner
<1>1. Inv => LoopFindsWinner
  BY LoopEndsWithWinner DEF Inv, TypeOK, LoopFindsWinner
<1> QED
  BY <1>1, Invariance, PTL
=============================================================================
