--------------------------- MODULE LnsSessionProofs ---------------------------
(* Theorems about LnsSession, for every value of its constants.            *)
EXTENDS LnsSession, SequenceTheorems, TLAPS

-----------------------------------------------------------------------------
(* Lemmas on the operators of the model                                    *)

\* SESSION_COUNTER.wrapping_add(1) stays below the modulus.
LEMMA SessionWraps ==
    ASSUME NEW s \in Nat
    PROVE  (s + 1) % SessionMod \in 0..(SessionMod - 1)
  BY BoundsAssumption

\* What the program sends is a Message.
LEMMA MessagesTyped ==
    ASSUME TypeOK
    PROVE  /\ Version \in Message
           /\ Dntxed \in Message
           /\ Updf \in Message
  <1>1. Version \in Message
    BY DEF Version, Message, None
  <1>2. Dntxed \in Message
    <2>1. routerConfig \in Nat /\ dnmsgs \in Nat
      BY BoundsAssumption DEF TypeOK
    <2>. QED
      BY <2>1 DEF Dntxed, Message, None
  <1>3. Updf \in Message
    <2>1. up.id \in Nat /\ up.config \in Nat /\ up.session \in Nat /\ up.ref \in Nat
      BY BoundsAssumption DEF TypeOK, Locals
    <2>. QED
      BY <2>1 DEF Updf, Message
  <1>. QED
    BY <1>1, <1>2, <1>3

\* The locals keep their type.
LEMMA LocalsTyped ==
    /\ Idle \in Locals
    /\ \A u \in Locals, n \in Nat, c \in 0..MaxConns, s \in 0..(SessionMod - 1) :
          /\ [u EXCEPT !.pc = "config", !.id = n, !.sender = c] \in Locals
          /\ [u EXCEPT !.pc = "mux", !.config = c] \in Locals
          /\ [u EXCEPT !.pc = "session", !.ref = n] \in Locals
          /\ [u EXCEPT !.session = s,
                       !.pc = IF u.ref = None THEN "send" ELSE "clear"] \in Locals
          /\ [u EXCEPT !.pc = "send"] \in Locals
  <1>1. Idle \in Locals
    BY BoundsAssumption DEF Locals, Idle, None
  <1> SUFFICES ASSUME NEW u \in Locals, NEW n \in Nat, NEW c \in 0..MaxConns,
                      NEW s \in 0..(SessionMod - 1)
               PROVE
          /\ [u EXCEPT !.pc = "config", !.id = n, !.sender = c] \in Locals
          /\ [u EXCEPT !.pc = "mux", !.config = c] \in Locals
          /\ [u EXCEPT !.pc = "session", !.ref = n] \in Locals
          /\ [u EXCEPT !.session = s,
                       !.pc = IF u.ref = None THEN "send" ELSE "clear"] \in Locals
          /\ [u EXCEPT !.pc = "send"] \in Locals
    BY <1>1
  <1>2. [u EXCEPT !.pc = "config", !.id = n, !.sender = c] \in Locals
    BY DEF Locals
  <1>3. [u EXCEPT !.pc = "mux", !.config = c] \in Locals
    BY DEF Locals
  <1>4. [u EXCEPT !.pc = "session", !.ref = n] \in Locals
    BY DEF Locals
  <1>5. \A p \in {"send", "clear"} : [u EXCEPT !.session = s, !.pc = p] \in Locals
    BY DEF Locals
  <1>6. [u EXCEPT !.pc = "send"] \in Locals
    BY DEF Locals
  <1>. QED
    BY <1>2, <1>3, <1>4, <1>5, <1>6

\* A send() on a channel keeps the type of the queues.
LEMMA AcceptTyped ==
    ASSUME TypeOK, NEW c \in Conns, NEW m \in Message, Accept(c, m)
    PROVE  /\ queue' \in [Conns -> Seq(Message)]
           /\ accepted' \in [Conns -> Seq(Message)]
  <1>1. Append(queue[c], m) \in Seq(Message) /\ Append(accepted[c], m) \in Seq(Message)
    BY DEF TypeOK
  <1>. QED
    BY <1>1 DEF TypeOK, Accept

-----------------------------------------------------------------------------
(* Type correctness                                                        *)

\* TypeOK holds at first.
LEMMA TypeInit == Init => TypeOK
  <1> SUFFICES ASSUME Init PROVE TypeOK
    OBVIOUS
  <1>1. 0 \in 0..(SessionMod - 1) /\ 0 \in 0..MaxConns
    BY BoundsAssumption
  <1>2. <<>> \in Seq(Message)
    OBVIOUS
  <1>3. up \in Locals
    BY LocalsTyped DEF Init
  <1>. QED
    BY <1>1, <1>2, <1>3 DEF Init, TypeOK, None, MsgTypes

\* Every step of every task keeps TypeOK.
LEMMA TypeStep == TypeOK /\ [Next]_vars => TypeOK'
  <1> SUFFICES ASSUME TypeOK, [Next]_vars
               PROVE  TypeOK'
    OBVIOUS
  <1> USE DEF TypeOK, connVars, chanVars, upVars
  <1>1. CASE LoopStep
    <2>1. CASE BeginAttempt
      <3>1. session' \in 0..(SessionMod - 1)
        BY <2>1, BoundsAssumption, SessionWraps DEF BeginAttempt
      <3>. QED
        BY <2>1, <3>1 DEF BeginAttempt
    <2>2. CASE AttemptFails
      BY <2>2 DEF AttemptFails
    <2>3. CASE ConnectFails
      BY <2>3 DEF ConnectFails
    <2>4. CASE Connect
      <3>1. conn + 1 \in 0..MaxConns
        BY <2>4, BoundsAssumption DEF Connect
      <3>2. rx' \in [Conns -> {"none", "run", "writer", "aborted", "dropped"}]
        BY <2>4 DEF Connect
      <3>. QED
        BY <2>4, <3>1, <3>2 DEF Connect
    <2>5. CASE VersionFails
      <3>1. rx' \in [Conns -> {"none", "run", "writer", "aborted", "dropped"}]
        BY <2>5 DEF VersionFails, DropReceiver
      <3>2. queue' \in [Conns -> Seq(Message)]
        <4>1. <<>> \in Seq(Message)
          OBVIOUS
        <4>. QED
          BY <2>5, <4>1 DEF VersionFails, DropReceiver
      <3>. QED
        BY <2>5, <3>1, <3>2 DEF VersionFails
    <2>6. CASE SendVersion
      <3>1. \A c \in Conns : Append(wire[c], Version) \in Seq(Message)
        BY MessagesTyped
      <3>. QED
        BY <2>6, <3>1 DEF SendVersion
    <2>7. CASE SpawnWriter
      BY <2>7 DEF SpawnWriter
    <2>8. CASE ReadEnds
      BY <2>8 DEF ReadEnds
    <2>9. CASE ClearSender
      BY <2>9, BoundsAssumption DEF ClearSender, None
    <2>10. CASE ClearConfig
      BY <2>10, BoundsAssumption DEF ClearConfig, None
    <2>11. CASE Wake
      BY <2>11 DEF Wake
    <2>. QED
      BY <1>1, <2>1, <2>2, <2>3, <2>4, <2>5, <2>6, <2>7, <2>8, <2>9, <2>10, <2>11
      DEF LoopStep
  <1>2. CASE HandlerStep
    <2>1. CASE \E type \in MsgTypes, hasMux \in BOOLEAN : ReadMessage(type, hasMux)
      BY <2>1 DEF ReadMessage, MsgTypes
    <2>2. CASE StoreConfig
      BY <2>2 DEF StoreConfig
    <2>3. CASE LookupConfig
      BY <2>3 DEF LookupConfig
    <2>4. CASE BackendQuiet
      BY <2>4 DEF BackendQuiet
    <2>5. CASE BackendDntxed
      <3>1. queue' \in [Conns -> Seq(Message)] /\ accepted' \in [Conns -> Seq(Message)]
        <4>1. CASE conn \in Conns
          BY <2>5, <4>1, MessagesTyped, AcceptTyped DEF BackendDntxed
        <4>2. CASE conn \notin Conns
          BY <2>5, <4>2 DEF BackendDntxed, Accept
        <4>. QED
          BY <4>1, <4>2
      <3>. QED
        BY <2>5, <3>1 DEF BackendDntxed
    <2>. QED
      BY <1>2, <2>1, <2>2, <2>3, <2>4, <2>5 DEF HandlerStep
  <1>3. CASE WriterStep
    <2> SUFFICES ASSUME NEW c \in Conns,
                        WriterSend(c) \/ WriterFails(c) \/ WriterCancelled(c)
                 PROVE  TypeOK'
      BY <1>3 DEF WriterStep
    <2>1. CASE WriterSend(c)
      <3>1. /\ Tail(queue[c]) \in Seq(Message)
            /\ Append(wire[c], Head(queue[c])) \in Seq(Message)
        BY <2>1 DEF WriterSend
      <3>. QED
        BY <2>1, <3>1 DEF WriterSend
    <2>2. CASE WriterFails(c)
      BY <2>2 DEF WriterFails, DropReceiver
    <2>3. CASE WriterCancelled(c)
      BY <2>3 DEF WriterCancelled, DropReceiver
    <2>. QED
      BY <2>1, <2>2, <2>3
  <1>4. CASE UplinkStep
    <2>1. CASE UplinkStart
      <3>1. up' \in Locals
        <4>1. uplinks + 1 \in Nat
          OBVIOUS
        <4>. QED
          BY <2>1, <4>1, LocalsTyped DEF UplinkStart
      <3>. QED
        BY <2>1, <3>1 DEF UplinkStart
    <2>2. CASE UplinkReadConfig
      <3>1. up' \in Locals
        BY <2>2, LocalsTyped DEF UplinkReadConfig
      <3>. QED
        BY <2>2, <3>1 DEF UplinkReadConfig
    <2>3. CASE UplinkReadMux
      <3>1. up' \in Locals
        BY <2>3, LocalsTyped DEF UplinkReadMux
      <3>. QED
        BY <2>3, <3>1 DEF UplinkReadMux
    <2>4. CASE UplinkReadSession
      <3>1. up' \in Locals
        BY <2>4, LocalsTyped DEF UplinkReadSession
      <3>. QED
        BY <2>4, <3>1 DEF UplinkReadSession
    <2>5. CASE UplinkEncodeFails
      <3>1. up' \in Locals
        BY <2>5, LocalsTyped DEF UplinkEncodeFails
      <3>. QED
        BY <2>5, <3>1 DEF UplinkEncodeFails
    <2>6. CASE UplinkClearMux
      <3>1. up' \in Locals
        BY <2>6, LocalsTyped DEF UplinkClearMux
      <3>. QED
        BY <2>6, <3>1 DEF UplinkClearMux, None
    <2>7. CASE UplinkSend
      <3>1. queue' \in [Conns -> Seq(Message)] /\ accepted' \in [Conns -> Seq(Message)]
        <4>1. CASE up.sender \in Conns
          BY <2>7, <4>1, MessagesTyped, AcceptTyped DEF UplinkSend
        <4>2. CASE up.sender \notin Conns
          BY <2>7, <4>2 DEF UplinkSend, Accept
        <4>. QED
          BY <4>1, <4>2
      <3>. QED
        BY <2>7, <3>1, LocalsTyped DEF UplinkSend
    <2>. QED
      BY <1>4, <2>1, <2>2, <2>3, <2>4, <2>5, <2>6, <2>7 DEF UplinkStep
  <1>5. CASE UNCHANGED vars
    BY <1>5 DEF vars
  <1>. QED
    BY <1>1, <1>2, <1>3, <1>4, <1>5 DEF Next

\* The statics, the channels and the locals of the tasks keep their types
\* whatever the tasks interleave; SESSION_COUNTER stays within its width.
THEOREM TypeCorrect == Spec => []TypeOK
  BY TypeInit, TypeStep, PTL DEF Spec

-----------------------------------------------------------------------------
(* The link invariant: the channels, the statics and the locals of the     *)
(* running send_uplink agree on the connection they belong to.             *)

\* Dropping the receiver of a channel leaves nothing alive or queued there.
LEMMA DropFacts ==
    ASSUME TypeOK, NEW c \in Conns, DropReceiver(c)
    PROVE  \A d \in Conns :
              /\ rx'[d] = IF d = c THEN "dropped" ELSE rx[d]
              /\ queue'[d] = IF d = c THEN <<>> ELSE queue[d]
  BY DEF TypeOK, DropReceiver

\* After a send(), a queue holds what it held and at most the new message.
LEMMA AcceptFacts ==
    ASSUME TypeOK, NEW c \in Conns, NEW m \in Message, Accept(c, m)
    PROVE  \A d \in Conns : \A i \in 1..Len(queue'[d]) :
              \/ i \in 1..Len(queue[d]) /\ queue'[d][i] = queue[d][i]
              \/ d = c /\ Alive(c) /\ queue'[d][i] = m
  <1> SUFFICES ASSUME NEW d \in Conns, NEW i \in 1..Len(queue'[d])
               PROVE  \/ i \in 1..Len(queue[d]) /\ queue'[d][i] = queue[d][i]
                      \/ d = c /\ Alive(c) /\ queue'[d][i] = m
    OBVIOUS
  <1>1. queue[d] \in Seq(Message) /\ queue \in [Conns -> Seq(Message)]
    BY DEF TypeOK
  <1>2. CASE d = c /\ Alive(c)
    <2>1. queue'[d] = Append(queue[d], m)
      BY <1>1, <1>2 DEF Accept
    <2>. QED
      BY <1>1, <1>2, <2>1
  <1>3. CASE ~(d = c /\ Alive(c))
    <2>1. queue'[d] = queue[d]
      BY <1>1, <1>3 DEF Accept
    <2>. QED
      BY <1>1, <2>1
  <1>. QED
    BY <1>2, <1>3

\* The fields of the locals after the updates of send_uplink.
LEMMA LocalsFields ==
    /\ Idle.pc = "idle" /\ Idle.sender = 0 /\ Idle.config = 0
    /\ \A n, c : LET u == [Idle EXCEPT !.pc = "config", !.id = n, !.sender = c]
               IN  u.pc = "config" /\ u.sender = c /\ u.config = 0
    /\ \A c : LET u == [up EXCEPT !.pc = "mux", !.config = c]
            IN  up \in Locals =>
                  u.pc = "mux" /\ u.config = c /\ u.sender = up.sender
  <1>1. Idle.pc = "idle" /\ Idle.sender = 0 /\ Idle.config = 0
    BY DEF Idle, None
  <1>2. \A v \in Locals : \A n, c :
           LET u == [v EXCEPT !.pc = "config", !.id = n, !.sender = c]
           IN  u.pc = "config" /\ u.sender = c /\ u.config = v.config
    BY DEF Locals
  <1>3. \A v \in Locals : \A c :
           LET u == [v EXCEPT !.pc = "mux", !.config = c]
           IN  u.pc = "mux" /\ u.config = c /\ u.sender = v.sender
    BY DEF Locals
  <1>4. Idle \in Locals
    BY LocalsTyped
  <1>5. \A n, c : LET u == [Idle EXCEPT !.pc = "config", !.id = n, !.sender = c]
                IN  u.pc = "config" /\ u.sender = c /\ u.config = 0
    BY <1>1, <1>2, <1>4
  <1>. QED
    BY <1>1, <1>3, <1>5

\* LinkInv holds before anything is connected.
LEMMA LinkInit == Init => LinkInv
  BY DEF Init, LinkInv, ChannelInv, StaticsInv, UplinkInv, QueueInv, WireInv,
         Alive, Connected, Conns, None, Idle

\* Steps of connection_loop and run.
LEMMA LinkLoop ==
    ASSUME PromptAbort, TypeOK, LinkInv, LoopStep
    PROVE  LinkInv'
  <1> USE DEF LinkInv, Alive, Connected, connVars, chanVars, upVars
  <1>1. CASE LoopStep
    <2>1. CASE BeginAttempt
      <3>1. \A c \in Conns : ~Alive(c)
        BY <2>1 DEF BeginAttempt, ChannelInv
      <3>2. ChannelInv'
        BY <2>1 DEF BeginAttempt, ChannelInv
      <3>3. StaticsInv'
        BY <2>1 DEF BeginAttempt, StaticsInv
      <3>4. UplinkInv'
        BY <2>1, <3>1 DEF BeginAttempt, UplinkInv
      <3>5. QueueInv'
        BY <2>1, <3>1 DEF BeginAttempt, QueueInv
      <3>6. WireInv'
        BY <2>1 DEF BeginAttempt, WireInv
      <3>. QED
        BY <3>2, <3>3, <3>4, <3>5, <3>6
    <2>2. CASE AttemptFails
      <3>1. ChannelInv'
        BY <2>2 DEF AttemptFails, ChannelInv
      <3>2. StaticsInv'
        BY <2>2 DEF AttemptFails, StaticsInv
      <3>3. UplinkInv'
        BY <2>2 DEF AttemptFails, UplinkInv
      <3>4. QueueInv'
        BY <2>2 DEF AttemptFails, QueueInv
      <3>5. WireInv'
        BY <2>2 DEF AttemptFails, WireInv
      <3>. QED
        BY <3>1, <3>2, <3>3, <3>4, <3>5
    <2>3. CASE ConnectFails
      <3>1. ChannelInv'
        BY <2>3 DEF ConnectFails, ChannelInv
      <3>2. StaticsInv'
        BY <2>3 DEF ConnectFails, StaticsInv
      <3>3. UplinkInv'
        BY <2>3 DEF ConnectFails, UplinkInv
      <3>4. QueueInv'
        BY <2>3 DEF ConnectFails, QueueInv
      <3>5. WireInv'
        BY <2>3 DEF ConnectFails, WireInv
      <3>. QED
        BY <3>1, <3>2, <3>3, <3>4, <3>5
    <2>4. CASE Connect
      <3>1. \A c \in Conns : ~Alive(c)
        BY <2>4 DEF Connect, ChannelInv
      <3>2. conn \in Nat /\ conn + 1 \in Conns
        BY <2>4, BoundsAssumption DEF Connect, TypeOK, Conns
      <3>3. \A c \in Conns : rx'[c] = IF c = conn + 1 THEN "run" ELSE rx[c]
        BY <2>4 DEF Connect, TypeOK
      <3>4. rx[conn + 1] = "none"
        BY <3>2 DEF ChannelInv
      <3>5. up.sender \in Nat /\ up.sender <= conn
        BY BoundsAssumption DEF TypeOK, Locals, UplinkInv
      <3>6. up.sender # conn + 1 /\ up.sender <= conn + 1
        BY <3>2, <3>5
      <3>7. \A c \in Conns : c \in Nat
        BY DEF Conns
      <3>8. ChannelInv'
        BY <2>4, <3>1, <3>2, <3>3, <3>4, <3>7 DEF Connect, ChannelInv
      <3>9. StaticsInv'
        BY <2>4 DEF Connect, StaticsInv
      <3>10. UplinkInv'
        BY <2>4, <3>1, <3>2, <3>3, <3>6 DEF Connect, UplinkInv
      <3>11. QueueInv'
        BY <2>4 DEF Connect, QueueInv
      <3>12. WireInv'
        BY <2>4, <3>1, <3>2, <3>3, <3>4 DEF Connect, WireInv
      <3>. QED
        BY <3>8, <3>9, <3>10, <3>11, <3>12
    <2>5. CASE VersionFails
      <3>1. conn \in Conns
        BY <2>5 DEF VersionFails, ChannelInv
      <3>2. \A d \in Conns :
              /\ rx'[d] = IF d = conn THEN "dropped" ELSE rx[d]
              /\ queue'[d] = IF d = conn THEN <<>> ELSE queue[d]
        BY <2>5, <3>1, DropFacts DEF VersionFails
      <3>3. ChannelInv'
        BY <2>5, <3>1, <3>2 DEF VersionFails, ChannelInv
      <3>4. StaticsInv'
        BY <2>5 DEF VersionFails, StaticsInv
      <3>5. UplinkInv'
        BY <2>5, <3>1, <3>2 DEF VersionFails, UplinkInv
      <3>6. QueueInv'
        BY <2>5, <3>1, <3>2 DEF VersionFails, QueueInv
      <3>7. WireInv'
        BY <2>5, <3>1, <3>2 DEF VersionFails, WireInv
      <3>. QED
        BY <3>3, <3>4, <3>5, <3>6, <3>7
    <2>6. CASE SendVersion
      <3>1. ChannelInv'
        BY <2>6 DEF SendVersion, ChannelInv
      <3>2. StaticsInv'
        BY <2>6 DEF SendVersion, StaticsInv
      <3>3. UplinkInv'
        BY <2>6 DEF SendVersion, UplinkInv
      <3>4. QueueInv'
        BY <2>6 DEF SendVersion, QueueInv
      <3>5. WireInv'
        BY <2>6 DEF SendVersion, WireInv
      <3>. QED
        BY <3>1, <3>2, <3>3, <3>4, <3>5
    <2>7. CASE SpawnWriter
      <3>1. conn \in Conns /\ rx[conn] = "run"
        BY <2>7 DEF SpawnWriter, ChannelInv
      <3>2. \A c \in Conns :
              /\ rx'[c] = IF c = conn THEN "writer" ELSE rx[c]
              /\ connSession'[c] = IF c = conn THEN session ELSE connSession[c]
        BY <2>7 DEF SpawnWriter, TypeOK
      <3>3. ChannelInv'
        BY <2>7, <3>1, <3>2 DEF SpawnWriter, ChannelInv
      <3>4. StaticsInv'
        BY <2>7 DEF SpawnWriter, StaticsInv
      <3>5. UplinkInv'
        BY <2>7, <3>1, <3>2 DEF SpawnWriter, UplinkInv
      <3>6. QueueInv'
        BY <2>7 DEF SpawnWriter, QueueInv
      <3>7. WireInv'
        BY <2>7, <3>1, <3>2 DEF SpawnWriter, WireInv
      <3>. QED
        BY <3>3, <3>4, <3>5, <3>6, <3>7
    <2>8. CASE ReadEnds
      <3>1. \A c \in Conns :
              rx'[c] = IF c = conn /\ rx[c] = "writer" THEN "aborted" ELSE rx[c]
        BY <2>8 DEF ReadEnds, TypeOK
      <3>2. ChannelInv'
        BY <2>8, <3>1 DEF ReadEnds, ChannelInv
      <3>3. StaticsInv'
        BY <2>8 DEF ReadEnds, StaticsInv
      <3>4. UplinkInv'
        BY <2>8 DEF ReadEnds, UplinkInv
      <3>5. QueueInv'
        BY <2>8 DEF ReadEnds, QueueInv
      <3>6. WireInv'
        BY <2>8 DEF ReadEnds, WireInv
      <3>. QED
        BY <3>2, <3>3, <3>4, <3>5, <3>6
    <2>9. CASE ClearSender
      <3>1. ChannelInv'
        BY <2>9 DEF ClearSender, ChannelInv
      <3>2. StaticsInv'
        BY <2>9 DEF ClearSender, StaticsInv
      <3>3. UplinkInv'
        BY <2>9 DEF ClearSender, UplinkInv
      <3>4. QueueInv'
        BY <2>9 DEF ClearSender, QueueInv
      <3>5. WireInv'
        BY <2>9 DEF ClearSender, WireInv
      <3>. QED
        BY <3>1, <3>2, <3>3, <3>4, <3>5
    <2>10. CASE ClearConfig
      <3>1. ChannelInv'
        BY <2>10 DEF ClearConfig, ChannelInv
      <3>2. StaticsInv'
        BY <2>10 DEF ClearConfig, StaticsInv
      <3>3. UplinkInv'
        BY <2>10 DEF ClearConfig, UplinkInv
      <3>4. QueueInv'
        BY <2>10 DEF ClearConfig, QueueInv
      <3>5. WireInv'
        BY <2>10 DEF ClearConfig, WireInv
      <3>. QED
        BY <3>1, <3>2, <3>3, <3>4, <3>5
    <2>11. CASE Wake
      <3>1. \A c \in Conns : ~Alive(c)
        BY <2>11 DEF Wake, ChannelInv
      <3>2. ChannelInv'
        BY <2>11, <3>1 DEF Wake, ChannelInv
      <3>3. StaticsInv'
        BY <2>11 DEF Wake, StaticsInv
      <3>4. UplinkInv'
        BY <2>11 DEF Wake, UplinkInv
      <3>5. QueueInv'
        BY <2>11 DEF Wake, QueueInv
      <3>6. WireInv'
        BY <2>11 DEF Wake, WireInv
      <3>. QED
        BY <3>2, <3>3, <3>4, <3>5, <3>6
    <2>. QED
      BY <1>1, <2>1, <2>2, <2>3, <2>4, <2>5, <2>6, <2>7, <2>8, <2>9, <2>10, <2>11 DEF LoopStep
  <1>. QED
    BY <1>1

\* Steps of handle_text_message.
LEMMA LinkHandler ==
    ASSUME PromptAbort, TypeOK, LinkInv, HandlerStep
    PROVE  LinkInv'
  <1> USE DEF LinkInv, Alive, Connected, connVars, chanVars, upVars
  <1>1. CASE HandlerStep
    <2>1. CASE \E type \in MsgTypes, hasMux \in BOOLEAN : ReadMessage(type, hasMux)
      <3>1. ChannelInv'
        BY <2>1 DEF ReadMessage, ChannelInv
      <3>2. StaticsInv'
        BY <2>1 DEF ReadMessage, StaticsInv
      <3>3. UplinkInv'
        BY <2>1 DEF ReadMessage, UplinkInv
      <3>4. QueueInv'
        BY <2>1 DEF ReadMessage, QueueInv
      <3>5. WireInv'
        BY <2>1 DEF ReadMessage, WireInv
      <3>. QED
        BY <3>1, <3>2, <3>3, <3>4, <3>5
    <2>2. CASE StoreConfig
      <3>1. ChannelInv'
        BY <2>2 DEF StoreConfig, ChannelInv
      <3>2. StaticsInv'
        BY <2>2 DEF StoreConfig, StaticsInv
      <3>3. UplinkInv'
        BY <2>2 DEF StoreConfig, UplinkInv
      <3>4. QueueInv'
        BY <2>2 DEF StoreConfig, QueueInv
      <3>5. WireInv'
        BY <2>2 DEF StoreConfig, WireInv
      <3>. QED
        BY <3>1, <3>2, <3>3, <3>4, <3>5
    <2>3. CASE LookupConfig
      <3>1. ChannelInv'
        BY <2>3 DEF LookupConfig, ChannelInv
      <3>2. StaticsInv'
        BY <2>3 DEF LookupConfig, StaticsInv
      <3>3. UplinkInv'
        BY <2>3 DEF LookupConfig, UplinkInv
      <3>4. QueueInv'
        BY <2>3 DEF LookupConfig, QueueInv
      <3>5. WireInv'
        BY <2>3 DEF LookupConfig, WireInv
      <3>. QED
        BY <3>1, <3>2, <3>3, <3>4, <3>5
    <2>4. CASE BackendQuiet
      <3>1. ChannelInv'
        BY <2>4 DEF BackendQuiet, ChannelInv
      <3>2. StaticsInv'
        BY <2>4 DEF BackendQuiet, StaticsInv
      <3>3. UplinkInv'
        BY <2>4 DEF BackendQuiet, UplinkInv
      <3>4. QueueInv'
        BY <2>4 DEF BackendQuiet, QueueInv
      <3>5. WireInv'
        BY <2>4 DEF BackendQuiet, WireInv
      <3>. QED
        BY <3>1, <3>2, <3>3, <3>4, <3>5
    <2>5. CASE BackendDntxed
      <3>1. conn \in Conns /\ Dntxed \in Message
        BY <2>5, MessagesTyped DEF BackendDntxed, ChannelInv
      <3>2. routerConfig = conn
        BY <2>5 DEF BackendDntxed, StaticsInv
      <3>3. Dntxed.config = conn /\ Stamped(Dntxed, session)
        BY <3>2 DEF Dntxed, Stamped
      <3>4. \A d \in Conns : \A i \in 1..Len(queue'[d]) :
              \/ i \in 1..Len(queue[d]) /\ queue'[d][i] = queue[d][i]
              \/ d = conn /\ Alive(conn) /\ queue'[d][i] = Dntxed
        BY <2>5, <3>1, AcceptFacts DEF BackendDntxed
      <3>5. ChannelInv'
        BY <2>5 DEF BackendDntxed, ChannelInv
      <3>6. StaticsInv'
        BY <2>5 DEF BackendDntxed, StaticsInv
      <3>7. UplinkInv'
        BY <2>5 DEF BackendDntxed, UplinkInv
      <3>8. QueueInv'
        BY <2>5, <3>1, <3>3, <3>4 DEF BackendDntxed, QueueInv
      <3>9. WireInv'
        BY <2>5 DEF BackendDntxed, WireInv
      <3>. QED
        BY <3>5, <3>6, <3>7, <3>8, <3>9
    <2>. QED
      BY <1>1, <2>1, <2>2, <2>3, <2>4, <2>5 DEF HandlerStep
  <1>. QED
    BY <1>1

\* Steps of send_uplink.
LEMMA LinkUplink ==
    ASSUME PromptAbort, TypeOK, LinkInv, UplinkStep
    PROVE  LinkInv'
  <1> USE DEF LinkInv, Alive, Connected, connVars, chanVars, upVars
  <1>1. CASE UplinkStep
    <2>1. CASE UplinkStart
      <3>1. conn \in Nat /\ Idle.pc = "idle" /\ Idle.sender = 0
        BY LocalsFields, BoundsAssumption DEF TypeOK
      <3>2. wsSender # None => wsSender \in Conns /\ wsSender = conn
        BY BoundsAssumption DEF TypeOK, Conns, None, StaticsInv
      <3>3. \/ up' = Idle
            \/ wsSender # None /\ up'.pc = "config" /\ up'.sender = wsSender
        BY <2>1, LocalsFields DEF UplinkStart
      <3>4. ChannelInv'
        BY <2>1 DEF UplinkStart, ChannelInv
      <3>5. StaticsInv'
        BY <2>1 DEF UplinkStart, StaticsInv
      <3>6. UplinkInv'
        BY <2>1, <3>1, <3>2, <3>3 DEF UplinkStart, UplinkInv
      <3>7. QueueInv'
        BY <2>1 DEF UplinkStart, QueueInv
      <3>8. WireInv'
        BY <2>1 DEF UplinkStart, WireInv
      <3>. QED
        BY <3>4, <3>5, <3>6, <3>7, <3>8
    <2>2. CASE UplinkReadConfig
      <3>1. conn \in Nat /\ Idle.pc = "idle" /\ Idle.sender = 0
        BY LocalsFields, BoundsAssumption DEF TypeOK
      <3>2. routerConfig # None => routerConfig = conn
        BY DEF StaticsInv
      <3>3. \/ up' = Idle
            \/ /\ routerConfig # None /\ up'.pc = "mux"
               /\ up'.config = routerConfig /\ up'.sender = up.sender
        BY <2>2, LocalsFields DEF UplinkReadConfig, TypeOK
      <3>4. up.sender \in Conns /\ up.sender <= conn
        BY <2>2 DEF UplinkReadConfig, UplinkInv
      <3>5. Alive(up.sender) => up.sender = conn
        BY <3>4 DEF ChannelInv
      <3>6. ChannelInv'
        BY <2>2 DEF UplinkReadConfig, ChannelInv
      <3>7. StaticsInv'
        BY <2>2 DEF UplinkReadConfig, StaticsInv
      <3>8. UplinkInv'
        BY <2>2, <3>1, <3>2, <3>3, <3>4, <3>5 DEF UplinkReadConfig, UplinkInv
      <3>9. QueueInv'
        BY <2>2 DEF UplinkReadConfig, QueueInv
      <3>10. WireInv'
        BY <2>2 DEF UplinkReadConfig, WireInv
      <3>. QED
        BY <3>6, <3>7, <3>8, <3>9, <3>10
    <2>3. CASE UplinkReadMux
      <3>1. ChannelInv'
        BY <2>3 DEF UplinkReadMux, ChannelInv
      <3>2. StaticsInv'
        BY <2>3 DEF UplinkReadMux, StaticsInv
      <3>3. UplinkInv'
        BY <2>3 DEF UplinkReadMux, UplinkInv
      <3>4. QueueInv'
        BY <2>3 DEF UplinkReadMux, QueueInv
      <3>5. WireInv'
        BY <2>3 DEF UplinkReadMux, WireInv
      <3>. QED
        BY <3>1, <3>2, <3>3, <3>4, <3>5
    <2>4. CASE UplinkReadSession
      <3>1. ChannelInv'
        BY <2>4 DEF UplinkReadSession, ChannelInv
      <3>2. StaticsInv'
        BY <2>4 DEF UplinkReadSession, StaticsInv
      <3>3. UplinkInv'
        BY <2>4 DEF UplinkReadSession, UplinkInv
      <3>4. QueueInv'
        BY <2>4 DEF UplinkReadSession, QueueInv
      <3>5. WireInv'
        BY <2>4 DEF UplinkReadSession, WireInv
      <3>. QED
        BY <3>1, <3>2, <3>3, <3>4, <3>5
    <2>5. CASE UplinkEncodeFails
      <3>1. conn \in Nat /\ Idle.pc = "idle" /\ Idle.sender = 0
        BY LocalsFields, BoundsAssumption DEF TypeOK
      <3>2. ChannelInv'
        BY <2>5 DEF UplinkEncodeFails, ChannelInv
      <3>3. StaticsInv'
        BY <2>5 DEF UplinkEncodeFails, StaticsInv
      <3>4. UplinkInv'
        BY <2>5, <3>1 DEF UplinkEncodeFails, UplinkInv
      <3>5. QueueInv'
        BY <2>5 DEF UplinkEncodeFails, QueueInv
      <3>6. WireInv'
        BY <2>5 DEF UplinkEncodeFails, WireInv
      <3>. QED
        BY <3>2, <3>3, <3>4, <3>5, <3>6
    <2>6. CASE UplinkClearMux
      <3>1. ChannelInv'
        BY <2>6 DEF UplinkClearMux, ChannelInv
      <3>2. StaticsInv'
        BY <2>6 DEF UplinkClearMux, StaticsInv
      <3>3. UplinkInv'
        BY <2>6 DEF UplinkClearMux, UplinkInv
      <3>4. QueueInv'
        BY <2>6 DEF UplinkClearMux, QueueInv
      <3>5. WireInv'
        BY <2>6 DEF UplinkClearMux, WireInv
      <3>. QED
        BY <3>1, <3>2, <3>3, <3>4, <3>5
    <2>7. CASE UplinkSend
      <3>1. conn \in Nat /\ Idle.pc = "idle" /\ Idle.sender = 0
        BY LocalsFields, BoundsAssumption DEF TypeOK
      <3>2. up.sender \in Conns /\ Updf \in Message
        BY <2>7, MessagesTyped DEF UplinkSend, UplinkInv
      <3>3. Updf.config = up.config /\ Updf.session = up.session
        BY DEF Updf
      <3>4. Alive(up.sender) => up.config = up.sender /\ up.session = session
        BY <2>7 DEF UplinkSend, UplinkInv
      <3>5. \A d \in Conns : \A i \in 1..Len(queue'[d]) :
              \/ i \in 1..Len(queue[d]) /\ queue'[d][i] = queue[d][i]
              \/ d = up.sender /\ Alive(up.sender) /\ queue'[d][i] = Updf
        BY <2>7, <3>2, AcceptFacts DEF UplinkSend
      <3>6. ChannelInv'
        BY <2>7 DEF UplinkSend, ChannelInv
      <3>7. StaticsInv'
        BY <2>7 DEF UplinkSend, StaticsInv
      <3>8. UplinkInv'
        BY <2>7, <3>1 DEF UplinkSend, UplinkInv
      <3>9. QueueInv'
        BY <2>7, <3>2, <3>3, <3>4, <3>5 DEF UplinkSend, QueueInv, Stamped
      <3>10. WireInv'
        BY <2>7 DEF UplinkSend, WireInv
      <3>. QED
        BY <3>6, <3>7, <3>8, <3>9, <3>10
    <2>. QED
      BY <1>1, <2>1, <2>2, <2>3, <2>4, <2>5, <2>6, <2>7 DEF UplinkStep
  <1>. QED
    BY <1>1

\* Steps of a write task.
LEMMA LinkWriter ==
    ASSUME PromptAbort, TypeOK, LinkInv, WriterStep
    PROVE  LinkInv'
  <1> USE DEF LinkInv, Alive, Connected, connVars, chanVars, upVars
  <1>1. ASSUME NEW c \in Conns, WriterSend(c) PROVE LinkInv'
    <2>1. queue[c] \in Seq(Message) /\ wire[c] \in Seq(Message)
      BY DEF TypeOK
    <2>2. /\ Head(queue[c]).config = c /\ rx[c] \in {"writer", "aborted"}
            /\ Stamped(Head(queue[c]), connSession[c])
      BY <1>1, <2>1 DEF WriterSend, QueueInv, ChannelInv
    <2>3. \A d \in Conns : wire'[d] = IF d = c THEN Append(wire[c], Head(queue[c]))
                                       ELSE wire[d]
      BY <1>1 DEF WriterSend, TypeOK
    <2>4. \A i \in 1..Len(wire'[c]) :
              \/ i \in 1..Len(wire[c]) /\ wire'[c][i] = wire[c][i]
              \/ wire'[c][i] = Head(queue[c])
      <3>1. wire'[c] = Append(wire[c], Head(queue[c]))
        BY <2>3
      <3>2. Len(wire[c]) \in Nat
        BY <2>1
      <3>. QED
        BY <2>1, <3>1, <3>2
    <2>5. ChannelInv'
      BY <1>1 DEF WriterSend, ChannelInv
    <2>6. StaticsInv'
      BY <1>1 DEF WriterSend, StaticsInv
    <2>7. UplinkInv'
      BY <1>1 DEF WriterSend, UplinkInv
    <2>8. QueueInv'
      BY <1>1 DEF WriterSend, QueueInv
    <2>9. WireInv'
      BY <1>1, <2>1, <2>2, <2>3, <2>4 DEF WriterSend, WireInv
    <2>. QED
      BY <2>5, <2>6, <2>7, <2>8, <2>9
  <1>2. ASSUME NEW c \in Conns, WriterFails(c) PROVE LinkInv'
    <2>1. \A d \in Conns :
              /\ rx'[d] = IF d = c THEN "dropped" ELSE rx[d]
              /\ queue'[d] = IF d = c THEN <<>> ELSE queue[d]
      BY <1>2, DropFacts DEF WriterFails
    <2>2. ChannelInv'
      BY <1>2, <2>1 DEF WriterFails, ChannelInv
    <2>3. StaticsInv'
      BY <1>2 DEF WriterFails, StaticsInv
    <2>4. UplinkInv'
      BY <1>2, <2>1 DEF WriterFails, UplinkInv
    <2>5. QueueInv'
      BY <1>2, <2>1 DEF WriterFails, QueueInv
    <2>6. WireInv'
      BY <1>2, <2>1 DEF WriterFails, WireInv
    <2>. QED
      BY <2>2, <2>3, <2>4, <2>5, <2>6
  <1>3. ASSUME NEW c \in Conns, WriterCancelled(c) PROVE LinkInv'
    <2>1. \A d \in Conns :
              /\ rx'[d] = IF d = c THEN "dropped" ELSE rx[d]
              /\ queue'[d] = IF d = c THEN <<>> ELSE queue[d]
      BY <1>3, DropFacts DEF WriterCancelled
    <2>2. ChannelInv'
      BY <1>3, <2>1 DEF WriterCancelled, ChannelInv
    <2>3. StaticsInv'
      BY <1>3 DEF WriterCancelled, StaticsInv
    <2>4. UplinkInv'
      BY <1>3, <2>1 DEF WriterCancelled, UplinkInv
    <2>5. QueueInv'
      BY <1>3, <2>1 DEF WriterCancelled, QueueInv
    <2>6. WireInv'
      BY <1>3, <2>1 DEF WriterCancelled, WireInv
    <2>. QED
      BY <2>2, <2>3, <2>4, <2>5, <2>6
  <1>. QED
    BY <1>1, <1>2, <1>3 DEF WriterStep

\* Every step of every task keeps LinkInv.
LEMMA LinkStep ==
    ASSUME PromptAbort, TypeOK, LinkInv, [Next]_vars
    PROVE  LinkInv'
  <1>1. CASE UNCHANGED vars
    BY <1>1 DEF vars, LinkInv, ChannelInv, StaticsInv, UplinkInv, QueueInv,
                WireInv, Alive
  <1>. QED
    BY <1>1, LinkLoop, LinkHandler, LinkWriter, LinkUplink DEF Next

-----------------------------------------------------------------------------
(* The traffic invariant: what was accepted, queued and written, and the   *)
(* MuxTimes on their way into it.  It needs no bound on the life of an     *)
(* aborted write task.                                                     *)

\* A step that leaves the connection, and its opening, alone.
Quiet ==
    /\ conn' = conn
    /\ \/ pc' = pc
       \/ /\ pc \notin {"version", "spawn"} /\ pc' \notin {"version", "spawn"}
          /\ pc' \in Connected => pc \in Connected

\* What was accepted and is queued after a send(): at most the new message more.
LEMMA AcceptExtends ==
    ASSUME TypeOK, NEW c \in Conns, NEW m \in Message, Accept(c, m)
    PROVE  \A d \in Conns :
              IF d = c /\ Alive(c)
              THEN /\ queue'[d] = Append(queue[d], m)
                   /\ accepted'[d] = Append(accepted[d], m)
              ELSE queue'[d] = queue[d] /\ accepted'[d] = accepted[d]
  BY DEF TypeOK, Accept

\* The elements of what was accepted after a send().
LEMMA AcceptElements ==
    ASSUME TypeOK, NEW c \in Conns, NEW m \in Message, Accept(c, m),
           NEW d \in Conns, NEW i \in 1..Len(accepted'[d])
    PROVE  \/ i \in 1..Len(accepted[d]) /\ accepted'[d][i] = accepted[d][i]
           \/ /\ d = c /\ Alive(c)
              /\ i = Len(accepted[d]) + 1 /\ accepted'[d][i] = m
  <1>1. accepted[d] \in Seq(Message) /\ Len(accepted[d]) \in Nat
    BY DEF TypeOK
  <1>2. CASE d = c /\ Alive(c)
    <2>1. accepted'[d] = Append(accepted[d], m)
      BY <1>2, AcceptExtends
    <2>. QED
      BY <1>1, <1>2, <2>1
  <1>3. CASE ~(d = c /\ Alive(c))
    <2>1. accepted'[d] = accepted[d]
      BY <1>3, AcceptExtends
    <2>. QED
      BY <1>1, <2>1
  <1>. QED
    BY <1>2, <1>3

\* What a step may do to the channels.
LEMMA ChannelSteps ==
    ASSUME TypeOK, TrafficInv, [Next]_vars
    PROVE  \/ Connect \/ VersionFails \/ SendVersion \/ SpawnWriter \/ ReadEnds
           \/ /\ BackendDntxed /\ conn \in Conns /\ Dntxed \in Message
              /\ Accept(conn, Dntxed) /\ UNCHANGED rx /\ UNCHANGED wire /\ Quiet
           \/ /\ UplinkSend /\ up.sender \in Conns /\ Updf \in Message
              /\ Accept(up.sender, Updf) /\ UNCHANGED rx /\ UNCHANGED wire /\ Quiet
           \/ /\ \E c \in Conns : WriterSend(c) \/ WriterFails(c) \/ WriterCancelled(c)
              /\ Quiet
           \/ /\ UNCHANGED rx /\ UNCHANGED wire /\ UNCHANGED queue
              /\ UNCHANGED accepted /\ Quiet
  <1> USE DEF Quiet, Connected, connVars, chanVars, upVars
  <1>1. CASE LoopStep
    BY <1>1 DEF LoopStep, BeginAttempt, AttemptFails, ConnectFails, ClearSender,
                ClearConfig, Wake
  <1>2. CASE HandlerStep
    <2>1. CASE BackendDntxed
      BY <2>1, MessagesTyped DEF BackendDntxed, TrafficInv, OwnerInv
    <2>2. CASE ~BackendDntxed
      BY <1>2, <2>2 DEF HandlerStep, ReadMessage, StoreConfig, LookupConfig, BackendQuiet
    <2>. QED
      BY <2>1, <2>2
  <1>3. CASE WriterStep
    BY <1>3 DEF WriterStep, WriterSend, WriterFails, WriterCancelled
  <1>4. CASE UplinkStep
    <2>1. CASE UplinkSend
      BY <2>1, MessagesTyped DEF UplinkSend, TrafficInv, OlderInv
    <2>2. CASE ~UplinkSend
      BY <1>4, <2>2 DEF UplinkStep, UplinkStart, UplinkReadConfig, UplinkReadMux,
                        UplinkReadSession, UplinkEncodeFails, UplinkClearMux
    <2>. QED
      BY <2>1, <2>2
  <1>5. CASE UNCHANGED vars
    BY <1>5 DEF vars
  <1>. QED
    BY <1>1, <1>2, <1>3, <1>4, <1>5 DEF Next

\* The conjuncts hold before anything is connected.
LEMMA TrafficInit == Init => TrafficInv
  <1> SUFFICES ASSUME Init PROVE TrafficInv
    OBVIOUS
  <1> USE DEF Init, None
  <1>1. OwnerInv
    <2>1. \A c \in Conns : c > 0
      BY DEF Conns
    <2>. QED
      BY <2>1 DEF OwnerInv, Connected
  <1>2. StaticsInv
    BY DEF StaticsInv
  <1>3. CarryInv
    BY DEF CarryInv, CarryOf, Written, Alive
  <1>4. OlderInv
    BY DEF OlderInv, Idle
  <1>5. RefInv
    BY DEF RefInv, RefsBelow, Idle
  <1>. QED
    BY <1>1, <1>2, <1>3, <1>4, <1>5 DEF TrafficInv

\* The owner of a receiving half follows the loop.
LEMMA OwnerStep ==
    ASSUME TypeOK, TrafficInv, [Next]_vars
    PROVE  OwnerInv'
  <1> USE DEF TypeOK, Connected
  <1>0. OwnerInv
    BY DEF TrafficInv
  <1>1. CASE Connect
    <2>1. conn \in Nat /\ conn + 1 \in Conns /\ (\A c \in Conns : c \in Nat)
      BY <1>1, BoundsAssumption DEF Connect, Conns
    <2>2. \A c \in Conns : rx'[c] = IF c = conn + 1 THEN "run" ELSE rx[c]
      BY <1>1 DEF Connect
    <2>. QED
      BY <1>0, <1>1, <2>1, <2>2 DEF Connect, OwnerInv
  <1>2. CASE VersionFails
    BY <1>0, <1>2 DEF VersionFails, DropReceiver, OwnerInv
  <1>3. CASE SendVersion
    BY <1>0, <1>3 DEF SendVersion, OwnerInv
  <1>4. CASE SpawnWriter
    BY <1>0, <1>4 DEF SpawnWriter, OwnerInv
  <1>5. CASE ReadEnds
    BY <1>0, <1>5 DEF ReadEnds, OwnerInv
  <1>6. CASE (\E c \in Conns : WriterSend(c) \/ WriterFails(c) \/ WriterCancelled(c)) /\ Quiet
    BY <1>0, <1>6 DEF WriterSend, WriterFails, WriterCancelled, DropReceiver, Quiet, OwnerInv
  <1>7. CASE UNCHANGED rx /\ Quiet
    BY <1>0, <1>7 DEF Quiet, OwnerInv
  <1>. QED
    BY <1>1, <1>2, <1>3, <1>4, <1>5, <1>6, <1>7, ChannelSteps

\* WS_SENDER and ROUTER_CONFIG are those of the latest connection.
LEMMA StaticsStep ==
    ASSUME TypeOK, StaticsInv, [Next]_vars
    PROVE  StaticsInv'
  <1> USE DEF StaticsInv, Connected, connVars, chanVars, upVars
  <1>1. CASE LoopStep
    BY <1>1 DEF LoopStep, BeginAttempt, AttemptFails, ConnectFails, Connect,
                VersionFails, SendVersion, SpawnWriter, ReadEnds, ClearSender,
                ClearConfig, Wake
  <1>2. CASE HandlerStep
    BY <1>2 DEF HandlerStep, ReadMessage, StoreConfig, LookupConfig, BackendQuiet,
                BackendDntxed
  <1>3. CASE WriterStep
    BY <1>3 DEF WriterStep, WriterSend, WriterFails, WriterCancelled
  <1>4. CASE UplinkStep
    BY <1>4 DEF UplinkStep, UplinkStart, UplinkReadConfig, UplinkReadMux,
                UplinkReadSession, UplinkEncodeFails, UplinkClearMux, UplinkSend
  <1>5. CASE UNCHANGED vars
    BY <1>5 DEF vars
  <1>. QED
    BY <1>1, <1>2, <1>3, <1>4, <1>5 DEF Next

\* A channel a step does not touch carries what it carried.
LEMMA CarryFrame ==
    ASSUME NEW c \in Conns, CarryOf(c), rx'[c] = rx[c], wire'[c] = wire[c],
           queue'[c] = queue[c], accepted'[c] = accepted[c],
           rx[c] = "run" => pc' = pc
    PROVE  CarryOf(c)'
  BY DEF CarryOf, Written, Alive

\* Writing the head of a queue moves it from the queue to what is written.
LEMMA WriteHead ==
    ASSUME NEW w \in Seq(Message), NEW q \in Seq(Message), w # <<>>, q # <<>>
    PROVE  /\ Append(w, Head(q)) # <<>> /\ Head(Append(w, Head(q))) = Head(w)
           /\ Tail(Append(w, Head(q))) = Append(Tail(w), Head(q))
           /\ Append(Tail(w), Head(q)) \o Tail(q) = Tail(w) \o q
  <1> DEFINE h == Head(q)
             t == Tail(q)
             v == Tail(w)
  <1>1. /\ h \in Message /\ t \in Seq(Message) /\ v \in Seq(Message)
        /\ Append(w, h) # <<>> /\ <<h>> \in Seq(Message)
    BY HeadTailProperties, AppendProperties
  <1>3. Head(Append(w, h)) = Head(w) /\ Tail(Append(w, h)) = Append(v, h)
    BY HeadTailAppend
  <1>5. q = <<h>> \o t
    BY <1>1, HeadTailAppend, ConcatProperties
  <1>6. Append(v, h) = v \o <<h>>
    BY <1>1, AppendIsConcat
  <1>7. Append(v, h) \o t = v \o q
    BY <1>1, <1>5, <1>6, ConcatAssociative
  <1>. QED
    BY <1>1, <1>3, <1>7

\* What a live channel has written is the beginning of what it has accepted.
LEMMA WrittenFirst ==
    ASSUME NEW v \in Seq(Message), NEW q \in Seq(Message)
    PROVE  /\ Len(v) <= Len(v \o q)
           /\ \A i \in 1..Len(v) : v[i] = (v \o q)[i]
  BY ConcatProperties, LenProperties

\* A send() on a live channel adds to what it owes.
LEMMA ConcatAppend ==
    ASSUME NEW v \in Seq(Message), NEW q \in Seq(Message), NEW m \in Message
    PROVE  Append(v \o q, m) = v \o Append(q, m)
  <1>1. /\ Append(v \o q, m) = (v \o q) \o <<m>> /\ Append(q, m) = q \o <<m>>
        /\ <<m>> \in Seq(Message) /\ v \o q \in Seq(Message)
    BY AppendIsConcat, ConcatProperties
  <1>. QED
    BY <1>1, ConcatAssociative

\* What is written has the type of the wire.
LEMMA WrittenTyped ==
    ASSUME TypeOK, NEW c \in Conns
    PROVE  Written(c) \in Seq(Message)
  BY HeadTailProperties DEF TypeOK, Written

\* A send() extends what a channel owes by one message.
LEMMA CarryAccept ==
    ASSUME TypeOK, NEW c \in Conns, CarryOf(c), NEW d \in Conns, NEW m \in Message,
           Accept(d, m), rx'[c] = rx[c], wire'[c] = wire[c],
           rx[c] = "run" => pc' = pc
    PROVE  CarryOf(c)'
  <1>1. CASE c = d /\ Alive(c)
    <2>1. queue'[c] = Append(queue[c], m) /\ accepted'[c] = Append(accepted[c], m)
      BY <1>1, AcceptExtends
    <2>2. /\ queue[c] \in Seq(Message) /\ Append(queue[c], m) \in Seq(Message)
          /\ Written(c) \in Seq(Message) /\ accepted[c] = Written(c) \o queue[c]
      BY <1>1, WrittenTyped DEF TypeOK, CarryOf
    <2>3. Written(c)' = Written(c)
      BY DEF Written
    <2>4. accepted'[c] = Written(c)' \o queue'[c]
      BY <2>1, <2>2, <2>3, ConcatAppend
    <2>5. /\ Len(Written(c)') <= Len(accepted'[c])
          /\ \A i \in 1..Len(Written(c)') : Written(c)'[i] = accepted'[c][i]
      BY <2>1, <2>2, <2>3, <2>4, WrittenFirst
    <2>6. Alive(c)' /\ rx'[c] # "none"
      BY <1>1 DEF Alive
    <2>. QED
      BY <2>4, <2>5, <2>6 DEF CarryOf
  <1>2. CASE ~(c = d /\ Alive(c))
    BY <1>2, AcceptExtends, CarryFrame
  <1>. QED
    BY <1>1, <1>2

\* Every channel carries what it accepted, in order.
LEMMA CarryStep ==
    ASSUME TypeOK, TrafficInv, [Next]_vars
    PROVE  CarryInv'
  <1> SUFFICES ASSUME NEW c \in Conns PROVE CarryOf(c)'
    BY DEF CarryInv
  <1>0. /\ CarryOf(c) /\ OwnerInv
        /\ queue[c] \in Seq(Message) /\ accepted[c] \in Seq(Message)
        /\ wire[c] \in Seq(Message) /\ Version \in Message
        /\ c \in Nat /\ conn \in Nat
    BY MessagesTyped, BoundsAssumption DEF TypeOK, TrafficInv, CarryInv, Conns
  <1>1. CASE Connect
    <2>1. conn + 1 \in Conns /\ rx[conn + 1] = "none"
      BY <1>0, <1>1, BoundsAssumption DEF Connect, OwnerInv, TypeOK, Conns
    <2>2. rx'[c] = IF c = conn + 1 THEN "run" ELSE rx[c]
      BY <1>1 DEF Connect, TypeOK
    <2>3. CASE c = conn + 1
      <3>1. /\ accepted[c] = <<>> /\ wire[c] = <<>> /\ queue[c] = <<>>
            /\ rx'[c] = "run" /\ pc' = "version"
            /\ UNCHANGED accepted /\ UNCHANGED wire /\ UNCHANGED queue
        BY <1>0, <1>1, <2>1, <2>2, <2>3 DEF Connect, CarryOf, Alive
      <3>2. Written(c)' = <<>> /\ Alive(c)'
        BY <3>1 DEF Written, Alive
      <3>. QED
        BY <3>1, <3>2, EmptySeq, ConcatEmptySeq DEF CarryOf
    <2>4. CASE c # conn + 1
      BY <1>0, <1>1, <2>2, <2>4, CarryFrame DEF Connect, OwnerInv
    <2>. QED
      BY <2>3, <2>4
  <1>2. CASE VersionFails
    <2>1. conn \in Conns /\ rx[conn] = "run"
      BY <1>0, <1>2 DEF VersionFails, OwnerInv, Connected
    <2>2. /\ rx'[c] = IF c = conn THEN "dropped" ELSE rx[c]
          /\ queue'[c] = IF c = conn THEN <<>> ELSE queue[c]
      BY <1>2, <2>1, DropFacts DEF VersionFails
    <2>3. CASE c = conn
      BY <1>0, <1>2, <2>1, <2>2, <2>3 DEF VersionFails, CarryOf, Written, Alive
    <2>4. CASE c # conn
      BY <1>0, <1>2, <2>2, <2>4, CarryFrame DEF VersionFails, OwnerInv
    <2>. QED
      BY <2>3, <2>4
  <1>3. CASE SendVersion
    <2>1. conn \in Conns /\ rx[conn] = "run"
      BY <1>0, <1>3 DEF SendVersion, OwnerInv, Connected
    <2>2. wire'[c] = IF c = conn THEN Append(wire[c], Version) ELSE wire[c]
      BY <1>3 DEF SendVersion, TypeOK
    <2>3. CASE c = conn
      <3>1. /\ wire[c] = <<>> /\ rx'[c] = "run" /\ pc' = "spawn"
            /\ UNCHANGED accepted /\ UNCHANGED queue /\ UNCHANGED rx
        BY <1>0, <1>3, <2>1, <2>3 DEF SendVersion, CarryOf
      <3>2. /\ wire'[c] = <<Version>> /\ wire'[c] # <<>>
            /\ Head(wire'[c]) = Version /\ Tail(wire'[c]) = <<>>
        BY <1>0, <3>1, <2>2, <2>3
      <3>3. Written(c) = <<>> /\ Written(c)' = <<>> /\ (Alive(c)' <=> Alive(c))
        BY <3>1, <3>2 DEF Written, Alive
      <3>. QED
        BY <1>0, <2>1, <2>3, <3>1, <3>2, <3>3 DEF CarryOf
    <2>4. CASE c # conn
      BY <1>0, <1>3, <2>2, <2>4, CarryFrame DEF SendVersion, OwnerInv
    <2>. QED
      BY <2>3, <2>4
  <1>4. CASE SpawnWriter
    <2>1. conn \in Conns /\ rx[conn] = "run"
      BY <1>0, <1>4 DEF SpawnWriter, OwnerInv, Connected
    <2>2. rx'[c] = IF c = conn THEN "writer" ELSE rx[c]
      BY <1>4 DEF SpawnWriter, TypeOK
    <2>3. CASE c = conn
      <3>1. wire[c] = <<Version>> /\ <<Version>> # <<>>
        BY <1>0, <1>4, <2>1, <2>3 DEF SpawnWriter, CarryOf
      <3>2. /\ Written(c)' = Written(c) /\ Alive(c) /\ Alive(c)' /\ rx'[c] = "writer"
            /\ UNCHANGED accepted /\ UNCHANGED queue /\ UNCHANGED wire
        BY <1>4, <2>1, <2>2, <2>3 DEF SpawnWriter, Written, Alive
      <3>. QED
        BY <1>0, <3>1, <3>2 DEF CarryOf
    <2>4. CASE c # conn
      BY <1>0, <1>4, <2>2, <2>4, CarryFrame DEF SpawnWriter, OwnerInv
    <2>. QED
      BY <2>3, <2>4
  <1>5. CASE ReadEnds
    <2>1. rx'[c] = IF c = conn /\ rx[c] = "writer" THEN "aborted" ELSE rx[c]
      BY <1>5 DEF ReadEnds, TypeOK
    <2>2. rx[c] # "run"
      BY <1>0, <1>5 DEF ReadEnds, OwnerInv
    <2>3. CASE c = conn /\ rx[c] = "writer"
      <3>1. /\ Written(c)' = Written(c) /\ Alive(c) /\ Alive(c)' /\ rx'[c] = "aborted"
            /\ UNCHANGED accepted /\ UNCHANGED queue /\ UNCHANGED wire
        BY <1>5, <2>1, <2>3 DEF ReadEnds, Written, Alive
      <3>. QED
        BY <1>0, <2>3, <3>1 DEF CarryOf
    <2>4. CASE ~(c = conn /\ rx[c] = "writer")
      BY <1>0, <1>5, <2>1, <2>2, <2>4, CarryFrame DEF ReadEnds
    <2>. QED
      BY <2>3, <2>4
  <1>6. ASSUME Quiet PROVE rx[c] = "run" => pc' = pc
    BY <1>0, <1>6 DEF Quiet, OwnerInv
  <1>7. CASE \/ /\ conn \in Conns /\ Dntxed \in Message /\ Accept(conn, Dntxed)
                /\ UNCHANGED rx /\ UNCHANGED wire /\ Quiet
             \/ /\ up.sender \in Conns /\ Updf \in Message /\ Accept(up.sender, Updf)
                /\ UNCHANGED rx /\ UNCHANGED wire /\ Quiet
    BY <1>0, <1>6, <1>7, CarryAccept
  <1>8. ASSUME NEW d \in Conns, WriterSend(d), Quiet PROVE CarryOf(c)'
    <2>1. /\ wire'[c] = IF d = c THEN Append(wire[c], Head(queue[c])) ELSE wire[c]
          /\ queue'[c] = IF d = c THEN Tail(queue[c]) ELSE queue[c]
          /\ rx'[c] = rx[c] /\ accepted'[c] = accepted[c]
      BY <1>8 DEF WriterSend, TypeOK
    <2>2. CASE d = c
      <3>1. /\ wire[c] # <<>> /\ queue[c] # <<>> /\ rx[c] \in {"writer", "aborted"}
            /\ wire'[c] = Append(wire[c], Head(queue[c])) /\ queue'[c] = Tail(queue[c])
        BY <1>0, <1>8, <2>1, <2>2 DEF WriterSend, CarryOf
      <3>2. /\ Written(c) = Tail(wire[c]) /\ Written(c)' = Tail(wire'[c])
            /\ accepted[c] = Written(c) \o queue[c]
            /\ Head(wire[c]) = Version
        BY <1>0, <3>1, WriteHead DEF Written, CarryOf, Alive
      <3>3. accepted'[c] = Written(c)' \o queue'[c] /\ Head(wire'[c]) = Version
        <4> DEFINE w == wire[c]
                   q == queue[c]
        <4>1. w \in Seq(Message) /\ q \in Seq(Message) /\ w # <<>> /\ q # <<>>
          BY <1>0, <3>1
        <4>2. /\ Head(Append(w, Head(q))) = Head(w)
              /\ Tail(Append(w, Head(q))) = Append(Tail(w), Head(q))
              /\ Append(Tail(w), Head(q)) \o Tail(q) = Tail(w) \o q
          <5> HIDE DEF w, q
          <5>. QED
            BY <4>1, WriteHead
        <4>. QED
          BY <2>1, <3>1, <3>2, <4>2
      <3>4. Written(c)' \in Seq(Message) /\ queue'[c] \in Seq(Message)
        BY TypeStep, WrittenTyped, <1>0, <3>1, <3>2, HeadTailProperties, WriteHead, AppendProperties
      <3>5. /\ Len(Written(c)') <= Len(accepted'[c])
            /\ \A i \in 1..Len(Written(c)') : Written(c)'[i] = accepted'[c][i]
        BY <3>3, <3>4, WrittenFirst
      <3>6. Alive(c)' /\ rx'[c] \notin {"none", "run"} /\ wire'[c] # <<>>
        BY <1>0, <2>1, <3>1, WriteHead DEF Alive
      <3>. QED
        BY <3>3, <3>5, <3>6 DEF CarryOf
    <2>3. CASE d # c
      BY <1>0, <1>6, <1>8, <2>1, <2>3, CarryFrame
    <2>. QED
      BY <2>2, <2>3
  <1>9. ASSUME NEW d \in Conns, WriterFails(d) \/ WriterCancelled(d), Quiet
        PROVE  CarryOf(c)'
    <2>1. /\ rx'[c] = IF d = c THEN "dropped" ELSE rx[c]
          /\ queue'[c] = IF d = c THEN <<>> ELSE queue[c]
          /\ wire'[c] = wire[c] /\ accepted'[c] = accepted[c]
      BY <1>9, DropFacts DEF WriterFails, WriterCancelled
    <2>2. CASE d = c
      BY <1>0, <1>9, <2>1, <2>2 DEF CarryOf, Written, Alive
    <2>3. CASE d # c
      BY <1>0, <1>6, <1>9, <2>1, <2>3, CarryFrame
    <2>. QED
      BY <2>2, <2>3
  <1>10. CASE /\ UNCHANGED rx /\ UNCHANGED wire /\ UNCHANGED queue
              /\ UNCHANGED accepted /\ Quiet
    BY <1>0, <1>6, <1>10, CarryFrame
  <1>. QED
    BY <1>1, <1>2, <1>3, <1>4, <1>5, <1>7, <1>8, <1>9, <1>10, ChannelSteps

\* Nothing accepted goes back to the configuration of an earlier connection.
LEMMA OlderStep ==
    ASSUME TypeOK, TrafficInv, [Next]_vars
    PROVE  OlderInv'
  <1> USE DEF connVars, chanVars, upVars
  <1>0. /\ OlderInv /\ StaticsInv /\ OwnerInv
        /\ conn \in Nat /\ up.sender \in Nat /\ up.config \in Nat /\ up \in Locals
        /\ routerConfig \in Nat /\ wsSender \in 0..MaxConns
    BY BoundsAssumption DEF TrafficInv, TypeOK, Locals
  <1>1. ASSUME conn' \in Nat, conn' >= conn, up' = up, accepted' = accepted
        PROVE  OlderInv'
    BY <1>0, <1>1 DEF OlderInv
  <1>2. CASE LoopStep
    <2>1. conn' \in Nat /\ conn' >= conn /\ up' = up /\ accepted' = accepted
      BY <1>0, <1>2 DEF LoopStep, BeginAttempt, AttemptFails, ConnectFails, Connect,
           VersionFails, SendVersion, SpawnWriter, ReadEnds, ClearSender,
           ClearConfig, Wake
    <2>. QED
      BY <1>1, <2>1
  <1>3. CASE HandlerStep
    <2>1. CASE BackendDntxed
      <3>1. conn \in Conns /\ Dntxed \in Message /\ routerConfig = conn
        BY <1>0, <2>1, MessagesTyped DEF BackendDntxed, OwnerInv, Connected, StaticsInv
      <3>2. Dntxed.config = conn
        BY <3>1 DEF Dntxed
      <3>3. \A c \in Conns : \A i \in 1..Len(accepted'[c]) : accepted'[c][i].config >= c
        <4> SUFFICES ASSUME NEW c \in Conns, NEW i \in 1..Len(accepted'[c])
                     PROVE  accepted'[c][i].config >= c
          OBVIOUS
        <4>1. \/ i \in 1..Len(accepted[c]) /\ accepted'[c][i] = accepted[c][i]
              \/ c = conn /\ accepted'[c][i] = Dntxed
          BY <2>1, <3>1, AcceptElements DEF BackendDntxed
        <4>. QED
          BY <1>0, <3>2, <4>1 DEF OlderInv
      <3>. QED
        BY <1>0, <2>1, <3>3 DEF BackendDntxed, OlderInv
    <2>2. CASE ~BackendDntxed
      <3>1. conn' = conn /\ up' = up /\ accepted' = accepted
        BY <1>3, <2>2 DEF HandlerStep, ReadMessage, StoreConfig, LookupConfig, BackendQuiet
      <3>. QED
        BY <1>0, <1>1, <3>1
    <2>. QED
      BY <2>1, <2>2
  <1>4. CASE WriterStep
    <2>1. conn' = conn /\ up' = up /\ accepted' = accepted
      BY <1>4 DEF WriterStep, WriterSend, WriterFails, WriterCancelled
    <2>. QED
      BY <1>0, <1>1, <2>1
  <1>5. CASE UplinkStep
    <2>1. CASE UplinkStart
      <3>1. wsSender # None => wsSender \in Conns /\ wsSender = conn
        BY <1>0 DEF Conns, None, StaticsInv
      <3>2. \/ up' = Idle
            \/ /\ wsSender # None /\ up'.pc = "config"
               /\ up'.sender = wsSender /\ up'.config = 0
        BY <2>1, LocalsFields DEF UplinkStart
      <3>. QED
        BY <1>0, <2>1, <3>1, <3>2, LocalsFields DEF UplinkStart, OlderInv
    <2>2. CASE UplinkReadConfig
      <3>1. routerConfig # None => routerConfig = conn
        BY <1>0 DEF StaticsInv
      <3>2. \/ up' = Idle
            \/ /\ routerConfig # None /\ up'.pc = "mux"
               /\ up'.config = routerConfig /\ up'.sender = up.sender
        BY <1>0, <2>2, LocalsFields DEF UplinkReadConfig
      <3>. QED
        BY <1>0, <2>2, <3>1, <3>2, LocalsFields DEF UplinkReadConfig, OlderInv
    <2>3. CASE UplinkReadMux \/ UplinkReadSession \/ UplinkClearMux
      <3>1. /\ up'.sender = up.sender /\ up'.config = up.config /\ up'.pc # "idle"
            /\ up.pc \in {"mux", "session", "clear"}
            /\ conn' = conn /\ accepted' = accepted
        BY <1>0, <2>3 DEF UplinkReadMux, UplinkReadSession, UplinkClearMux, Locals
      <3>. QED
        BY <1>0, <3>1 DEF OlderInv
    <2>4. CASE UplinkEncodeFails
      BY <1>0, <2>4, LocalsFields DEF UplinkEncodeFails, OlderInv
    <2>5. CASE UplinkSend
      <3>1. up.sender \in Conns /\ Updf \in Message /\ up.config >= up.sender
        BY <1>0, <2>5, MessagesTyped DEF UplinkSend, OlderInv
      <3>2. Updf.config = up.config
        BY DEF Updf
      <3>3. \A c \in Conns : \A i \in 1..Len(accepted'[c]) : accepted'[c][i].config >= c
        BY <1>0, <2>5, <3>1, <3>2, AcceptElements DEF UplinkSend, OlderInv
      <3>. QED
        BY <1>0, <2>5, <3>3, LocalsFields DEF UplinkSend, OlderInv
    <2>. QED
      BY <1>5, <2>1, <2>2, <2>3, <2>4, <2>5 DEF UplinkStep
  <1>6. CASE UNCHANGED vars
    BY <1>0, <1>1, <1>6 DEF vars
  <1>. QED
    BY <1>2, <1>3, <1>4, <1>5, <1>6 DEF Next

\* RefTimes accepted stay below a bound, or below a greater one.
LEMMA RefsBelowFacts ==
    ASSUME TypeOK
    PROVE  /\ \A c \in Conns : \A i \in 1..Len(accepted[c]) : accepted[c][i].ref \in Nat
           /\ \A m, n \in Nat : RefsBelow(m) /\ m <= n => RefsBelow(n)
  <1>1. \A c \in Conns : \A i \in 1..Len(accepted[c]) : accepted[c][i] \in Message
    BY ElementOfSeq DEF TypeOK
  <1>2. \A c \in Conns : \A i \in 1..Len(accepted[c]) : accepted[c][i].ref \in Nat
    BY <1>1 DEF Message
  <1>. QED
    BY <1>2 DEF RefsBelow

\* A step that accepts nothing and leaves the running send_uplink alone: only the
\* handler may store another MuxTime.
LEMMA RefFrame ==
    ASSUME TypeOK, TypeOK', RefInv, accepted' = accepted, up' = up,
           \/ muxes' = muxes /\ lastMux' = lastMux
           \/ muxes' = muxes + 1 /\ lastMux' = muxes + 1
    PROVE  RefInv'
  <1>0. lastMux <= muxes
    BY DEF RefInv
  <1>1. /\ muxes \in Nat /\ lastMux \in Nat /\ muxes' \in Nat /\ up.ref \in Nat
        /\ up \in Locals
    BY DEF TypeOK, Locals
  <1>2. muxes <= muxes' /\ lastMux' <= muxes' /\ lastMux <= lastMux'
    BY <1>0, <1>1
  <1>3. RefsBelow(muxes + 1) /\ RefsBelow(muxes' + 1)
    BY <1>1, <1>2, RefsBelowFacts DEF RefInv
  <1>4. up.ref # None =>
          /\ up.pc \in {"session", "clear", "send"}
          /\ up.ref <= muxes' /\ RefsBelow(up.ref)
          /\ up.pc # "send" => up.ref <= lastMux'
          /\ (up.pc = "send" /\ lastMux' # None) => up.ref < lastMux'
    BY <1>1, <1>2 DEF RefInv
  <1>5. (up.ref = None /\ lastMux' # None) => RefsBelow(lastMux')
    <2>1. CASE lastMux' = lastMux
      BY <2>1 DEF RefInv
    <2>2. CASE lastMux' = muxes + 1
      BY <1>3, <2>2
    <2>. QED
      BY <2>1, <2>2
  <1>6. RefsBelow(up.ref)' <=> RefsBelow(up.ref)
    BY DEF RefsBelow
  <1>7. RefsBelow(lastMux)' <=> RefsBelow(lastMux')
    BY DEF RefsBelow
  <1>8. RefsBelow(muxes + 1)' <=> RefsBelow(muxes' + 1)
    BY DEF RefsBelow
  <1>. QED
    BY <1>1, <1>2, <1>3, <1>4, <1>5, <1>6, <1>7, <1>8 DEF RefInv

\* A send_uplink that only moves on: what it has taken, and LAST_MUX_TIME, stay newer
\* than what was accepted.
LEMMA RefLocals ==
    ASSUME TypeOK, TypeOK', RefInv, accepted' = accepted, muxes' = muxes,
           lastMux' \in {lastMux, None},
           up'.pc # "idle" =>
              \A d \in Conns : \A j \in 1..Len(accepted[d]) :
                 d > up'.sender => accepted[d][j].ref = None,
           up'.ref # None =>
              /\ up'.pc \in {"session", "clear", "send"}
              /\ up'.ref <= muxes /\ RefsBelow(up'.ref)
              /\ up'.pc # "send" => up'.ref <= lastMux'
              /\ (up'.pc = "send" /\ lastMux' # None) => up'.ref < lastMux',
           up'.ref = None /\ lastMux' # None => RefsBelow(lastMux')
    PROVE  RefInv'
  <1>0. lastMux <= muxes
    BY DEF RefInv
  <1>1. /\ muxes \in Nat /\ lastMux \in Nat /\ lastMux' <= muxes'
    BY <1>0 DEF TypeOK, None
  <1>2. /\ RefsBelow(muxes + 1)' <=> RefsBelow(muxes + 1)
        /\ RefsBelow(lastMux)' <=> RefsBelow(lastMux')
        /\ RefsBelow(up.ref)' <=> RefsBelow(up'.ref)
    BY DEF RefsBelow
  <1>. QED
    BY <1>1, <1>2 DEF RefInv

\* Accepting a message without a RefTime.
LEMMA RefQuiet ==
    ASSUME TypeOK, RefInv, NEW c \in Conns, NEW m \in Message, m.ref = None,
           Accept(c, m), up' = up, muxes' = muxes, lastMux' = lastMux
    PROVE  RefInv'
  <1>1. \A d \in Conns : \A i \in 1..Len(accepted'[d]) :
           \/ i \in 1..Len(accepted[d]) /\ accepted'[d][i] = accepted[d][i]
           \/ accepted'[d][i].ref = None
    BY AcceptElements
  <1>2. \A n \in Nat : RefsBelow(n) /\ n # None => RefsBelow(n)'
    BY <1>1 DEF RefsBelow, None
  <1>3. muxes \in Nat /\ lastMux \in Nat /\ up.ref \in Nat
    BY DEF TypeOK, Locals
  <1>4. RefsBelow(muxes + 1)'
    BY <1>2, <1>3 DEF RefInv, None, RefsBelow
  <1>5. /\ up.ref # None => RefsBelow(up.ref)'
        /\ (up.ref = None /\ lastMux # None) => RefsBelow(lastMux)'
    BY <1>2, <1>3 DEF RefInv, RefsBelow
  <1>6. ASSUME NEW d \in Conns, NEW e \in Conns,
               NEW i \in 1..Len(accepted'[d]), NEW j \in 1..Len(accepted'[e]),
               Before(d, i, e, j),
               accepted'[d][i].ref # None, accepted'[e][j].ref # None
        PROVE  accepted'[d][i].ref < accepted'[e][j].ref
    <2>1. /\ i \in 1..Len(accepted[d]) /\ accepted'[d][i] = accepted[d][i]
          /\ j \in 1..Len(accepted[e]) /\ accepted'[e][j] = accepted[e][j]
      BY <1>1, <1>6
    <2>. QED
      BY <1>6, <2>1 DEF RefInv
  <1>7. up.pc # "idle" =>
          \A d \in Conns : \A j \in 1..Len(accepted'[d]) :
             d > up.sender => accepted'[d][j].ref = None
    BY <1>1 DEF RefInv
  <1>. QED
    BY <1>3, <1>4, <1>5, <1>6, <1>7 DEF RefInv

\* send_uplink sends a RefTime newer than every other.
LEMMA RefSend ==
    ASSUME TypeOK, TrafficInv, UplinkSend
    PROVE  RefInv'
  <1>1. /\ up.sender \in Conns /\ Updf \in Message /\ Accept(up.sender, Updf)
        /\ up' = Idle /\ muxes' = muxes /\ lastMux' = lastMux
        /\ up.pc = "send" /\ Updf.ref = up.ref /\ Idle.ref = None /\ Idle.pc = "idle"
        /\ lastMux \in Nat /\ muxes \in Nat /\ up.ref \in Nat /\ RefInv
    BY MessagesTyped DEF UplinkSend, TrafficInv, OlderInv, Updf, Idle, TypeOK, Locals
  <1>2. \A d \in Conns : \A i \in 1..Len(accepted'[d]) :
           \/ i \in 1..Len(accepted[d]) /\ accepted'[d][i] = accepted[d][i]
           \/ /\ d = up.sender /\ i = Len(accepted[d]) + 1
              /\ accepted'[d][i] = Updf
    BY <1>1, AcceptElements
  <1>3. \A d \in Conns : Len(accepted[d]) \in Nat /\ d \in Nat
    BY DEF TypeOK, Conns
  <1>4. /\ lastMux <= muxes /\ RefsBelow(muxes + 1)
        /\ up.ref # None => up.ref <= muxes /\ RefsBelow(up.ref)
        /\ up.ref # None /\ lastMux # None => up.ref < lastMux /\ RefsBelow(lastMux)
        /\ up.ref = None /\ lastMux # None => RefsBelow(lastMux)
        /\ \A d \in Conns : \A j \in 1..Len(accepted[d]) :
              d > up.sender => accepted[d][j].ref = None
    <2>1. /\ lastMux <= muxes /\ RefsBelow(muxes + 1)
          /\ up.ref # None => up.ref <= muxes /\ RefsBelow(up.ref)
          /\ up.ref # None /\ lastMux # None => up.ref < lastMux
          /\ up.ref = None /\ lastMux # None => RefsBelow(lastMux)
      BY <1>1 DEF RefInv
    <2>2. up.ref # None /\ lastMux # None => RefsBelow(lastMux)
      BY <1>1, <2>1, RefsBelowFacts
    <2>3. \A d \in Conns : \A j \in 1..Len(accepted[d]) :
              d > up.sender => accepted[d][j].ref = None
      BY <1>1 DEF RefInv
    <2>. QED
      BY <2>1, <2>2, <2>3
  <1>5. RefsBelow(muxes + 1)'
    <2>1. up.ref < muxes + 1
      BY <1>1, <1>4 DEF None
    <2>2. \A d \in Conns : \A i \in 1..Len(accepted'[d]) : accepted'[d][i].ref < muxes + 1
      BY <1>1, <1>2, <1>4, <2>1 DEF RefsBelow
    <2>. QED
      BY <1>1, <2>2 DEF RefsBelow
  <1>6. lastMux # None => RefsBelow(lastMux)'
    BY <1>1, <1>2, <1>4 DEF RefsBelow, None
  <1>7. ASSUME NEW c \in Conns, NEW d \in Conns,
               NEW i \in 1..Len(accepted'[c]), NEW j \in 1..Len(accepted'[d]),
               Before(c, i, d, j),
               accepted'[c][i].ref # None, accepted'[d][j].ref # None
        PROVE  accepted'[c][i].ref < accepted'[d][j].ref
    <2>1. CASE j \in 1..Len(accepted[d]) /\ accepted'[d][j] = accepted[d][j]
      <3>1. i \in 1..Len(accepted[c]) /\ accepted'[c][i] = accepted[c][i]
        BY <1>2, <1>3, <1>4, <1>7, <2>1 DEF Before
      <3>. QED
        BY <1>1, <1>7, <2>1, <3>1 DEF RefInv
    <2>2. CASE d = up.sender /\ j = Len(accepted[d]) + 1 /\ accepted'[d][j] = Updf
      <3>1. i \in 1..Len(accepted[c]) /\ accepted'[c][i] = accepted[c][i]
        BY <1>2, <1>3, <1>7, <2>2 DEF Before
      <3>. QED
        BY <1>1, <1>4, <1>7, <2>2, <3>1 DEF RefsBelow
    <2>. QED
      BY <1>2, <2>1, <2>2
  <1>8. /\ RefsBelow(muxes + 1)' /\ lastMux' <= muxes'
        /\ up'.ref = None /\ up'.pc = "idle"
        /\ (up'.ref = None /\ lastMux' # None) => RefsBelow(lastMux)'
    BY <1>1, <1>4, <1>5, <1>6
  <1>. QED
    BY <1>7, <1>8 DEF RefInv

\* The RefTimes accepted keep increasing.
LEMMA RefStep ==
    ASSUME TypeOK, TrafficInv, [Next]_vars
    PROVE  RefInv'
  <1> USE DEF connVars, chanVars, upVars
  <1>a. /\ TypeOK' /\ RefInv /\ OwnerInv /\ OlderInv /\ StaticsInv /\ CarryInv
    BY TypeStep DEF TrafficInv
  <1>b. /\ lastMux \in Nat /\ muxes \in Nat /\ conn \in Nat
        /\ up \in Locals /\ up.ref \in Nat
    BY BoundsAssumption DEF TypeOK, Locals
  <1>c. lastMux <= muxes
    BY <1>a DEF RefInv
  <1>0. /\ TypeOK' /\ RefInv /\ OwnerInv /\ OlderInv /\ StaticsInv /\ CarryInv
        /\ lastMux \in Nat /\ muxes \in Nat /\ conn \in Nat
        /\ up \in Locals /\ up.ref \in Nat /\ lastMux <= muxes
    BY <1>a, <1>b, <1>c
  <1>1. CASE LoopStep
    <2>1. accepted' = accepted /\ up' = up /\ muxes' = muxes /\ lastMux' = lastMux
      BY <1>1 DEF LoopStep, BeginAttempt, AttemptFails, ConnectFails, Connect,
           VersionFails, SendVersion, SpawnWriter, ReadEnds, ClearSender,
           ClearConfig, Wake
    <2>. QED
      BY <1>0, <2>1, RefFrame
  <1>2. CASE HandlerStep
    <2>1. CASE BackendDntxed
      <3>1. /\ conn \in Conns /\ Dntxed \in Message /\ Dntxed.ref = None
            /\ Accept(conn, Dntxed)
            /\ up' = up /\ muxes' = muxes /\ lastMux' = lastMux
        BY <1>0, <2>1, MessagesTyped DEF BackendDntxed, OwnerInv, Connected, Dntxed
      <3>. QED
        BY <1>0, <3>1, RefQuiet
    <2>2. CASE ~BackendDntxed
      <3>1. /\ accepted' = accepted /\ up' = up
            /\ \/ muxes' = muxes /\ lastMux' = lastMux
               \/ muxes' = muxes + 1 /\ lastMux' = muxes + 1
        BY <1>2, <2>2 DEF HandlerStep, ReadMessage, StoreConfig, LookupConfig, BackendQuiet
      <3>. QED
        BY <1>0, <3>1, RefFrame
    <2>. QED
      BY <2>1, <2>2
  <1>3. CASE WriterStep
    <2>1. accepted' = accepted /\ up' = up /\ muxes' = muxes /\ lastMux' = lastMux
      BY <1>3 DEF WriterStep, WriterSend, WriterFails, WriterCancelled
    <2>. QED
      BY <1>0, <2>1, RefFrame
  <1>4. CASE UplinkStep
    <2>0. /\ up.ref # None =>
                /\ up.pc \in {"session", "clear", "send"}
                /\ up.ref <= muxes /\ RefsBelow(up.ref)
                /\ up.pc # "send" => up.ref <= lastMux
                /\ (up.pc = "send" /\ lastMux # None) => up.ref < lastMux
          /\ up.ref = None /\ lastMux # None => RefsBelow(lastMux)
          /\ up.pc # "idle" =>
                \A d \in Conns : \A j \in 1..Len(accepted[d]) :
                   d > up.sender => accepted[d][j].ref = None
      BY <1>0 DEF RefInv
    <2>1. CASE UplinkStart
      <3>1. /\ up.ref = None /\ up'.ref = None
            /\ up' = Idle \/ (wsSender # None /\ up'.sender = wsSender)
            /\ Idle.pc = "idle"
            /\ accepted' = accepted /\ muxes' = muxes /\ lastMux' = lastMux
        BY <1>0, <2>0, <2>1 DEF UplinkStart, Idle, None
      <3>2. wsSender # None => wsSender = conn
        BY <1>0 DEF StaticsInv
      <3>3. \A d \in Conns : d > conn => accepted[d] = <<>>
        BY <1>0 DEF OwnerInv, CarryInv, CarryOf
      <3>4. up'.pc # "idle" =>
               \A d \in Conns : \A j \in 1..Len(accepted[d]) :
                  d > up'.sender => accepted[d][j].ref = None
        BY <3>1, <3>2, <3>3
      <3>. QED
        BY <1>0, <2>0, <3>1, <3>4, RefLocals
    <2>2. CASE UplinkReadConfig
      <3>1. /\ up.ref = None /\ up'.ref = None
            /\ up' = Idle \/ (up'.sender = up.sender /\ up.pc # "idle")
            /\ Idle.pc = "idle"
            /\ accepted' = accepted /\ muxes' = muxes /\ lastMux' = lastMux
        BY <1>0, <2>0, <2>2 DEF UplinkReadConfig, Idle, None, Locals
      <3>. QED
        BY <1>0, <2>0, <3>1, RefLocals
    <2>3. CASE UplinkReadMux
      <3>1. /\ up.ref = None /\ up'.ref = lastMux /\ up'.pc = "session"
            /\ up'.sender = up.sender /\ up.pc # "idle"
            /\ accepted' = accepted /\ muxes' = muxes /\ lastMux' = lastMux
        BY <1>0, <2>0, <2>3 DEF UplinkReadMux, Locals
      <3>. QED
        BY <1>0, <2>0, <3>1, RefLocals
    <2>4. CASE UplinkReadSession
      <3>1. /\ up'.ref = up.ref /\ up'.pc = IF up.ref = None THEN "send" ELSE "clear"
            /\ up'.sender = up.sender /\ up.pc = "session"
            /\ accepted' = accepted /\ muxes' = muxes /\ lastMux' = lastMux
        BY <1>0, <2>4 DEF UplinkReadSession, Locals
      <3>. QED
        BY <1>0, <2>0, <3>1, RefLocals
    <2>5. CASE UplinkEncodeFails
      <3>1. /\ up'.ref = None /\ up'.pc = "idle" /\ up.pc = "session"
            /\ accepted' = accepted /\ muxes' = muxes /\ lastMux' = lastMux
        BY <2>5 DEF UplinkEncodeFails, Idle
      <3>2. lastMux # None => RefsBelow(lastMux)
        BY <1>0, <2>0, <3>1, RefsBelowFacts
      <3>. QED
        BY <1>0, <3>1, <3>2, RefLocals
    <2>6. CASE UplinkClearMux
      <3>1. /\ up'.ref = up.ref /\ up'.pc = "send" /\ up.pc = "clear"
            /\ up'.sender = up.sender
            /\ accepted' = accepted /\ muxes' = muxes /\ lastMux' = None
        BY <1>0, <2>6 DEF UplinkClearMux, Locals
      <3>. QED
        BY <1>0, <2>0, <3>1, RefLocals
    <2>7. CASE UplinkSend
      BY <2>7, RefSend
    <2>. QED
      BY <1>4, <2>1, <2>2, <2>3, <2>4, <2>5, <2>6, <2>7 DEF UplinkStep
  <1>5. CASE UNCHANGED vars
    <2>1. accepted' = accepted /\ up' = up /\ muxes' = muxes /\ lastMux' = lastMux
      BY <1>5 DEF vars
    <2>. QED
      BY <1>0, <2>1, RefFrame
  <1>. QED
    BY <1>1, <1>2, <1>3, <1>4, <1>5 DEF Next

\* Every step of every task keeps TrafficInv.
LEMMA TrafficStep ==
    ASSUME TypeOK, TrafficInv, [Next]_vars
    PROVE  TrafficInv'
  BY OwnerStep, StaticsStep, CarryStep, OlderStep, RefStep DEF TrafficInv

-----------------------------------------------------------------------------
(* What the invariants say of every behaviour.                             *)

\* What is on a wire fits its connection.
LEMMA LinkStamps == SessionInv => StampedWithSession /\ StampedWithConfig
  BY DEF SessionInv, LinkInv, WireInv, StampedWithSession, StampedWithConfig, Sent

\* The four statics, the channels and the locals of a send_uplink always agree
\* on the connection they belong to, however the tasks interleave.
THEOREM LinkCorrect == ASSUME PromptAbort PROVE Spec => []SessionInv
  <1>1. Init => SessionInv
    BY TypeInit, LinkInit, TrafficInit DEF SessionInv
  <1>2. SessionInv /\ [Next]_vars => SessionInv'
    BY TypeStep, LinkStep, TrafficStep DEF SessionInv
  <1>. QED
    BY <1>1, <1>2, PTL DEF Spec

\* Every message the LNS receives on a connection bears the session of that
\* connection, though send_uplink reads SESSION_COUNTER after WS_SENDER.
THEOREM SessionCorrect == ASSUME PromptAbort PROVE Spec => []StampedWithSession
  BY LinkCorrect, LinkStamps, PTL

\* Every message the LNS receives on a connection was encoded with the
\* router_config of that connection, though ROUTER_CONFIG is read apart.
THEOREM ConfigCorrect == ASSUME PromptAbort PROVE Spec => []StampedWithConfig
  BY LinkCorrect, LinkStamps, PTL

\* What was accepted on a connection is what is written there and what is still
\* queued; it and the MuxTimes are in order, however long an aborted task lives.
THEOREM TrafficCorrect == Spec => [](TypeOK /\ TrafficInv)
  <1>1. Init => TypeOK /\ TrafficInv
    BY TypeInit, TrafficInit
  <1>2. (TypeOK /\ TrafficInv) /\ [Next]_vars => (TypeOK /\ TrafficInv)'
    BY TypeStep, TrafficStep
  <1>. QED
    BY <1>1, <1>2, PTL DEF Spec

\* Past its version, a wire carries what was accepted on its connection.
LEMMA WireIsAccepted ==
    ASSUME TypeOK, TrafficInv, NEW c \in Conns, NEW i \in DOMAIN wire[c]
    PROVE  \/ i = 1 /\ wire[c][i] = Version
           \/ /\ i - 1 \in 1..Len(accepted[c])
              /\ wire[c][i] = accepted[c][i - 1]
  <1>1. CarryOf(c) /\ wire[c] \in Seq(Message) /\ accepted[c] \in Seq(Message)
    BY DEF TrafficInv, CarryInv, TypeOK
  <1>2. /\ DOMAIN wire[c] = 1..Len(wire[c]) /\ Len(wire[c]) \in Nat
        /\ wire[c] # <<>> /\ Len(accepted[c]) \in Nat
    BY <1>1, LenProperties, EmptySeq
  <1>3. CASE i = 1
    BY <1>1, <1>2, <1>3 DEF CarryOf
  <1>4. CASE i # 1
    <2>1. i - 1 \in 1..(Len(wire[c]) - 1) /\ (i - 1) + 1 = i
      BY <1>2, <1>4
    <2>2. /\ Written(c) = Tail(wire[c]) /\ Len(Written(c)) = Len(wire[c]) - 1
          /\ Written(c)[i - 1] = wire[c][(i - 1) + 1]
      BY <1>1, <1>2, <2>1, HeadTailProperties DEF Written
    <2>. QED
      BY <1>1, <1>2, <2>1, <2>2 DEF CarryOf
  <1>. QED
    BY <1>3, <1>4

\* The invariants say what the runs check of the wire.
LEMMA TrafficWires ==
    ASSUME TypeOK, TrafficInv
    PROVE  ConfigNotOlder /\ RefTimesIncrease
  <1>1. ConfigNotOlder
    <2> SUFFICES ASSUME NEW c \in Conns, NEW i \in DOMAIN wire[c], wire[c][i] # Version
                 PROVE  wire[c][i].config >= c
      BY DEF ConfigNotOlder, Sent
    <2>. QED
      BY WireIsAccepted DEF TrafficInv, OlderInv
  <1>2. RefTimesIncrease
    <2> SUFFICES ASSUME NEW c \in Conns, NEW d \in Conns,
                        NEW i \in DOMAIN wire[c], NEW j \in DOMAIN wire[d],
                        Before(c, i, d, j),
                        wire[c][i].ref # None, wire[d][j].ref # None
                 PROVE  wire[c][i].ref < wire[d][j].ref
      BY DEF RefTimesIncrease
    <2>1. /\ i - 1 \in 1..Len(accepted[c]) /\ wire[c][i] = accepted[c][i - 1]
          /\ j - 1 \in 1..Len(accepted[d]) /\ wire[d][j] = accepted[d][j - 1]
      BY WireIsAccepted DEF Version
    <2>2. i \in Int /\ j \in Int
      BY LenProperties DEF TypeOK
    <2>3. Before(c, i - 1, d, j - 1)
      BY <2>2 DEF Before
    <2>. QED
      BY <2>1, <2>3 DEF TrafficInv, RefInv
  <1>. QED
    BY <1>1, <1>2

\* No message is encoded with the router_config of an earlier connection, even when
\* an aborted write task outlives the reconnect interval.
THEOREM NotOlderCorrect == Spec => []ConfigNotOlder
  BY TrafficCorrect, TrafficWires, PTL

\* The RefTimes the LNS receives increase, within a connection and from one to the
\* next, for any number of uplinks, MuxTimes and reconnections.
THEOREM RefTimesCorrect == Spec => []RefTimesIncrease
  BY TrafficCorrect, TrafficWires, PTL

-----------------------------------------------------------------------------
(* The refinement: channel, write task and statics implement UplinkPipe.   *)

\* The variables of the pipe, as the refinement mapping gives them.
IsOpen == conn \in Conns /\ Alive(conn)
Taken == IF conn \in Conns THEN accepted[conn] ELSE <<>>
Delivered == IF conn \in Conns /\ wire[conn] # <<>> THEN Tail(wire[conn]) ELSE <<>>

\* The pipe starts closed and empty.
LEMMA PipeInit == Init => Pipe!Init
  <1> SUFFICES ASSUME Init PROVE Pipe!Init
    OBVIOUS
  <1>1. conn \notin Conns /\ conn = 0 /\ session = 0
    BY DEF Init, Conns, None
  <1>. QED
    BY <1>1 DEF Pipe!Init

\* A step that changes nothing of the latest connection is a stutter of the pipe.
LEMMA PipeStutter ==
    ASSUME conn' = conn, session' = session, IsOpen' <=> IsOpen, Taken' = Taken,
           Delivered' = Delivered
    PROVE  UNCHANGED Pipe!vars
  BY DEF Pipe!vars, IsOpen, Taken, Delivered

\* A session is renewed only between two links.
LEMMA PipeRenew ==
    ASSUME SessionInv, BeginAttempt
    PROVE  Pipe!Renew
  <1> USE DEF BeginAttempt, chanVars
  <1>1. ~(conn \in Conns /\ Alive(conn))
    BY DEF SessionInv, LinkInv, ChannelInv
  <1>2. session' \in Nat
    BY BoundsAssumption, SessionWraps DEF SessionInv, TypeOK
  <1>3. conn' = conn /\ accepted' = accepted /\ wire' = wire /\ rx' = rx
    OBVIOUS
  <1>. QED
    BY <1>1, <1>2, <1>3 DEF Pipe!Renew, Alive

\* A new connection is an open and empty link.
LEMMA PipeOpen ==
    ASSUME SessionInv, Connect
    PROVE  Pipe!Open
  <1>1. ~(conn \in Conns /\ Alive(conn))
    BY DEF Connect, SessionInv, LinkInv, ChannelInv
  <1>2. conn' = conn + 1 /\ conn' \in Conns /\ conn \in Nat
    BY BoundsAssumption DEF Connect, SessionInv, TypeOK, Conns
  <1>3. /\ session' = session /\ accepted' = accepted /\ wire' = wire
        /\ rx'[conn + 1] = "run"
    BY <1>2 DEF Connect, SessionInv, TypeOK
  <1>4. CarryOf(conn + 1) /\ rx[conn + 1] = "none"
    BY <1>2 DEF SessionInv, TrafficInv, OwnerInv, CarryInv
  <1>5. accepted[conn + 1] = <<>> /\ wire[conn + 1] = <<>>
    BY <1>4 DEF CarryOf
  <1>. QED
    BY <1>1, <1>2, <1>3, <1>5 DEF Pipe!Open, Alive

\* A receiver that is dropped closes the link.
LEMMA PipeClose ==
    ASSUME SessionInv, NEW c \in Conns, c = conn, Alive(c), DropReceiver(c),
           conn' = conn, session' = session, accepted' = accepted, wire' = wire
    PROVE  Pipe!Close
  <1>1. rx'[c] = "dropped"
    BY DropFacts DEF SessionInv
  <1>. QED
    BY <1>1 DEF Pipe!Close, Alive

\* A send() on the live channel is an Accept of the pipe, on a dead one nothing.
LEMMA PipeAccept ==
    ASSUME SessionInv, NEW c \in Conns, NEW m \in Message, Accept(c, m),
           Alive(c) => m.config = c /\ (m.kind = "updf" => m.session = session),
           conn' = conn, session' = session, rx' = rx, wire' = wire
    PROVE  [Pipe!Next]_(Pipe!vars)
  <1>1. TypeOK /\ (Alive(c) => c = conn)
    BY DEF SessionInv, LinkInv, ChannelInv
  <1>2. CASE Alive(c)
    <2>1. c = conn /\ accepted'[c] = Append(accepted[c], m) /\ accepted[c] \in Seq(Message)
      BY <1>1, <1>2, AcceptExtends DEF TypeOK
    <2>2. /\ Len(accepted'[c]) = Len(accepted[c]) + 1
          /\ accepted'[c][Len(accepted'[c])] = m
      BY <2>1, AppendProperties
    <2>3. Pipe!Accept
      BY <1>2, <2>1, <2>2 DEF Pipe!Accept, Alive
    <2>. QED
      BY <2>3 DEF Pipe!Next
  <1>3. CASE ~Alive(c)
    <2>1. accepted' = accepted
      BY <1>3 DEF Accept
    <2>2. UNCHANGED Pipe!vars
      BY <2>1, PipeStutter DEF IsOpen, Taken, Delivered, Alive
    <2>. QED
      BY <2>2
  <1>. QED
    BY <1>2, <1>3

\* What the write task sends is the next message of the pipe.
LEMMA PipeDeliver ==
    ASSUME SessionInv, NEW c \in Conns, WriterSend(c)
    PROVE  Pipe!Deliver
  <1>1. /\ conn' = conn /\ session' = session /\ accepted' = accepted /\ rx' = rx
        /\ rx[c] \in {"writer", "aborted"} /\ queue[c] # <<>>
        /\ wire'[c] = Append(wire[c], Head(queue[c]))
    BY DEF WriterSend, connVars, SessionInv, TypeOK
  <1>2. Alive(c) /\ c = conn /\ Alive(c)'
    BY <1>1 DEF SessionInv, LinkInv, ChannelInv, Alive
  <1>3. /\ CarryOf(c) /\ wire[c] \in Seq(Message) /\ queue[c] \in Seq(Message)
        /\ Written(c) \in Seq(Message)
    BY WrittenTyped DEF SessionInv, TrafficInv, CarryInv, TypeOK
  <1>4. /\ wire[c] # <<>> /\ Written(c) = Tail(wire[c])
        /\ accepted[c] = Written(c) \o queue[c]
    BY <1>1, <1>2, <1>3 DEF CarryOf, Written
  <1> DEFINE w == wire[c]
             q == queue[c]
             v == Tail(w)
  <1>5. /\ Append(w, Head(q)) # <<>>
        /\ Tail(Append(w, Head(q))) = Append(v, Head(q))
    <2>1. w \in Seq(Message) /\ q \in Seq(Message) /\ w # <<>> /\ q # <<>>
      BY <1>1, <1>3, <1>4
    <2> HIDE DEF w, q
    <2>. QED
      BY <2>1, WriteHead
  <1>6. Len(v) < Len(v \o q) /\ (v \o q)[Len(v) + 1] = Head(q)
    <2>1. v \in Seq(Message) /\ q \in Seq(Message) /\ q # <<>>
      BY <1>1, <1>3, <1>4
    <2> HIDE DEF v, q
    <2>2. Len(v) \in Nat /\ Len(q) \in Nat \ {0} /\ Head(q) = q[1]
      BY <2>1, EmptySeq, LenProperties
    <2>3. /\ Len(v \o q) = Len(v) + Len(q)
          /\ \A i \in 1..(Len(v) + Len(q)) : (v \o q)[i] =
                 IF i <= Len(v) THEN v[i] ELSE q[i - Len(v)]
      BY <2>1, ConcatProperties
    <2>. QED
      BY <2>2, <2>3
  <1>7. wire'[c] # <<>> /\ Tail(wire'[c]) = Append(v, accepted[c][Len(v) + 1])
    BY <1>1, <1>4, <1>5, <1>6
  <1>8. Len(v) < Len(accepted[c])
    BY <1>4, <1>6
  <1>. QED
    BY <1>1, <1>2, <1>4, <1>7, <1>8 DEF Pipe!Deliver

\* Every step of the link is a step of the pipe or a stutter.
LEMMA PipeStep ==
    ASSUME SessionInv, [Next]_vars
    PROVE  [Pipe!Next]_(Pipe!vars)
  <1> USE DEF connVars, chanVars, upVars
  <1>0. /\ TypeOK /\ TrafficInv /\ OwnerInv /\ StaticsInv /\ UplinkInv /\ ChannelInv
        /\ OlderInv /\ CarryInv
    BY DEF SessionInv, LinkInv, TrafficInv
  <1>1. CASE BeginAttempt
    BY <1>1, PipeRenew DEF Pipe!Next
  <1>2. ASSUME ~BeginAttempt PROVE session' = session
    BY <1>2 DEF Next, LoopStep, AttemptFails, ConnectFails, Connect, VersionFails,
         SendVersion, SpawnWriter, ReadEnds, ClearSender, ClearConfig, Wake,
         HandlerStep, ReadMessage, StoreConfig, LookupConfig, BackendQuiet,
         BackendDntxed, WriterStep, WriterSend, WriterFails, WriterCancelled,
         UplinkStep, UplinkStart, UplinkReadConfig, UplinkReadMux,
         UplinkReadSession, UplinkEncodeFails, UplinkClearMux, UplinkSend, vars
  <1>3. CASE Connect
    BY <1>3, PipeOpen DEF Pipe!Next
  <1>4. CASE VersionFails
    <2>1. /\ conn \in Conns /\ Alive(conn) /\ DropReceiver(conn) /\ conn' = conn
          /\ session' = session /\ accepted' = accepted /\ wire' = wire
      BY <1>0, <1>4 DEF VersionFails, OwnerInv, Connected, Alive
    <2>2. Pipe!Close
      BY <2>1, PipeClose
    <2>. QED
      BY <2>2 DEF Pipe!Next
  <1>5. CASE SendVersion
    <2>1. /\ conn \in Conns /\ rx[conn] = "run" /\ conn' = conn /\ session' = session
          /\ accepted' = accepted /\ rx' = rx /\ pc = "version"
          /\ wire'[conn] = Append(wire[conn], Version)
      BY <1>0, <1>5 DEF SendVersion, OwnerInv, Connected, TypeOK
    <2>2. wire[conn] = <<>>
      BY <1>0, <2>1 DEF CarryInv, CarryOf
    <2>3. wire'[conn] = <<Version>> /\ Tail(wire'[conn]) = <<>>
      BY <2>1, <2>2
    <2>4. (IsOpen' <=> IsOpen) /\ Taken' = Taken /\ Delivered' = Delivered
      BY <2>1, <2>2, <2>3 DEF IsOpen, Taken, Delivered, Alive
    <2>. QED
      BY <2>1, <2>4, PipeStutter
  <1>6. CASE SpawnWriter
    <2>1. /\ conn \in Conns /\ rx[conn] = "run" /\ conn' = conn /\ session' = session
          /\ accepted' = accepted /\ wire' = wire /\ rx'[conn] = "writer"
      BY <1>0, <1>6 DEF SpawnWriter, OwnerInv, Connected, TypeOK
    <2>2. (IsOpen' <=> IsOpen) /\ Taken' = Taken /\ Delivered' = Delivered
      BY <2>1 DEF IsOpen, Taken, Delivered, Alive
    <2>. QED
      BY <2>1, <2>2, PipeStutter
  <1>7. CASE ReadEnds
    <2>1. /\ conn \in Conns /\ conn' = conn /\ session' = session
          /\ accepted' = accepted /\ wire' = wire
          /\ rx'[conn] = IF rx[conn] = "writer" THEN "aborted" ELSE rx[conn]
      BY <1>0, <1>7 DEF ReadEnds, OwnerInv, Connected, TypeOK
    <2>2. (IsOpen' <=> IsOpen) /\ Taken' = Taken /\ Delivered' = Delivered
      BY <2>1 DEF IsOpen, Taken, Delivered, Alive
    <2>. QED
      BY <2>1, <2>2, PipeStutter
  <1>8. CASE /\ BackendDntxed /\ conn \in Conns /\ Dntxed \in Message
             /\ Accept(conn, Dntxed) /\ UNCHANGED rx /\ UNCHANGED wire /\ Quiet
    <2>1. Dntxed.config = conn /\ Dntxed.kind # "updf"
      BY <1>0, <1>8 DEF BackendDntxed, StaticsInv, Dntxed
    <2>2. conn' = conn /\ session' = session
      BY <1>8 DEF BackendDntxed
    <2>. QED
      BY <1>8, <2>1, <2>2, PipeAccept
  <1>9. CASE /\ UplinkSend /\ up.sender \in Conns /\ Updf \in Message
             /\ Accept(up.sender, Updf) /\ UNCHANGED rx /\ UNCHANGED wire /\ Quiet
    <2>1. Alive(up.sender) => Updf.config = up.sender /\ Updf.session = session
      BY <1>0, <1>9 DEF UplinkSend, UplinkInv, Updf
    <2>2. conn' = conn /\ session' = session
      BY <1>9 DEF UplinkSend
    <2>. QED
      BY <1>9, <2>1, <2>2, PipeAccept
  <1>10. ASSUME NEW c \in Conns, WriterSend(c) \/ WriterFails(c) \/ WriterCancelled(c)
         PROVE  Pipe!Next
    <2>1. CASE WriterSend(c)
      BY <2>1, PipeDeliver DEF Pipe!Next
    <2>2. CASE WriterFails(c) \/ WriterCancelled(c)
      <3>1. /\ Alive(c) /\ c = conn /\ DropReceiver(c) /\ conn' = conn
            /\ session' = session /\ accepted' = accepted /\ wire' = wire
        BY <1>0, <2>2 DEF WriterFails, WriterCancelled, ChannelInv, Alive
      <3>2. Pipe!Close
        BY <3>1, PipeClose
      <3>. QED
        BY <3>2 DEF Pipe!Next
    <2>. QED
      BY <1>10, <2>1, <2>2
  <1>11. CASE /\ UNCHANGED rx /\ UNCHANGED wire /\ UNCHANGED queue
              /\ UNCHANGED accepted /\ Quiet /\ ~BeginAttempt
    <2>1. /\ conn' = conn /\ session' = session
          /\ (IsOpen' <=> IsOpen) /\ Taken' = Taken /\ Delivered' = Delivered
      BY <1>2, <1>11 DEF Quiet, IsOpen, Taken, Delivered, Alive
    <2>. QED
      BY <2>1, PipeStutter
  <1>. QED
    BY <1>0, <1>1, <1>3, <1>4, <1>5, <1>6, <1>7, <1>8, <1>9, <1>10, <1>11, ChannelSteps

\* The link implements the pipe: it carries in order, once each and only to its own
\* connection what was made for that connection.
THEOREM PipeCorrect == ASSUME PromptAbort PROVE Spec => PipeSpec
  <1>1. Init => Pipe!Init
    BY PipeInit
  <1>2. SessionInv /\ [Next]_vars => [Pipe!Next]_(Pipe!vars)
    BY PipeStep
  <1>. QED
    BY <1>1, <1>2, LinkCorrect, PTL DEF Spec, PipeSpec, Pipe!Spec

-----------------------------------------------------------------------------
(* The refinement without PromptAbort: the connections implement LateLinks.  *)

\* The variables of the links, as the refinement mapping gives them.
Phase(c) == IF Alive(c) THEN "open" ELSE IF c > conn THEN "unopened" ELSE "closed"
Phases == [c \in Conns |-> Phase(c)]
Writtens == [c \in Conns |-> Written(c)]

\* No link is open before the first connection.
LEMMA LateInit == Init => Late!Init
  <1> SUFFICES ASSUME Init PROVE Late!Init
    OBVIOUS
  <1>1. \A c \in Conns : Phase(c) = "unopened" /\ Written(c) = <<>>
    BY BoundsAssumption DEF Init, Conns, None, Phase, Alive, Written
  <1>2. accepted = [c \in Conns |-> <<>>]
    BY DEF Init
  <1>. QED
    BY <1>1, <1>2 DEF Late!Init, Phase

\* A step that changes no phase and what no channel carries is a stutter.
LEMMA LateStutter ==
    ASSUME accepted' = accepted,
           \A c \in Conns : Phase(c)' = Phase(c) /\ Written(c)' = Written(c)
    PROVE  UNCHANGED Late!vars
  <1>1. Phases' = Phases /\ Writtens' = Writtens
    BY DEF Phases, Writtens
  <1>. QED
    BY <1>1 DEF Late!vars, Phases, Writtens, Phase

\* A channel that nothing touches stays as it is.
LEMMA LateFrame ==
    ASSUME NEW c \in Conns, rx'[c] = rx[c], wire'[c] = wire[c], conn' = conn
    PROVE  Phase(c)' = Phase(c) /\ Written(c)' = Written(c)
  BY DEF Phase, Alive, Written

\* A new connection is the next link, whatever became of the earlier ones.
LEMMA LateOpen ==
    ASSUME TypeOK, TrafficInv, Connect
    PROVE  \E k \in Conns : Late!Open(k)
  <1>0. PICK k \in Conns : k = conn + 1
    BY BoundsAssumption DEF Connect, TypeOK, Conns
  <1>1. /\ conn' = k /\ k \in Conns /\ conn \in Nat /\ \A c \in Conns : c \in Nat
        /\ accepted' = accepted /\ wire' = wire /\ rx' = [rx EXCEPT ![k] = "run"]
    BY <1>0, BoundsAssumption DEF Connect, TypeOK, Conns
  <1>2. \A c \in Conns : rx[c] = "none" <=> c > conn
    BY DEF TrafficInv, OwnerInv
  <1>3. Phase(k) = "unopened" /\ \A j \in Conns : j < k => Phase(j) # "unopened"
    BY <1>0, <1>1, <1>2 DEF Phase, Alive
  <1>4. \A c \in Conns : Phase(c)' = (IF c = k THEN "open" ELSE Phase(c))
    BY <1>0, <1>1, <1>2 DEF Phase, Alive, TypeOK
  <1>5. Phases' = [Phases EXCEPT ![k] = "open"]
    BY <1>4 DEF Phases
  <1>6. Writtens' = Writtens
    BY <1>1 DEF Writtens, Written
  <1>. QED
    BY <1>1, <1>3, <1>5, <1>6 DEF Late!Open, Phases, Writtens, Phase

\* A receiver that is dropped closes its link, the latest or an earlier one.
LEMMA LateClose ==
    ASSUME TypeOK, TrafficInv, NEW c \in Conns, Alive(c), DropReceiver(c),
           conn' = conn, accepted' = accepted, wire' = wire
    PROVE  Late!Close(c)
  <1>1. ~(c > conn)
    BY DEF TrafficInv, OwnerInv, Alive
  <1>2. \A d \in Conns : rx'[d] = IF d = c THEN "dropped" ELSE rx[d]
    BY DropFacts
  <1>3. \A d \in Conns : Phase(d)' = (IF d = c THEN "closed" ELSE Phase(d))
    BY <1>1, <1>2 DEF Phase, Alive
  <1>4. Phases' = [Phases EXCEPT ![c] = "closed"] /\ Phases[c] = "open"
    BY <1>3 DEF Phases, Phase
  <1>5. Writtens' = Writtens
    BY DEF Writtens, Written
  <1>. QED
    BY <1>4, <1>5 DEF Late!Close, Phases, Writtens, Phase

\* A send() on a live channel is an Accept of its link, on a dead one nothing.
LEMMA LateAccept ==
    ASSUME TypeOK, TrafficInv, NEW c \in Conns, NEW m \in Message, Accept(c, m),
           m.config >= c, m.config <= conn, m.ref # None => RefsBelow(m.ref),
           conn' = conn, rx' = rx, wire' = wire
    PROVE  [Late!Next]_(Late!vars)
  <1>1. \A d \in Conns : Phase(d)' = Phase(d) /\ Written(d)' = Written(d)
    BY LateFrame
  <1>2. CASE Alive(c)
    <2>1. /\ accepted' = [accepted EXCEPT ![c] = Append(@, m)]
          /\ accepted'[c] = Append(accepted[c], m) /\ accepted[c] \in Seq(Message)
      BY <1>2 DEF Accept, TypeOK
    <2>2. accepted'[c] # <<>> /\ accepted'[c][Len(accepted'[c])] = m
      BY <2>1, AppendProperties
    <2>3. Phases' = Phases /\ Writtens' = Writtens /\ Phases[c] = "open"
      BY <1>1, <1>2 DEF Phases, Writtens, Phase
    <2>4. Late!NewestRef(m) <=> RefsBelow(m.ref)
      BY DEF Late!NewestRef, RefsBelow
    <2>5. m.config \in Conns /\ Phases[m.config] # "unopened"
      <3>1. PICK k \in Conns : k = m.config
        BY BoundsAssumption DEF TypeOK, Message, Conns
      <3>2. ~(k > conn)
        BY <3>1 DEF TypeOK, Conns
      <3>. QED
        BY <3>1, <3>2 DEF Phases, Phase
    <2>6. Late!Accept(c)
      BY <2>1, <2>2, <2>3, <2>4, <2>5 DEF Late!Accept, Phases, Writtens, Phase, None
    <2>. QED
      BY <2>6 DEF Late!Next
  <1>3. CASE ~Alive(c)
    <2>1. accepted' = accepted
      BY <1>3 DEF Accept
    <2>. QED
      BY <1>1, <2>1, LateStutter
  <1>. QED
    BY <1>2, <1>3

\* What a write task sends, aborted or not, is the next message of its link.
LEMMA LateDeliver ==
    ASSUME TypeOK, TrafficInv, NEW c \in Conns, WriterSend(c)
    PROVE  Late!Deliver(c)
  <1>1. /\ conn' = conn /\ accepted' = accepted /\ rx' = rx
        /\ Alive(c) /\ queue[c] # <<>> /\ rx[c] \in {"writer", "aborted"}
        /\ \A d \in Conns : wire'[d] = IF d = c THEN Append(wire[c], Head(queue[c])) ELSE wire[d]
    BY DEF WriterSend, connVars, TypeOK, Alive
  <1>2. /\ CarryOf(c) /\ wire[c] \in Seq(Message) /\ queue[c] \in Seq(Message)
        /\ Written(c) \in Seq(Message)
    BY WrittenTyped DEF TrafficInv, CarryInv, TypeOK
  <1>3. /\ wire[c] # <<>> /\ Written(c) = Tail(wire[c])
        /\ accepted[c] = Written(c) \o queue[c]
    BY <1>1, <1>2 DEF CarryOf, Written
  <1> DEFINE w == wire[c]
             q == queue[c]
             v == Tail(w)
  <1>4. /\ Append(w, Head(q)) # <<>>
        /\ Tail(Append(w, Head(q))) = Append(v, Head(q))
    <2>1. w \in Seq(Message) /\ q \in Seq(Message) /\ w # <<>> /\ q # <<>>
      BY <1>1, <1>2, <1>3
    <2> HIDE DEF w, q
    <2>. QED
      BY <2>1, WriteHead
  <1>5. Len(v) < Len(v \o q) /\ (v \o q)[Len(v) + 1] = Head(q)
    <2>1. v \in Seq(Message) /\ q \in Seq(Message) /\ q # <<>>
      BY <1>1, <1>2, <1>3
    <2> HIDE DEF v, q
    <2>2. Len(v) \in Nat /\ Len(q) \in Nat \ {0} /\ Head(q) = q[1]
      BY <2>1, EmptySeq, LenProperties
    <2>3. /\ Len(v \o q) = Len(v) + Len(q)
          /\ \A i \in 1..(Len(v) + Len(q)) : (v \o q)[i] =
                 IF i <= Len(v) THEN v[i] ELSE q[i - Len(v)]
      BY <2>1, ConcatProperties
    <2>. QED
      BY <2>2, <2>3
  <1>6. Written(c)' = Append(Written(c), accepted[c][Len(Written(c)) + 1])
    BY <1>1, <1>3, <1>4, <1>5 DEF Written
  <1>7. Len(Written(c)) < Len(accepted[c])
    BY <1>3, <1>5
  <1>8. ASSUME NEW d \in Conns, d # c PROVE Written(d)' = Written(d)
    BY <1>1, <1>8 DEF Written
  <1>9. \A d \in Conns : Phase(d)' = Phase(d)
    BY <1>1 DEF Phase, Alive
  <1>10. Phases' = Phases /\ Phases[c] = "open"
    BY <1>1, <1>9 DEF Phases, Phase
  <1> DEFINE next == Append(Written(c), accepted[c][Len(Written(c)) + 1])
  <1>11. Writtens' = [Writtens EXCEPT ![c] = next] /\ Writtens[c] = Written(c)
    <2>1. \A d \in Conns : Written(d)' = IF d = c THEN next ELSE Written(d)
      BY <1>6, <1>8
    <2> HIDE DEF next
    <2>. QED
      BY <2>1 DEF Writtens
  <1>12. Writtens' = [Writtens EXCEPT ![c] = Append(@, accepted[c][Len(@) + 1])]
    BY <1>11
  <1>. QED
    BY <1>1, <1>7, <1>10, <1>11, <1>12 DEF Late!Deliver, Phases, Writtens, Phase

\* Every step is a step of one of the links or a stutter.
LEMMA LateStep ==
    ASSUME TypeOK, TrafficInv, [Next]_vars
    PROVE  [Late!Next]_(Late!vars)
  <1>0. OwnerInv /\ StaticsInv /\ CarryInv /\ OlderInv /\ RefInv
    BY DEF TrafficInv
  <1>1. CASE Connect
    BY <1>1, LateOpen DEF Late!Next
  <1>2. CASE VersionFails
    <2>1. PICK c \in Conns : c = conn
      BY <1>0, <1>2 DEF VersionFails, OwnerInv, Connected
    <2>2. /\ Alive(c) /\ DropReceiver(c) /\ conn' = conn
          /\ accepted' = accepted /\ wire' = wire
      BY <1>0, <1>2, <2>1 DEF VersionFails, OwnerInv, Alive, DropReceiver
    <2>3. Late!Close(c)
      BY <2>2, LateClose
    <2>. QED
      BY <2>3 DEF Late!Next
  <1>3. CASE SendVersion
    <2>1. PICK c \in Conns : c = conn
      BY <1>0, <1>3 DEF SendVersion, OwnerInv, Connected
    <2>2. /\ rx[c] = "run" /\ conn' = conn /\ accepted' = accepted /\ rx' = rx
          /\ \A d \in Conns : wire'[d] = IF d = c THEN Append(wire[d], Version) ELSE wire[d]
      BY <1>0, <1>3, <2>1 DEF SendVersion, OwnerInv, TypeOK
    <2>3. wire[c] = <<>>
      BY <1>0, <1>3, <2>2 DEF CarryInv, CarryOf, SendVersion
    <2>4. Written(c)' = <<>> /\ Written(c) = <<>>
      <3>1. wire'[c] = Append(wire[c], Version)
        BY <2>2
      <3>2. wire'[c] = <<Version>> /\ Tail(wire'[c]) = <<>>
        BY <2>3, <3>1
      <3>. QED
        BY <2>3, <3>2 DEF Written
    <2>5. \A d \in Conns : Phase(d)' = Phase(d) /\ Written(d)' = Written(d)
      BY <2>2, <2>4 DEF Phase, Alive, Written
    <2>. QED
      BY <2>2, <2>5, LateStutter
  <1>4. CASE SpawnWriter \/ ReadEnds
    <2>1. /\ conn' = conn /\ accepted' = accepted /\ wire' = wire
          /\ \A c \in Conns : Alive(c)' <=> Alive(c)
      BY <1>0, <1>4 DEF SpawnWriter, ReadEnds, OwnerInv, Connected, TypeOK, Alive
    <2>2. \A c \in Conns : Phase(c)' = Phase(c) /\ Written(c)' = Written(c)
      BY <2>1 DEF Phase, Written
    <2>. QED
      BY <2>1, <2>2, LateStutter
  <1>5. CASE /\ BackendDntxed /\ conn \in Conns /\ Dntxed \in Message
             /\ Accept(conn, Dntxed) /\ UNCHANGED rx /\ UNCHANGED wire /\ Quiet
    <2>1. /\ Dntxed.config >= conn /\ Dntxed.config <= conn
          /\ Dntxed.ref = None /\ conn' = conn
      BY <1>0, <1>5 DEF BackendDntxed, StaticsInv, Dntxed, Conns, None
    <2>. QED
      BY <1>5, <2>1, LateAccept
  <1>6. CASE /\ UplinkSend /\ up.sender \in Conns /\ Updf \in Message
             /\ Accept(up.sender, Updf) /\ UNCHANGED rx /\ UNCHANGED wire /\ Quiet
    <2>1. /\ Updf.config >= up.sender /\ Updf.config <= conn
          /\ (Updf.ref # None => RefsBelow(Updf.ref))
          /\ conn' = conn
      BY <1>0, <1>6 DEF UplinkSend, OlderInv, RefInv, RefsBelow, Updf, Quiet
    <2>. QED
      BY <1>6, <2>1, LateAccept
  <1>7. ASSUME NEW c \in Conns, WriterSend(c) \/ WriterFails(c) \/ WriterCancelled(c)
        PROVE  Late!Next
    <2>1. CASE WriterSend(c)
      BY <2>1, LateDeliver DEF Late!Next
    <2>2. CASE WriterFails(c) \/ WriterCancelled(c)
      <3>1. /\ Alive(c) /\ DropReceiver(c) /\ conn' = conn
            /\ accepted' = accepted /\ wire' = wire
        BY <2>2 DEF WriterFails, WriterCancelled, connVars, Alive
      <3>2. Late!Close(c)
        BY <3>1, LateClose
      <3>. QED
        BY <3>2 DEF Late!Next
    <2>. QED
      BY <1>7, <2>1, <2>2
  <1>8. CASE /\ UNCHANGED rx /\ UNCHANGED wire /\ UNCHANGED queue
             /\ UNCHANGED accepted /\ Quiet
    <2>1. \A c \in Conns : Phase(c)' = Phase(c) /\ Written(c)' = Written(c)
      BY <1>8, LateFrame DEF Quiet
    <2>. QED
      BY <1>8, <2>1, LateStutter
  <1>. QED
    BY <1>1, <1>2, <1>3, <1>4, <1>5, <1>6, <1>7, <1>8, ChannelSteps

\* However long an aborted write task lives, the connections implement links that may
\* overlap, and on them a configuration is of the link or of a later one, and a RefTime newest.
THEOREM LateCorrect == Spec => LateSpec
  <1>1. Init => Late!Init
    BY LateInit
  <1>2. (TypeOK /\ TrafficInv) /\ [Next]_vars => [Late!Next]_(Late!vars)
    BY LateStep
  <1>. QED
    BY <1>1, <1>2, TrafficCorrect, PTL DEF Spec, LateSpec, Late!Spec

=============================================================================
