-------------------------- MODULE ConcentratordProofs --------------------------
(***************************************************************************)
(* Proofs about ConcentratordCmd, for every number of commands, attempts,  *)
(* faults and restarts: CmdInv is inductive, and from it follow            *)
(* ReplyMatches, RunsBounded and NewestInForce, and that every step is one *)
(* of DownlinkService.                                                     *)
(***************************************************************************)
EXTENDS ConcentratordCmd, FiniteSetTheorems, TLAPS

USE CmdAssumption DEF Cmds, Query

-----------------------------------------------------------------------------
(* The requests of one command                                             *)

\* The requests of a command are finitely many.
LEMMA OfFinite ==
    ASSUME TypeOK
    PROVE  \A c : IsFiniteSet(Of(c)) /\ Cardinality(Of(c)) \in Nat
BY FS_Subset, FS_CardinalityType DEF Of, TypeOK

\* A request that is sent counts for its command, and once at most.
LEMMA Added ==
    ASSUME TypeOK, NEW r, requests' = requests \cup {r}
    PROVE  /\ Cardinality(Of(r.cmd)') <= Cardinality(Of(r.cmd)) + 1
           /\ Cardinality(Of(r.cmd)') \in Nat
           /\ \A c : c # r.cmd => Of(c)' = Of(c)
<1>1. Of(r.cmd)' = Of(r.cmd) \cup {r}
  BY DEF Of
<1>2. Cardinality(Of(r.cmd) \cup {r}) \in {Cardinality(Of(r.cmd)), Cardinality(Of(r.cmd)) + 1}
  BY OfFinite, FS_AddElement
<1>3. \A c : c # r.cmd => Of(c)' = Of(c)
  BY DEF Of
<1> QED BY <1>1, <1>2, <1>3, OfFinite

\* A request that is dealt with no longer counts.
LEMMA Removed ==
    ASSUME TypeOK, NEW r \in requests, requests' = requests \ {r}
    PROVE  /\ Cardinality(Of(r.cmd)') = Cardinality(Of(r.cmd)) - 1
           /\ \A c : c # r.cmd => Of(c)' = Of(c)
<1>1. Of(r.cmd)' = Of(r.cmd) \ {r} /\ r \in Of(r.cmd)
  BY DEF Of
<1>2. Cardinality(Of(r.cmd) \ {r}) = Cardinality(Of(r.cmd)) - 1
  BY <1>1, OfFinite, FS_RemoveElement
<1>3. \A c : c # r.cmd => Of(c)' = Of(c)
  BY DEF Of
<1> QED BY <1>1, <1>2, <1>3

\* The number of sends is a number.
LEMMA SendsIsInt ==
    ASSUME TypeOK, NEW c \in Cmds
    PROVE  Sends(c) \in Int
<1>1. call.attempt \in Int /\ MaxAttempts \in Int
  BY DEF TypeOK
<1> QED BY <1>1 DEF Sends

\* A step that neither sends nor runs a command may only raise what was sent.
LEMMA SendsKept ==
    ASSUME TypeOK, TypeOK', SendsInv, UNCHANGED <<requests, runs>>,
           \A c \in Cmds : Sends(c)' >= Sends(c)
    PROVE  SendsInv'
<1> SUFFICES ASSUME NEW c \in Cmds
             PROVE  runs'[c] + Cardinality(Of(c)') <= Sends(c)'
  BY DEF SendsInv
<1>1. Of(c)' = Of(c) /\ runs' = runs
  BY DEF Of
<1>2. runs[c] \in Int /\ Cardinality(Of(c)) \in Int
  BY OfFinite DEF TypeOK
<1>3. Sends(c) \in Int /\ Sends(c)' \in Int
  <2>1. call'.attempt \in Int /\ MaxAttempts \in Int
    BY DEF TypeOK
  <2> QED BY <2>1, SendsIsInt DEF Sends
<1>4. runs[c] + Cardinality(Of(c)) <= Sends(c)
  BY DEF SendsInv
<1> QED BY <1>1, <1>2, <1>3, <1>4

-----------------------------------------------------------------------------
(* The inductive invariant                                                 *)

\* The invariant holds at the start.
LEMMA Initially == Init => ExchangeInv
<1> SUFFICES ASSUME Init PROVE ExchangeInv
  OBVIOUS
<1>1. TypeOK
  BY FS_EmptySet DEF Init, TypeOK, NewSocket, Request, Reply
<1>2. CallInv
  BY DEF Init, CallInv
<1>3. SocketInv
  BY DEF Init, SocketInv, NewSocket
<1>4. ReplyInv
  BY DEF Init, ReplyInv
<1>5. SendsInv
  <2>1. \A c \in Cmds : Of(c) = {}
    BY DEF Init, Of
  <2>2. \A c \in Cmds : Sends(c) = 0 /\ runs[c] = 0
    BY DEF Init, Sends
  <2> QED BY <2>1, <2>2, FS_EmptySet DEF SendsInv
<1> QED BY <1>1, <1>2, <1>3, <1>4, <1>5 DEF ExchangeInv

\* setup and Command send nothing of a command.
LEMMA SetupKeeps ==
    ASSUME ExchangeInv, Setup \/ Command
    PROVE  ExchangeInv'
<1> USE DEF ExchangeInv
<1>1. CASE AskId
  <2>1. TypeOK'
    <3>1. IsFiniteSet(requests')
      BY <1>1, FS_AddElement DEF AskId, TypeOK
    <3>2. requests' \subseteq Request
      BY <1>1 DEF AskId, TypeOK, Request
    <3> QED BY <1>1, <3>1, <3>2 DEF AskId, TypeOK, peer
  <2>2. CallInv'
    BY <1>1 DEF AskId, CallInv, TypeOK, peer
  <2>3. SocketInv'
    BY <1>1 DEF AskId, SocketInv, TypeOK, CallInv, Request
  <2>4. ReplyInv'
    BY <1>1 DEF AskId, ReplyInv, Truthful, Current, peer, CallInv, TypeOK
  <2>5. SendsInv'
    <3>1. \A c \in Cmds : Of(c)' = Of(c)
      BY <1>1 DEF AskId, Of
    <3>2. \A c \in Cmds : Sends(c)' = Sends(c)
      BY <1>1 DEF AskId, Sends, CallInv, TypeOK
    <3> QED BY <3>1, <3>2, <1>1 DEF SendsInv, AskId, peer
  <2> QED BY <2>1, <2>2, <2>3, <2>4, <2>5
<1>2. CASE LearnId
  <2> PICK r \in replies : r.sock = sock.id /\ r.done /\ replies' = replies \ {r}
    BY <1>2 DEF LearnId
  <2>1. TypeOK'
    BY <1>2 DEF LearnId, TypeOK, peer
  <2>2. CallInv'
    BY <1>2 DEF LearnId, CallInv, TypeOK, peer
  <2>3. SocketInv'
    BY <1>2 DEF LearnId, SocketInv, TypeOK, CallInv
  <2>4. ReplyInv'
    BY <1>2 DEF LearnId, ReplyInv, Truthful, Current, peer
  <2>5. SendsInv'
    <3>1. \A c \in Cmds : Sends(c)' = Sends(c)
      BY <1>2 DEF LearnId, Sends, CallInv, TypeOK
    <3> QED BY <2>1, <3>1, <1>2, SendsIsInt, SendsKept DEF LearnId, peer
  <2> QED BY <2>1, <2>2, <2>3, <2>4, <2>5
<1>3. CASE SetupFails
  <2>1. TypeOK'
    BY <1>3 DEF SetupFails, TypeOK, NewSocket, RepliesTo, peer
  <2>2. CallInv'
    BY <1>3 DEF SetupFails, CallInv, TypeOK, peer
  <2>3. SocketInv'
    <3>1. sock'.id = sock.id + 1 /\ sock'.state = "ready" /\ sock.id \in Nat
      BY <1>3 DEF SetupFails, NewSocket, TypeOK
    <3>2. replies' = {}
      BY <1>3, <3>1 DEF SetupFails, RepliesTo, SocketInv
    <3>3. \A q \in requests : q.sock \in Nat
      BY DEF TypeOK, Request
    <3> QED BY <1>3, <3>1, <3>2, <3>3 DEF SetupFails, SocketInv, TypeOK
  <2>4. ReplyInv'
    BY <1>3 DEF SetupFails, ReplyInv, Truthful, Current, RepliesTo, peer
  <2>5. SendsInv'
    <3>1. \A c \in Cmds : Sends(c)' = Sends(c)
      BY <1>3 DEF SetupFails, Sends, CallInv, TypeOK
    <3> QED BY <2>1, <3>1, <1>3, SendsIsInt, SendsKept DEF SetupFails, peer
  <2> QED BY <2>1, <2>2, <2>3, <2>4, <2>5
<1>4. CASE Command
  <2>1. TypeOK'
    BY <1>4 DEF Command, TypeOK, peer
  <2>2. CallInv'
    BY <1>4 DEF Command, CallInv, TypeOK, peer
  <2>3. SocketInv'
    <3>1. \A q \in requests : q.cmd \in Nat
      BY DEF TypeOK, Request
    <3> QED BY <1>4, <3>1 DEF Command, SocketInv, TypeOK
  <2>4. ReplyInv'
    BY <1>4 DEF Command, ReplyInv, Truthful, Current, peer
  <2>5. SendsInv'
    <3>1. ASSUME NEW c \in Cmds PROVE Sends(c)' >= Sends(c)
      BY <1>4 DEF Command, Sends, TypeOK
    <3> QED BY <2>1, <3>1, <1>4, SendsKept DEF Command, peer
  <2> QED BY <2>1, <2>2, <2>3, <2>4, <2>5
<1> QED BY <1>1, <1>2, <1>3, <1>4 DEF Setup

\* One command, up to its answer.
LEMMA CommandKeeps ==
    ASSUME ExchangeInv, CommandStep
    PROVE  ExchangeInv'
<1> USE DEF ExchangeInv
<1>0. CallInv' /\ TypeOK' /\ SocketInv' /\ ReplyInv' /\ SendsInv' => ExchangeInv'
  OBVIOUS
<1>1. CASE Send
  <2> DEFINE r == [cmd |-> call.cmd, sock |-> sock.id]
  <2>0. r \in Request /\ requests' = requests \cup {r}
    BY <1>1 DEF Send, TypeOK, Request
  <2>1. TypeOK'
    <3>1. IsFiniteSet(requests')
      BY <2>0, FS_AddElement DEF TypeOK
    <3>2. requests' \subseteq Request
      BY <2>0 DEF TypeOK
    <3> QED BY <1>1, <3>1, <3>2 DEF Send, TypeOK, peer
  <2>2. CallInv'
    BY <1>1 DEF Send, CallInv, TypeOK, peer
  <2>3. SocketInv'
    BY <1>1 DEF Send, SocketInv, TypeOK, CallInv, Request
  <2>4. ReplyInv'
    <3>1. \A c \in Cmds : results[c] \notin {Pending, Failed} => ~(call.cmd < c)
      BY DEF CallInv
    <3> QED BY <1>1, <3>1 DEF Send, ReplyInv, Truthful, Current, peer
  <2>5. SendsInv'
    <3> HIDE DEF r
    <3> SUFFICES ASSUME NEW c \in Cmds
                 PROVE  runs'[c] + Cardinality(Of(c)') <= Sends(c)'
      BY DEF SendsInv
    <3>1. runs[c] \in Int /\ Cardinality(Of(c)) \in Int /\ runs' = runs
      BY <1>1, OfFinite DEF TypeOK, Send, peer
    <3>2. runs[c] + Cardinality(Of(c)) <= Sends(c)
      BY DEF SendsInv
    <3>3. CASE c = call.cmd
      <4>1. r.cmd = c
        BY <3>3 DEF r
      <4>2. Cardinality(Of(c)') <= Cardinality(Of(c)) + 1 /\ Cardinality(Of(c)') \in Int
        BY <2>0, <4>1, Added
      <4>3. Sends(c) = call.attempt - 1 /\ Sends(c)' = call.attempt /\ call.attempt \in Int
        BY <3>3, <1>1 DEF Sends, Send, TypeOK
      <4> QED BY <3>1, <3>2, <4>2, <4>3
    <3>4. CASE c # call.cmd
      <4>1. Of(c)' = Of(c)
        BY <2>0, <3>4, Added DEF r
      <4>2. Sends(c)' = Sends(c)
        BY <3>4, <1>1 DEF Sends, Send, TypeOK
      <4> QED BY <3>1, <3>2, <4>1, <4>2
    <3> QED BY <3>3, <3>4
  <2> QED BY <2>1, <2>2, <2>3, <2>4, <2>5
<1>2. CASE SendFails
  <2>1. TypeOK'
    BY <1>2 DEF SendFails, TypeOK, peer
  <2>2. CallInv'
    BY <1>2 DEF SendFails, CallInv, TypeOK, peer
  <2>3. SocketInv'
    BY <1>2 DEF SendFails, SocketInv, TypeOK
  <2>4. ReplyInv'
    BY <1>2 DEF SendFails, ReplyInv, Truthful, Current, peer
  <2>5. SendsInv'
    <3>1. \A c \in Cmds : Sends(c)' >= Sends(c)
      BY <1>2 DEF SendFails, Sends, TypeOK
    <3> QED BY <1>2, <2>1, <3>1, SendsKept DEF SendFails, peer
  <2> QED BY <2>1, <2>2, <2>3, <2>4, <2>5
<1>3. CASE Receive
  <2>0. PICK r \in replies : /\ r.sock = sock.id /\ replies' = replies \ {r}
                             /\ results' = [results EXCEPT ![call.cmd] = r]
    BY <1>3 DEF Receive
  <2>a. call.cmd \in Cmds /\ r.cmd = call.cmd /\ r \in Reply
    BY <1>3 DEF Receive, CallInv, SocketInv, TypeOK
  <2>1. TypeOK'
    BY <1>3, <2>0, <2>a DEF Receive, TypeOK, peer
  <2>2. CallInv'
    BY <1>3, <2>0, <2>a DEF Receive, CallInv, TypeOK, peer
  <2>3. SocketInv'
    BY <1>3, <2>0 DEF Receive, SocketInv, TypeOK
  <2>4. ReplyInv'
    <3>1. \A q \in requests : q.sock < r.sock
      <4>1. \A q \in requests : q.sock \in Nat /\ q.sock <= sock.id /\ q.sock # r.sock
        BY DEF SocketInv, TypeOK, Request
      <4> QED BY <4>1, <2>0, <2>a DEF TypeOK
    <3>2. Truthful(r) /\ Current(r)
      BY DEF ReplyInv
    <3> QED BY <1>3, <2>0, <2>a, <3>1, <3>2 DEF Receive, ReplyInv, Truthful, Current, peer, TypeOK
  <2>5. SendsInv'
    <3>1. \A c \in Cmds : Sends(c)' >= Sends(c)
      BY <1>3 DEF Receive, Sends, TypeOK
    <3> QED BY <1>3, <2>1, <3>1, SendsKept DEF Receive, peer
  <2> QED BY <2>1, <2>2, <2>3, <2>4, <2>5
<1>4. CASE Timeout
  <2>1. TypeOK'
    BY <1>4 DEF Timeout, TypeOK, peer
  <2>2. CallInv'
    BY <1>4 DEF Timeout, CallInv, TypeOK, peer
  <2>3. SocketInv'
    BY <1>4 DEF Timeout, SocketInv, TypeOK
  <2>4. ReplyInv'
    BY <1>4 DEF Timeout, ReplyInv, Truthful, Current, peer
  <2>5. SendsInv'
    <3>1. \A c \in Cmds : Sends(c)' >= Sends(c)
      BY <1>4 DEF Timeout, Sends, TypeOK
    <3> QED BY <1>4, <2>1, <3>1, SendsKept DEF Timeout, peer
  <2> QED BY <2>1, <2>2, <2>3, <2>4, <2>5
<1>5. CASE Reconnect \/ ReconnectFails
  <2>0. /\ call.pc = "reconnect" /\ NextAttempt
        /\ \/ sock' = sock
           \/ /\ sock'.id = sock.id + 1 /\ sock'.state \in {"ready", "unconnected"}
              /\ sock' \in [id : Nat, state : {"ready", "awaiting", "unconnected"}]
        /\ replies' = RepliesTo(sock')
        /\ UNCHANGED <<requests, peer>>
    BY <1>5 DEF Reconnect, ReconnectFails, Renewed, NewSocket, TypeOK
  <2>a. call.cmd \in Cmds /\ Failed \notin Reply
    BY <2>0 DEF CallInv, TypeOK, Failed, Reply
  <2>b. \/ /\ call.attempt < MaxAttempts /\ results' = results
           /\ call' = [call EXCEPT !.pc = "send", !.attempt = call.attempt + 1]
        \/ /\ call' = [call EXCEPT !.pc = "idle"]
           /\ results' = [results EXCEPT ![call.cmd] = Failed]
    BY <2>0 DEF NextAttempt
  <2>1. TypeOK'
    <3>1. call' \in [pc : {"setup", "askid", "idle", "send", "poll", "reconnect"},
                     cmd : 0..MaxCmds, attempt : 0..MaxAttempts]
      <4>1. call.attempt < MaxAttempts => call.attempt + 1 \in 0..MaxAttempts
        BY DEF TypeOK
      <4> QED BY <2>b, <4>1 DEF TypeOK
    <3>2. results' \in [Cmds -> Reply \cup {Pending, Failed}]
      BY <2>a, <2>b DEF TypeOK
    <3> QED BY <2>0, <3>1, <3>2 DEF TypeOK, RepliesTo, peer
  <2>2. CallInv'
    <3>1. CASE call'.pc = "send"
      <4>1. results' = results /\ call'.cmd = call.cmd /\ call'.attempt = call.attempt + 1
        BY <2>b, <3>1 DEF TypeOK
      <4>2. call.attempt \in Nat
        BY DEF TypeOK
      <4> QED BY <2>0, <2>a, <3>1, <4>1, <4>2 DEF CallInv, peer
    <3>2. CASE call'.pc = "idle"
      <4>1. call'.cmd = call.cmd /\ call.cmd \in Int
        <5>1. call' = [call EXCEPT !.pc = "idle"]
          BY <2>b, <3>2 DEF TypeOK
        <5> QED BY <5>1 DEF TypeOK
      <4>2. \A c \in Cmds : c > call.cmd => results'[c] = results[c]
        BY <2>b, <4>1 DEF TypeOK
      <4> QED BY <2>0, <3>2, <4>1, <4>2 DEF CallInv, peer
    <3> QED BY <2>b, <3>1, <3>2 DEF TypeOK
  <2>3. SocketInv'
    <3>1. \A q \in requests : q.sock \in Nat
      BY DEF TypeOK, Request
    <3>2. sock.id \in Nat
      BY DEF TypeOK
    <3>3. call'.cmd = call.cmd /\ call'.pc \in {"send", "idle"}
      BY <2>0 DEF NextAttempt, TypeOK
    <3> QED BY <2>0, <3>1, <3>2, <3>3 DEF SocketInv, RepliesTo, peer
  <2>4. ReplyInv'
    BY <2>0, <2>a DEF NextAttempt, ReplyInv, Truthful, Current, RepliesTo, peer, TypeOK
  <2>5. SendsInv'
    <3>1. \A c \in Cmds : Sends(c)' >= Sends(c)
      <4>1. call.attempt \in Int /\ call.attempt <= MaxAttempts
        BY DEF TypeOK
      <4>2. CASE call'.pc = "send"
        <5>1. call'.cmd = call.cmd /\ call'.attempt = call.attempt + 1
          BY <2>b, <4>2 DEF TypeOK
        <5> QED BY <2>0, <4>1, <4>2, <5>1 DEF Sends, TypeOK
      <4>3. CASE call'.pc = "idle"
        <5>1. call'.cmd = call.cmd
          BY <2>b, <4>3 DEF TypeOK
        <5> QED BY <2>0, <4>1, <4>3, <5>1 DEF Sends, TypeOK
      <4> QED BY <2>b, <4>2, <4>3 DEF TypeOK
    <3> QED BY <2>0, <2>1, <3>1, SendsKept DEF peer
  <2> QED BY <2>1, <2>2, <2>3, <2>4, <2>5
<1> QED BY <1>1, <1>2, <1>3, <1>4, <1>5 DEF CommandStep

\* Concentratord deals with one request.
LEMMA PeerKeeps ==
    ASSUME ExchangeInv, NEW r \in requests, CarryOut(r) \/ Refuse(r)
    PROVE  ExchangeInv'
<1> USE DEF ExchangeInv
<1> DEFINE reply(done) == [cmd |-> r.cmd, sock |-> r.sock, done |-> done]
<1>1. PICK done \in BOOLEAN :
         /\ Handle(r, done)
         /\ runs' = [c \in Cmds |-> IF done /\ c = r.cmd THEN runs[c] + 1 ELSE runs[c]]
         /\ inForce' = IF done /\ r.cmd \in Configs THEN r ELSE inForce
         /\ refused' = IF done THEN refused ELSE refused \cup {r.cmd}
  <2>1. CASE CarryOut(r)
    BY <2>1 DEF CarryOut
  <2>2. CASE Refuse(r)
    BY <2>2 DEF Refuse, TypeOK
  <2> QED BY <2>1, <2>2
<1>2. /\ requests' = requests \ {r}
      /\ replies' = replies \/ (r.sock = sock.id /\ replies' = replies \cup {reply(done)})
      /\ UNCHANGED <<sock, call, results>>
  BY <1>1 DEF Handle
<1>3. r \in Request /\ r.cmd \in 0..MaxCmds /\ r.sock \in Nat /\ reply(done) \in Reply
  BY DEF TypeOK, Request, Reply
<1>4. TypeOK'
  <2>1. IsFiniteSet(requests')
    BY <1>2, FS_RemoveElement DEF TypeOK
  <2>2. runs' \in [Cmds -> Nat]
    BY <1>1 DEF TypeOK
  <2> QED BY <1>1, <1>2, <1>3, <2>1, <2>2 DEF TypeOK
<1>5. CallInv'
  <2>1. r.cmd <= call.cmd
    BY DEF SocketInv
  <2> QED BY <1>1, <1>2, <1>3, <2>1 DEF CallInv, TypeOK
<1>6. SocketInv'
  <2>1. r.sock = sock.id => replies = {}
    BY DEF SocketInv
  <2> QED BY <1>2, <2>1 DEF SocketInv, CallInv
<1>7. ReplyInv'
  <2>1. ASSUME NEW x \in Reply, Truthful(x) PROVE Truthful(x)'
    BY <1>1, <2>1 DEF Truthful, TypeOK, Reply
  <2>2. Truthful(reply(done))'
    BY <1>1, <1>3 DEF Truthful, TypeOK
  <2>3. \A x \in replies : Current(x)'
    <3>1. \A x \in replies : r.sock < x.sock
      BY <1>3 DEF SocketInv, TypeOK
    <3> QED BY <1>1, <3>1 DEF ReplyInv, Current
  <2>4. Current(reply(done))'
    BY <1>1, <1>3 DEF Current
  <2>5. ASSUME NEW c \in Cmds, results[c] \notin {Pending, Failed}
        PROVE  /\ results[c].cmd = c /\ Truthful(results[c])' /\ Current(results[c])'
               /\ \A q \in requests : q.cmd < c => q.sock < results[c].sock
    <3>1. /\ results[c] \in Reply /\ results[c].cmd = c
          /\ Truthful(results[c]) /\ Current(results[c])
          /\ \A q \in requests : q.cmd < c => q.sock < results[c].sock
      BY <2>5 DEF ReplyInv, TypeOK
    <3>2. Truthful(results[c])'
      BY <1>1, <1>2, <3>1 DEF Truthful, TypeOK, Reply
    <3>3. Current(results[c])'
      BY <1>1, <1>2, <3>1 DEF Current
    <3> QED BY <3>1, <3>2, <3>3
  <2>6. \A x \in replies' : Truthful(x)' /\ Current(x)'
    <3>1. \A x \in replies : x \in Reply /\ Truthful(x)
      BY DEF ReplyInv, TypeOK
    <3> QED BY <1>2, <2>1, <2>2, <2>3, <2>4, <3>1
  <2> QED BY <1>2, <2>5, <2>6 DEF ReplyInv
<1>8. SendsInv'
  <2> SUFFICES ASSUME NEW c \in Cmds
               PROVE  runs'[c] + Cardinality(Of(c)') <= Sends(c)'
    BY DEF SendsInv
  <2>1. runs[c] \in Int /\ Cardinality(Of(c)) \in Int
    BY OfFinite DEF TypeOK
  <2>2. runs[c] + Cardinality(Of(c)) <= Sends(c) /\ Sends(c)' = Sends(c) /\ Sends(c) \in Int
    BY <1>2, SendsIsInt DEF SendsInv, Sends
  <2>3. CASE c = r.cmd
    <3>1. Cardinality(Of(c)') = Cardinality(Of(c)) - 1
      BY <2>3, <1>2, Removed
    <3>2. runs'[c] \in {runs[c], runs[c] + 1}
      BY <1>1
    <3> QED BY <2>1, <2>2, <3>1, <3>2
  <2>4. CASE c # r.cmd
    <3>1. Of(c)' = Of(c) /\ runs'[c] = runs[c]
      BY <2>4, <1>1, <1>2, Removed
    <3> QED BY <2>1, <2>2, <3>1
  <2> QED BY <2>3, <2>4
<1> QED BY <1>4, <1>5, <1>6, <1>7, <1>8

\* Every step preserves ExchangeInv.
LEMMA Inductive == ExchangeInv /\ [Next]_vars => ExchangeInv'
<1> SUFFICES ASSUME ExchangeInv, [Next]_vars PROVE ExchangeInv'
  OBVIOUS
<1>1. CASE Setup \/ Command
  BY <1>1, SetupKeeps
<1>2. CASE CommandStep
  BY <1>2, CommandKeeps
<1>3. CASE \E r \in requests : CarryOut(r) \/ Refuse(r)
  BY <1>3, PeerKeeps
<1>4. CASE UNCHANGED vars
  <2>1. /\ sock' = sock /\ call' = call /\ requests' = requests /\ replies' = replies
        /\ inForce' = inForce /\ runs' = runs /\ refused' = refused /\ results' = results
    BY <1>4 DEF vars, peer
  <2>2. TypeOK' /\ CallInv' /\ SocketInv' /\ ReplyInv'
    BY <2>1 DEF ExchangeInv, TypeOK, CallInv, SocketInv, ReplyInv, Truthful, Current
  <2>3. SendsInv'
    BY <2>1 DEF ExchangeInv, SendsInv, Sends, Of
  <2> QED BY <2>2, <2>3 DEF ExchangeInv
<1> QED BY <1>1, <1>2, <1>3, <1>4 DEF Next

-----------------------------------------------------------------------------
(* The theorems                                                            *)

\* Sockets, requests, replies and results fit together, with the types.
LEMMA ExchangeCorrect == Spec => []ExchangeInv
<1>1. Init => ExchangeInv
  BY Initially
<1>2. ExchangeInv /\ [Next]_vars => ExchangeInv'
  BY Inductive
<1> QED BY <1>1, <1>2, PTL DEF Spec

\* No attempt has been made yet.
LEMMA FaultsAtFirst == Init => FaultsInv
  BY DEF Init, FaultsInv, Pending, Failed

\* What an attempt that ends costs is counted: NextAttempt after faults enough.
LEMMA FaultsOfNext ==
    ASSUME ExchangeInv, FaultsInv, call.pc = "reconnect", NextAttempt,
           faults' \in Nat, faults' >= call.attempt,
           call.attempt < MaxAttempts /\ sock'.state # "ready" => faults' >= call.attempt + 1
    PROVE  FaultsInv'
<1>1. call.attempt \in Nat /\ call.attempt <= MaxAttempts /\ call.cmd \in Cmds
  BY DEF ExchangeInv, TypeOK, CallInv
<1>2. CASE call.attempt < MaxAttempts
  <2>1. /\ call'.pc = "send" /\ call'.attempt = call.attempt + 1
        /\ call'.cmd = call.cmd /\ results' = results
    BY <1>2 DEF NextAttempt, ExchangeInv, TypeOK
  <2>2. results[call.cmd] = Pending
    BY DEF ExchangeInv, CallInv
  <2> QED BY <1>1, <1>2, <2>1, <2>2 DEF FaultsInv, Pending, Failed
<1>3. CASE ~(call.attempt < MaxAttempts)
  <2>1. call'.pc = "idle" /\ call'.cmd = call.cmd
    BY <1>3 DEF NextAttempt, ExchangeInv, TypeOK
  <2>2. faults' >= MaxAttempts
    BY <1>1, <1>3
  <2> QED BY <2>1, <2>2 DEF FaultsInv
<1> QED BY <1>2, <1>3

\* Every step counts the faults of the command that is running.
LEMMA FaultsKept ==
    ASSUME ExchangeInv, FaultsInv, [Next]_vars
    PROVE  FaultsInv'
<1>1. /\ faults \in Nat /\ call.attempt \in Nat /\ call.cmd \in Nat
      /\ TypeOK /\ CallInv /\ SocketInv
  BY DEF ExchangeInv, TypeOK, FaultsInv
<1>2. CASE Setup
  <2>1. call'.pc \in {"setup", "askid", "idle"} /\ call'.cmd = Query
    BY <1>1, <1>2 DEF Setup, AskId, LearnId, SetupFails, TypeOK, CallInv
  <2>2. faults' = faults
    BY <1>2 DEF Setup, AskId, LearnId, SetupFails
  <2> QED BY <1>1, <2>1, <2>2 DEF FaultsInv
<1>3. CASE Command
  <2>1. /\ call' = [pc |-> "send", cmd |-> call.cmd + 1, attempt |-> 1]
        /\ faults' = IF sock.state = "ready" THEN 0 ELSE 1
        /\ sock' = sock /\ results' = results
    BY <1>3 DEF Command
  <2>2. \A c \in Cmds : c = call.cmd + 1 => results[c] = Pending
    BY <1>1 DEF CallInv
  <2> QED BY <2>1, <2>2 DEF FaultsInv, Pending, Failed
<1>4. CASE Send
  <2>1. /\ call.pc = "send" /\ call'.pc = "poll" /\ call'.attempt = call.attempt
        /\ call'.cmd = call.cmd /\ faults' = faults /\ results' = results
    BY <1>1, <1>4 DEF Send, TypeOK
  <2> QED BY <1>1, <2>1 DEF FaultsInv
<1>5. CASE SendFails
  <2>1. /\ call.pc = "send" /\ call'.pc = "reconnect" /\ call'.attempt = call.attempt
        /\ call'.cmd = call.cmd /\ faults' = faults /\ results' = results
        /\ sock.state # "ready"
    BY <1>1, <1>5 DEF SendFails, TypeOK
  <2> QED BY <1>1, <2>1 DEF FaultsInv
<1>6. CASE Receive
  <2>1. PICK r \in replies : results' = [results EXCEPT ![call.cmd] = r]
    BY <1>6 DEF Receive
  <2>2. r.cmd # -2 /\ call.cmd \in Cmds
    BY <1>1, <1>6 DEF TypeOK, Reply, Receive, CallInv
  <2>3. r # Failed
    BY <2>2 DEF Failed
  <2>4. call'.pc = "idle" /\ call'.cmd = call.cmd /\ faults' = faults
    BY <1>1, <1>6 DEF Receive, TypeOK
  <2>5. results'[call.cmd] # Failed
    BY <1>1, <2>1, <2>2, <2>3 DEF TypeOK
  <2> QED BY <1>1, <2>4, <2>5 DEF FaultsInv
<1>7. CASE Timeout
  <2>1. /\ call.pc = "poll" /\ call'.pc = "reconnect" /\ call'.attempt = call.attempt
        /\ call'.cmd = call.cmd /\ faults' = faults + 1 /\ results' = results
    BY <1>1, <1>7 DEF Timeout, TypeOK
  <2>2. \A c \in Cmds : c = call.cmd => results[c] = Pending
    BY <1>1, <2>1 DEF CallInv
  <2> QED BY <1>1, <2>1, <2>2 DEF FaultsInv, Pending, Failed
<1>8. CASE Reconnect
  <2>1. /\ call.pc = "reconnect" /\ NextAttempt /\ faults' = faults /\ sock'.state = "ready"
    BY <1>8 DEF Reconnect, Renewed, NewSocket
  <2>2. faults >= call.attempt
    BY <2>1 DEF FaultsInv
  <2> QED BY <1>1, <2>1, <2>2, FaultsOfNext
<1>9. CASE ReconnectFails
  <2>1. /\ call.pc = "reconnect" /\ NextAttempt
        /\ faults' = IF call.attempt < MaxAttempts THEN faults + 1 ELSE faults
    BY <1>9 DEF ReconnectFails
  <2>2. faults >= call.attempt
    BY <2>1 DEF FaultsInv
  <2> QED BY <1>1, <2>1, <2>2, FaultsOfNext
<1>10. CASE (\E r \in requests : CarryOut(r) \/ Refuse(r)) \/ UNCHANGED vars
  <2>1. sock' = sock /\ call' = call /\ results' = results /\ faults' = faults
    BY <1>10 DEF CarryOut, Refuse, Handle, vars
  <2> QED BY <2>1 DEF FaultsInv
<1> QED BY <1>2, <1>3, <1>4, <1>5, <1>6, <1>7, <1>8, <1>9, <1>10 DEF Next, CommandStep

\* The inductive invariant of setup and send_command, with the types.
THEOREM CommandCorrect == Spec => []CmdInv
<1>1. Init => CmdInv
  BY Initially, FaultsAtFirst DEF CmdInv
<1>2. CmdInv /\ [Next]_vars => CmdInv'
  BY Inductive, FaultsKept DEF CmdInv
<1> QED BY <1>1, <1>2, PTL DEF Spec

\* A command fails only after as many faults as it has attempts, whatever was left
\* of the command before it.
THEOREM FailsCorrect == Spec => []FailsAfterFaults
<1>1. CmdInv => FailsAfterFaults
  BY DEF CmdInv, FaultsInv, FailsAfterFaults
<1> QED BY <1>1, CommandCorrect, PTL

\* What send_command returns is the answer to its own command.
THEOREM ReplyCorrect == Spec => []ReplyMatches
<1>1. ExchangeInv => ReplyMatches
  BY DEF ExchangeInv, ReplyInv, ReplyMatches, Truthful
<1> QED BY <1>1, ExchangeCorrect, PTL

\* The sends of a command are its attempts.
LEMMA RunsFollow == ExchangeInv => RunsBounded
<1> SUFFICES ASSUME ExchangeInv, NEW c \in Cmds
             PROVE  runs[c] + Cardinality(Of(c)) <= MaxAttempts
  BY DEF RunsBounded
<1>1. TypeOK /\ runs[c] \in Int /\ Cardinality(Of(c)) \in Int
  BY OfFinite DEF ExchangeInv, TypeOK
<1>2. runs[c] + Cardinality(Of(c)) <= Sends(c) /\ Sends(c) \in Int
  BY <1>1, SendsIsInt DEF ExchangeInv, SendsInv
<1>3. Sends(c) <= MaxAttempts
  <2>1. call.attempt \in Int /\ call.attempt <= MaxAttempts /\ MaxAttempts \in Nat
    BY <1>1 DEF TypeOK
  <2> QED BY <2>1 DEF Sends
<1>4. MaxAttempts \in Int
  OBVIOUS
<1> QED BY <1>1, <1>2, <1>3, <1>4

\* However late a request is delivered, a command is carried out at most three
\* times.
THEOREM RunsCorrect == Spec => []RunsBounded
BY RunsFollow, ExchangeCorrect, PTL

\* The configuration in force is the newest that was answered, up to what a socket
\* that was given up still delivers.
THEOREM ConfigCorrect == Spec => []NewestInForce
<1>1. ExchangeInv => NewestInForce
  <2> SUFFICES ASSUME ExchangeInv, NEW c \in Configs, results[c].cmd = c, results[c].done,
                      inForce.cmd < c
               PROVE  inForce.sock < results[c].sock
    BY DEF NewestInForce
  <2>1. c \in Cmds /\ results[c] \notin {Pending, Failed}
    BY DEF Pending, Failed
  <2> QED BY <2>1 DEF ExchangeInv, ReplyInv, Current
<1> QED BY <1>1, ExchangeCorrect, PTL

-----------------------------------------------------------------------------
(* Implementation of DownlinkService                                       *)

\* The safety part of ServiceSpec.
ServiceSafety == Service!Init /\ [][Service!Next]_(Service!vars)

\* The initial states are those of the service.
LEMMA ServiceInit == Init => Service!Init
<1> SUFFICES ASSUME Init PROVE Service!Init
  OBVIOUS
<1>1. \A c \in Cmds : Answer(c) = "none"
  BY DEF Init, Answer
<1>2. runs = [c \in Cmds |-> 0] /\ Handled = {}
  BY DEF Init, Handled
<1> QED BY <1>1, <1>2 DEF Service!Init, Answers

\* A step that changes neither the call's command, a result, nor what the peer did
\* is no step of the service.
LEMMA ServiceStutters ==
    ASSUME UNCHANGED <<results, runs>>, call'.cmd = call.cmd, Handled' = Handled
    PROVE  UNCHANGED Service!vars
<1>1. Answers' = Answers
  BY DEF Answers, Answer
<1> QED BY <1>1 DEF Service!vars

\* The answer of a command is its only change.
LEMMA ServiceAnswers ==
    ASSUME ExchangeInv, NEW x, NEW c \in Cmds,
           results[c] = Pending, results' = [results EXCEPT ![c] = x],
           call.cmd = c, call'.cmd = c, UNCHANGED peer,
           x = Failed \/ (x \in Reply /\ (Truthful(x) /\ x.cmd = c))
    PROVE  Service!Return(c)
<1>1. Pending # Failed /\ (x \in Reply => x # Pending /\ x # Failed)
  BY DEF Pending, Failed, Reply
<1>2. results'[c] = x /\ \A d \in Cmds : d # c => results'[d] = results[d]
  BY DEF ExchangeInv, TypeOK
<1>3. Answer(c) = "pending" /\ Answer(c)' = IF x = Failed THEN "error" ELSE "ok"
  BY <1>1, <1>2 DEF Answer
<1>4. \A d \in Cmds : d # c => Answer(d)' = Answer(d)
  BY <1>2 DEF Answer
<1>5. Answers' = [Answers EXCEPT ![c] = IF x = Failed THEN "error" ELSE "ok"]
  BY <1>3, <1>4 DEF Answers
<1>6. x # Failed => c \in Handled
  BY DEF Truthful, Handled
<1>7. UNCHANGED <<Handled, runs>>
  BY DEF peer, Handled
<1> QED BY <1>3, <1>5, <1>6, <1>7 DEF Service!Return, Answers

\* Every step is one of the service, or none.
LEMMA ServiceStep == ExchangeInv /\ [Next]_vars => [Service!Next]_(Service!vars)
<1> SUFFICES ASSUME ExchangeInv, [Next]_vars PROVE Service!Next \/ UNCHANGED Service!vars
  OBVIOUS
<1>1. CASE AskId \/ LearnId \/ SetupFails \/ Send \/ SendFails \/ Timeout \/ UNCHANGED vars
  <2>1. UNCHANGED <<results, runs, refused>>
    BY <1>1 DEF AskId, LearnId, SetupFails, Send, SendFails, Timeout, vars, peer
  <2>2. call'.cmd = call.cmd
    BY <1>1 DEF AskId, LearnId, SetupFails, Send, SendFails, Timeout, vars, ExchangeInv, TypeOK
  <2> QED BY <2>1, <2>2, ServiceStutters DEF Handled
<1>2. CASE Command
  <2>0. PICK c \in Cmds : c = call.cmd + 1
    BY <1>2 DEF Command, ExchangeInv, TypeOK
  <2>1. /\ call'.cmd = c /\ call.cmd \in Int
        /\ results' = results /\ runs' = runs /\ Handled' = Handled
    BY <1>2, <2>0 DEF Command, ExchangeInv, TypeOK, peer, Handled
  <2>a. results[c] = Pending
    BY <2>0, <2>1 DEF ExchangeInv, CallInv
  <2>b. call.cmd = c - 1 /\ c \in Int
    BY <2>0, <2>1
  <2>2. Answer(c) = "none" /\ Answer(c)' = "pending"
    BY <2>1, <2>a, <2>b DEF Answer
  <2>3. \A d \in Cmds : d # c => Answer(d)' = Answer(d)
    BY <2>1, <2>b DEF Answer
  <2>4. Answers' = [Answers EXCEPT ![c] = "pending"]
    BY <2>1, <2>2, <2>3 DEF Answers
  <2>5. Service!Give(c)
    BY <2>1, <2>2, <2>4 DEF Service!Give, Answers
  <2> QED BY <2>1, <2>5 DEF Service!Next
<1>3. CASE Receive
  <2>1. PICK r \in replies : r.sock = sock.id /\ results' = [results EXCEPT ![call.cmd] = r]
    BY <1>3 DEF Receive
  <2>2. call.cmd \in Cmds /\ results[call.cmd] = Pending /\ r \in Reply /\ r.cmd = call.cmd
    BY <1>3, <2>1 DEF Receive, ExchangeInv, CallInv, SocketInv, TypeOK
  <2>3. Truthful(r)
    BY DEF ExchangeInv, ReplyInv
  <2>4. call'.cmd = call.cmd /\ UNCHANGED peer
    BY <1>3 DEF Receive, ExchangeInv, TypeOK
  <2>5. Service!Return(call.cmd)
    BY <2>1, <2>2, <2>3, <2>4, ServiceAnswers
  <2> QED BY <2>2, <2>5 DEF Service!Next
<1>4. CASE Reconnect \/ ReconnectFails
  <2>1. call.pc = "reconnect" /\ NextAttempt /\ UNCHANGED peer
    BY <1>4 DEF Reconnect, ReconnectFails
  <2>2. call.cmd \in Cmds /\ results[call.cmd] = Pending
    BY <2>1 DEF ExchangeInv, CallInv, TypeOK
  <2>3. call'.cmd = call.cmd
    BY <2>1 DEF NextAttempt, ExchangeInv, TypeOK
  <2>4. CASE call.attempt < MaxAttempts
    BY <2>1, <2>3, <2>4, ServiceStutters DEF NextAttempt, peer, Handled
  <2>5. CASE ~(call.attempt < MaxAttempts)
    <3>1. results' = [results EXCEPT ![call.cmd] = Failed]
      BY <2>1, <2>5 DEF NextAttempt
    <3>2. Service!Return(call.cmd)
      BY <2>1, <2>2, <2>3, <3>1, ServiceAnswers
    <3> QED BY <2>2, <3>2 DEF Service!Next
  <2> QED BY <2>4, <2>5
<1>5. ASSUME NEW r \in requests, CarryOut(r) \/ Refuse(r)
      PROVE  Service!Next \/ UNCHANGED Service!vars
  <2>1. UNCHANGED <<call, results>> /\ r.cmd \in 0..MaxCmds /\ r.cmd <= call.cmd
    BY <1>5 DEF CarryOut, Refuse, Handle, ExchangeInv, SocketInv, TypeOK, Request
  <2>2. CASE r.cmd = Query
    <3>1. runs' = runs /\ Handled' = Handled
      <4>1. runs \in [Cmds -> Nat]
        BY DEF ExchangeInv, TypeOK
      <4>2. runs' = runs
        <5>1. CASE CarryOut(r)
          <6>1. \A c \in Cmds : c # r.cmd
            BY <2>2
          <6> QED BY <4>1, <5>1, <6>1 DEF CarryOut
        <5> QED BY <1>5, <5>1 DEF Refuse
      <4>3. \A c \in Cmds : c \in refused' <=> c \in refused
        <5>1. \A c \in Cmds : c # r.cmd
          BY <2>2
        <5> QED BY <1>5, <5>1 DEF CarryOut, Refuse
      <4> QED BY <4>2, <4>3 DEF Handled
    <3> QED BY <2>1, <3>1, ServiceStutters
  <2>3. CASE r.cmd # Query
    <3>1. r.cmd \in Cmds
      BY <2>1, <2>3
    <3>2. Answer(r.cmd) # "none"
      BY <2>1 DEF Answer, ExchangeInv, TypeOK
    <3>3. Answers' = Answers
      BY <2>1 DEF Answers, Answer
    <3>4. CASE CarryOut(r)
      <4>1. runs' = [runs EXCEPT ![r.cmd] = @ + 1] /\ Handled' = Handled \cup {r.cmd}
        <5>1. runs \in [Cmds -> Nat]
          BY DEF ExchangeInv, TypeOK
        <5>2. runs' = [runs EXCEPT ![r.cmd] = @ + 1] /\ refused' = refused
          BY <3>1, <3>4, <5>1 DEF CarryOut
        <5>3. \A c \in Cmds : runs'[c] > 0 <=> runs[c] > 0 \/ c = r.cmd
          BY <3>1, <5>1, <5>2
        <5> QED BY <3>1, <5>2, <5>3 DEF Handled
      <4>2. runs[r.cmd] < MaxAttempts
        <5>1. Cardinality(Of(r.cmd)) > 0 /\ Cardinality(Of(r.cmd)) \in Int
          <6>1. TypeOK /\ r \in Of(r.cmd)
            BY DEF ExchangeInv, Of
          <6> QED BY <6>1, OfFinite, FS_EmptySet
        <5>2. runs[r.cmd] \in Int
          BY <3>1 DEF ExchangeInv, TypeOK
        <5>3. runs[r.cmd] + Cardinality(Of(r.cmd)) <= MaxAttempts
          BY <3>1, RunsFollow DEF RunsBounded
        <5> QED BY <5>1, <5>2, <5>3
      <4>3. Service!Transmit(r.cmd)
        BY <3>1, <3>2, <3>3, <4>1, <4>2 DEF Service!Transmit, Service!Deliverable, Answers
      <4> QED BY <3>1, <4>3 DEF Service!Next
    <3>5. CASE Refuse(r)
      <4>1. runs' = runs /\ Handled' = Handled \cup {r.cmd}
        BY <3>1, <3>5 DEF Refuse, Handled
      <4>2. Service!Refuse(r.cmd)
        BY <3>1, <3>2, <3>3, <4>1 DEF Service!Refuse, Service!Deliverable, Answers
      <4> QED BY <3>1, <4>2 DEF Service!Next
    <3> QED BY <1>5, <3>4, <3>5
  <2> QED BY <2>2, <2>3
<1> QED BY <1>1, <1>2, <1>3, <1>4, <1>5 DEF Next, Setup, CommandStep

\* send_command implements what a backend promises: every answer comes from the
\* radio side, which carries a command out at most MaxAttempts times.
THEOREM ServiceCorrect == Spec => ServiceSafety
<1>1. Init => Service!Init
  BY ServiceInit
<1>2. ExchangeInv /\ [Next]_vars => [Service!Next]_(Service!vars)
  BY ServiceStep
<1> QED BY <1>1, <1>2, ExchangeCorrect, PTL DEF Spec, ServiceSafety

\* Every behaviour of the service keeps its promise.
LEMMA PromiseKept == ServiceSafety => []Service!Promise
<1>1. Service!Init => Service!Promise
  BY CmdAssumption DEF Service!Init, Service!Promise
<1>2. Service!Promise /\ [Service!Next]_(Service!vars) => Service!Promise'
  <2> SUFFICES ASSUME Service!Promise, [Service!Next]_(Service!vars) PROVE Service!Promise'
    OBVIOUS
  <2>1. ASSUME NEW f \in Cmds, Service!Give(f) PROVE Service!Promise'
    BY <2>1 DEF Service!Give, Service!Promise
  <2>2. ASSUME NEW f \in Cmds, Service!Return(f) PROVE Service!Promise'
    BY <2>2 DEF Service!Return, Service!Promise
  <2>3. ASSUME NEW f \in Cmds, Service!Transmit(f) PROVE Service!Promise'
    BY <2>3, CmdAssumption DEF Service!Transmit, Service!Deliverable, Service!Promise
  <2>4. ASSUME NEW f \in Cmds, Service!Refuse(f) PROVE Service!Promise'
    BY <2>4 DEF Service!Refuse, Service!Promise
  <2>5. CASE UNCHANGED Service!vars
    BY <2>5 DEF Service!vars, Service!Promise
  <2> QED BY <2>1, <2>2, <2>3, <2>4, <2>5 DEF Service!Next
<1> QED BY <1>1, <1>2, PTL DEF ServiceSafety

\* A command answered "ok" was dealt with by Concentratord, and none is executed more
\* often than it was attempted or before it was given (send_command).
THEOREM PromiseCorrect == Spec => []Service!Promise
BY ServiceCorrect, PromiseKept, PTL
=============================================================================
