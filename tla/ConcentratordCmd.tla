--------------------------- MODULE ConcentratordCmd ---------------------------
(***************************************************************************)
(* The command side of the Concentratord backend.  setup asks once for the *)
(* gateway id, and the process ends when no answer comes in 100 ms; then   *)
(* send_command sends each command on the same ZMQ REQ socket, waits for   *)
(* its reply for 100 ms, and after an error replaces the socket and sends  *)
(* the command again, three times in all.  One task issues the commands,   *)
(* the one that reads the LNS.                                             *)
(*                                                                         *)
(* ZMQ, Concentratord and systemd are external.  A REQ socket refuses to   *)
(* send while it owes a receive; a socket that is dropped lingers, so its  *)
(* request may still arrive, however late, while its reply has nowhere to  *)
(* go; requests of different sockets arrive in any order.  Concentratord   *)
(* carries a command out or refuses it, and answers either way.            *)
(***************************************************************************)
EXTENDS Integers, FiniteSets

CONSTANTS
    MaxAttempts,    \* 3
    MaxCmds,        \* bound: commands
    Configs,        \* which of them are configurations; the others are downlinks
    MaxBroken,      \* bound: reconnects that fail
    MaxRestarts     \* bound: restarts by systemd

ASSUME CmdAssumption ==
    /\ MaxAttempts \in Nat \ {0} /\ MaxCmds \in Nat
    /\ Configs \subseteq 1..MaxCmds
    /\ MaxBroken \in Nat /\ MaxRestarts \in Nat

VARIABLES
    sock,       \* cmd_sock
    call,       \* locals of setup and of send_command
    requests,   \* requests on their way to Concentratord
    replies,    \* replies on their way back
    inForce,    \* the request of the configuration Concentratord runs with
    runs,       \* history: command -> times Concentratord carried it out
    refused,    \* history: commands that Concentratord refused
    results,    \* history: command -> what send_command returned
    faults,     \* history: faults that the running command met
    broken,
    restarts

peer == <<inForce, runs, refused>>
bounds == <<broken, restarts>>
vars == <<sock, call, requests, replies, peer, results, faults, bounds>>

Cmds == 1..MaxCmds
Query == 0          \* GetGatewayId

\* A result is the reply that was received, or one of these.
Pending == [cmd |-> -1, sock |-> 0, done |-> FALSE]
Failed  == [cmd |-> -2, sock |-> 0, done |-> FALSE]

NewSocket(id) == [id |-> id, state |-> "ready"]

\* What is kept for a socket goes with it.
RepliesTo(s) == {r \in replies : r.sock = s.id}

Init ==
    /\ sock = NewSocket(0)
    /\ call = [pc |-> "setup", cmd |-> Query, attempt |-> 0]
    /\ requests = {} /\ replies = {}
    /\ inForce = [cmd |-> Query, sock |-> 0]
    /\ runs = [c \in Cmds |-> 0] /\ refused = {}
    /\ results = [c \in Cmds |-> Pending]
    /\ faults = 0 /\ broken = 0 /\ restarts = 0

-----------------------------------------------------------------------------
(* setup                                                                   *)

AskId ==
    /\ call.pc = "setup"
    /\ requests' = requests \cup {[cmd |-> Query, sock |-> sock.id]}
    /\ sock' = [sock EXCEPT !.state = "awaiting"]
    /\ call' = [call EXCEPT !.pc = "askid"]
    /\ UNCHANGED <<replies, peer, results, faults, bounds>>

\* The socket of the query is the one the commands go out on.
LearnId ==
    /\ call.pc = "askid"
    /\ \E r \in replies : r.sock = sock.id /\ r.done /\ replies' = replies \ {r}
    /\ sock' = [sock EXCEPT !.state = "ready"]
    /\ call' = [call EXCEPT !.pc = "idle"]
    /\ UNCHANGED <<requests, peer, results, faults, bounds>>

\* No answer in time, or one without a gateway id of 16 digits: main expects
\* setup to succeed and ends the process, and systemd starts another.
SetupFails ==
    /\ call.pc = "askid" /\ restarts < MaxRestarts
    /\ restarts' = restarts + 1
    /\ sock' = NewSocket(sock.id + 1)
    /\ replies' = RepliesTo(sock')
    /\ call' = [call EXCEPT !.pc = "setup"]
    /\ UNCHANGED <<requests, peer, results, faults, broken>>

-----------------------------------------------------------------------------

\* A fault of the last reconnect before it counts for the new command.
Command ==
    /\ call.pc = "idle" /\ call.cmd < MaxCmds
    /\ call' = [pc |-> "send", cmd |-> call.cmd + 1, attempt |-> 1]
    /\ faults' = IF sock.state = "ready" THEN 0 ELSE 1
    /\ UNCHANGED <<sock, requests, replies, peer, results, bounds>>

Send ==
    /\ call.pc = "send" /\ sock.state = "ready"
    /\ requests' = requests \cup {[cmd |-> call.cmd, sock |-> sock.id]}
    /\ sock' = [sock EXCEPT !.state = "awaiting"]
    /\ call' = [call EXCEPT !.pc = "poll"]
    /\ UNCHANGED <<replies, peer, results, faults, bounds>>

\* Mutant of SendFails: no sndtimeo, so sending without a peer blocks.
SendFailsNoTimeout ==
    /\ call.pc = "send" /\ sock.state = "awaiting"
    /\ call' = [call EXCEPT !.pc = "reconnect"]
    /\ UNCHANGED <<sock, requests, replies, peer, results, faults, bounds>>

\* EFSM when the socket still owes a receive, EAGAIN when it has no peer.
SendFails ==
    /\ call.pc = "send" /\ sock.state # "ready"
    /\ call' = [call EXCEPT !.pc = "reconnect"]
    /\ UNCHANGED <<sock, requests, replies, peer, results, faults, bounds>>

Receive ==
    /\ call.pc = "poll"
    /\ \E r \in replies :
          /\ r.sock = sock.id
          /\ replies' = replies \ {r}
          /\ results' = [results EXCEPT ![call.cmd] = r]
    /\ sock' = [sock EXCEPT !.state = "ready"]
    /\ call' = [call EXCEPT !.pc = "idle"]
    /\ UNCHANGED <<requests, peer, faults, bounds>>

Timeout ==
    /\ call.pc = "poll"
    /\ call' = [call EXCEPT !.pc = "reconnect"]
    /\ faults' = faults + 1
    /\ UNCHANGED <<sock, requests, replies, peer, results, bounds>>

\* Mutant of NextAttempt: one attempt too many.
NextAttemptLate ==
    IF call.attempt <= MaxAttempts
    THEN call' = [call EXCEPT !.pc = "send", !.attempt = @ + 1] /\ UNCHANGED results
    ELSE call' = [call EXCEPT !.pc = "idle"] /\ results' = [results EXCEPT ![call.cmd] = Failed]

NextAttempt ==
    IF call.attempt < MaxAttempts
    THEN call' = [call EXCEPT !.pc = "send", !.attempt = @ + 1] /\ UNCHANGED results
    ELSE call' = [call EXCEPT !.pc = "idle"] /\ results' = [results EXCEPT ![call.cmd] = Failed]

\* Mutant of Renewed: the socket is reset, not replaced.
RenewedSame == NewSocket(sock.id)

\* Mutant of Renewed: the socket stays as it is.
RenewedNot == sock

Renewed == NewSocket(sock.id + 1)

\* reconnect_cmd_sock, which also follows the last attempt.
Reconnect ==
    /\ call.pc = "reconnect"
    /\ sock' = Renewed
    /\ replies' = RepliesTo(sock')
    /\ NextAttempt
    /\ UNCHANGED <<requests, peer, faults, bounds>>

\* No socket can be created and the old one stays, or the new one does not
\* connect.  The error is logged only.
ReconnectFails ==
    /\ call.pc = "reconnect" /\ broken < MaxBroken
    /\ broken' = broken + 1
    /\ sock' \in {sock, [Renewed EXCEPT !.state = "unconnected"]}
    /\ replies' = RepliesTo(sock')
    /\ faults' = IF call.attempt < MaxAttempts THEN faults + 1 ELSE faults
    /\ NextAttempt
    /\ UNCHANGED <<requests, peer, restarts>>

-----------------------------------------------------------------------------
(* Concentratord                                                           *)

\* It deals with the request r; the reply is kept for its socket, or lost.
Handle(r, done) ==
    LET reply == [cmd |-> r.cmd, sock |-> r.sock, done |-> done]
    IN  /\ requests' = requests \ {r}
        /\ \/ replies' = replies
           \/ r.sock = sock.id /\ replies' = replies \cup {reply}
        /\ UNCHANGED <<sock, call, results, faults, bounds>>

\* The query changes nothing.
CarryOut(r) ==
    /\ Handle(r, TRUE)
    /\ runs' = [c \in Cmds |-> IF c = r.cmd THEN runs[c] + 1 ELSE runs[c]]
    /\ inForce' = IF r.cmd \in Configs THEN r ELSE inForce
    /\ UNCHANGED refused

\* Nothing is done, and the answer says so only in fields that are not read.
Refuse(r) ==
    /\ Handle(r, FALSE)
    /\ refused' = refused \cup {r.cmd}
    /\ UNCHANGED <<inForce, runs>>

-----------------------------------------------------------------------------

CommandStep ==
    Send \/ SendFails \/ Receive \/ Timeout \/ Reconnect \/ ReconnectFails

Setup == AskId \/ LearnId \/ SetupFails

Next == Setup \/ Command \/ CommandStep \/ \E r \in requests : CarryOut(r) \/ Refuse(r)

Spec == Init /\ [][Next]_vars

\* send_command blocks for 100 ms at most.
FairSpec == Spec /\ WF_vars(CommandStep)

-----------------------------------------------------------------------------
(* Properties                                                              *)

Request == [cmd : 0..MaxCmds, sock : Nat]
Reply   == [cmd : 0..MaxCmds, sock : Nat, done : BOOLEAN]

TypeOK ==
    /\ sock \in [id : Nat, state : {"ready", "awaiting", "unconnected"}]
    /\ call \in [pc : {"setup", "askid", "idle", "send", "poll", "reconnect"},
                 cmd : 0..MaxCmds, attempt : 0..MaxAttempts]
    /\ requests \subseteq Request /\ IsFiniteSet(requests)
    /\ replies \subseteq Reply
    /\ inForce \in Request
    /\ runs \in [Cmds -> Nat] /\ refused \subseteq 0..MaxCmds
    /\ results \in [Cmds -> Reply \cup {Pending, Failed}]

\* setup runs before the first command, and a command has a number.
CallInv ==
    /\ call.pc \in {"setup", "askid"} => call.cmd = Query
    /\ call.pc \in {"send", "poll", "reconnect"} =>
          call.cmd # Query /\ call.attempt > 0 /\ results[call.cmd] = Pending
    /\ \A c \in Cmds : c > call.cmd => results[c] = Pending /\ runs[c] = 0

\* A socket owes one answer at most, and only the socket in use is still
\* listening: what it owes while it is polled is the answer to this command.
SocketInv ==
    /\ \A q \in requests : q.sock <= sock.id /\ q.cmd <= call.cmd
    /\ \A q, r \in requests : q.sock = r.sock => q = r
    /\ \A r \in replies : r.sock = sock.id /\ \A q \in requests : q.sock # r.sock
    /\ \A q, r \in replies : q = r
    /\ sock.state # "awaiting" => \A r \in requests \cup replies : r.sock # sock.id
    /\ call.pc = "setup" => sock.state = "ready"
    /\ call.pc \in {"askid", "poll"} =>
          \A r \in requests \cup replies : r.sock = sock.id => r.cmd = call.cmd

\* An answer says what became of its command.
Truthful(r) == IF r.done THEN r.cmd \in Cmds => runs[r.cmd] > 0 ELSE r.cmd \in refused

\* The configuration r answers for was not replaced by an older one of the same
\* socket or a later one.
Current(r) ==
    r.done /\ r.cmd \in Configs /\ inForce.cmd < r.cmd => inForce.sock < r.sock

ReplyInv ==
    /\ \A r \in replies : Truthful(r) /\ Current(r)
    /\ \A c \in Cmds : results[c] \notin {Pending, Failed} =>
          /\ results[c].cmd = c /\ Truthful(results[c]) /\ Current(results[c])
          /\ \A q \in requests : q.cmd < c => q.sock < results[c].sock

\* How often command c has been sent.
Sends(c) ==
    IF c > call.cmd THEN 0
    ELSE IF c < call.cmd \/ call.pc = "idle" THEN MaxAttempts
    ELSE IF call.pc = "send" THEN call.attempt - 1 ELSE call.attempt

Of(c) == {r \in requests : r.cmd = c}

SendsInv == \A c \in Cmds : runs[c] + Cardinality(Of(c)) <= Sends(c)

\* Inductive by itself.
ExchangeInv == TypeOK /\ CallInv /\ SocketInv /\ ReplyInv /\ SendsInv

\* An attempt behind the command, or one that cannot succeed, has cost a fault.
FaultsInv ==
    /\ faults \in Nat
    /\ call.pc \in {"send", "poll"} => faults >= call.attempt - 1
    /\ call.pc = "send" /\ sock.state # "ready" => faults >= call.attempt
    /\ call.pc = "reconnect" => faults >= call.attempt
    /\ \A c \in Cmds : results[c] = Failed /\ c = call.cmd => faults >= MaxAttempts

\* What makes the properties below inductive, the type invariant with it.
CmdInv == ExchangeInv /\ FaultsInv

\* A reply is never taken for the answer to another command, or to the query of
\* setup, however late it comes: the socket it belongs to is gone or refuses to
\* send.
ReplyMatches ==
    \A c \in Cmds : results[c] \notin {Pending, Failed} =>
        /\ results[c].cmd = c
        /\ IF results[c].done THEN runs[c] > 0 ELSE c \in refused

\* A command is carried out at most once for every attempt, now and later.
RunsBounded ==
    \A c \in Cmds :
        runs[c] + Cardinality(Of(c)) <= MaxAttempts

\* A command fails only after as many faults as it has attempts: a timeout or a
\* reconnect that failed costs one attempt, and the failure of one command costs
\* the next one at most one.
FailsAfterFaults ==
    \A c \in Cmds : (results[c] = Failed /\ c = call.cmd) => faults >= MaxAttempts

\* The configuration in force is the newest that was carried out and answered,
\* unless an older one comes late from a socket that was given up before.
NewestInForce ==
    \A c \in Configs :
        (results[c].cmd = c /\ results[c].done /\ inForce.cmd < c)
            => inForce.sock < results[c].sock

-----------------------------------------------------------------------------
(* A command is a frame of DownlinkService: an answer comes from           *)
(* Concentratord, an error says nothing, as a request may still arrive.    *)

Answer(c) ==
    IF c > call.cmd THEN "none"
    ELSE IF results[c] = Pending THEN "pending"
    ELSE IF results[c] = Failed THEN "error" ELSE "ok"

Answers == [c \in Cmds |-> Answer(c)]
Handled == {c \in Cmds : runs[c] > 0 \/ c \in refused}

Service == INSTANCE DownlinkService WITH
    Frames <- Cmds, MaxTx <- [c \in Cmds |-> MaxAttempts],
    Confirmed <- TRUE, Definite <- {},
    answer <- Answers, handled <- Handled, air <- runs

\* Every command is answered, whether or not Concentratord is, and "ok" means that
\* Concentratord dealt with it.
ServiceSpec == Service!Spec
=============================================================================
