---------------------------- MODULE SemtechProofs ----------------------------
(***************************************************************************)
(* Proofs about SemtechUdp, for every set of frames, of addresses and of   *)
(* gateways, whatever tokens the frames share and whatever becomes of the  *)
(* datagrams: SemtechInv is inductive when a frame has two items at most,  *)
(* as Downlinks gives it, and from it follow InFlightIsCached,             *)
(* RetriesFollowRejects and that every step is one of DownlinkService.     *)
(***************************************************************************)
EXTENDS SemtechUdp, FiniteSetTheorems, TLAPS

\* The assumption of the proofs: a frame has RX1 and RX2, or one of them, as Downlinks
\* gives it.
TwoItems == \A f \in Frames : NumItems[f] <= 2

-----------------------------------------------------------------------------
(* Shapes                                                                  *)

\* A token is one of the keys of the cache.
LEMMA TokenType == \A f \in Frames : Token(f) \in Tokens
BY SemtechAssumption DEF Token, Tokens

\* An entry has a frame.
LEMMA EntryShape ==
    ASSUME TypeOK
    PROVE  /\ \A t \in Tokens : cache[t] = NoEntry \/ cache[t] \in Entries
           /\ NoEntry \notin Entries
BY SemtechAssumption DEF TypeOK, Entries, NoEntry

\* A call has a frame.
LEMMA CallShape ==
    ASSUME TypeOK
    PROVE  /\ \A c \in Callers : call[c] = NoCall \/ call[c] \in Calls
           /\ NoCall \notin Calls
           /\ \A c \in Callers : call[c].pc # "idle" <=> call[c] # NoCall
BY DEF TypeOK, Calls, NoCall

\* The locals of the receive loop are those of its step.
LEMMA LoopShape ==
    ASSUME TypeOK
    PROVE  /\ loop.pc \in {"recv", "pull", "look", "found"}
           /\ loop.pc = "pull" => loop.addr \in Addrs
           /\ loop.pc \in {"look", "found"} => loop.ack \in Ack
           /\ loop.pc = "found" => loop.entry \in Entries
BY DEF TypeOK, Loops, Receiving

\* The fields of the history.
LEMMA HistoryShape ==
    ASSUME TypeOK
    PROVE  /\ history.sent \subseteq Item /\ history.rejected \subseteq Item
           /\ history.sends \in Nat /\ history.air \subseteq Resp
           /\ history.failed \subseteq Frames /\ history.errors \subseteq Frames
           /\ history.expired \subseteq Frames
BY DEF TypeOK, Histories

\* Every item is Ignored at first.
LEMMA NoAcksType ==
    ASSUME NEW f \in Frames
    PROVE  NoAcks(f) \in [0..(NumItems[f] - 1) -> Status] /\ NoAcks(f) \in AckLists
BY DEF NoAcks, Status, AckLists

-----------------------------------------------------------------------------
(* The inductive invariant                                                 *)

\* Nothing is cached, called, sent or known of a frame at first.
LEMMA Initially == Init => SemtechInv
<1> SUFFICES ASSUME Init PROVE SemtechInv
  OBVIOUS
<1>1. TypeOK
  BY SemtechAssumption DEF Init, TypeOK, Ids, Loops, Histories, NoEntry, NoCall
<1>2. AcksInv
  BY DEF Init, AcksInv, Receiving
<1>3. EntryInv
  BY DEF Init, EntryInv
<1>4. CallInv
  BY DEF Init, CallInv, Callers
<1>5. NetInv
  BY DEF Init, NetInv
<1>6. LoopInv
  BY DEF Init, LoopInv, Receiving
<1>7. SentInv
  BY DEF Init, SentInv
<1>8. ErrorInv
  BY DEF Init, ErrorInv, Callers
<1> QED BY <1>1, <1>2, <1>3, <1>4, <1>5, <1>6, <1>7, <1>8 DEF SemtechInv

\* Tokens are constants.
LEMMA TokenKept == OwnToken' = OwnToken /\ \A f : Token(f)' = Token(f)
BY DEF OwnToken, Token

\* A frame finds an entry of its token, and with a token of its own its entry or none.
LEMMA EntryOf ==
    ASSUME TypeOK, EntryInv, NEW f \in Frames, Entry(f) # NoEntry
    PROVE  /\ Entry(f) \in Entries /\ Token(Entry(f).frame) = Token(f)
           /\ Entry(f).frame \in given
           /\ Entry(f).expired => Entry(f).frame \in history.expired
           /\ f \in OwnToken => Entry(f).frame = f
<1>1. Token(f) \in Tokens
  BY TokenType
<1>2. Entry(f) \in Entries /\ Token(Entry(f).frame) = Token(f)
  BY <1>1, EntryShape DEF EntryInv, Entry
<1>3. f \in OwnToken => Entry(f).frame = f
  BY <1>2 DEF OwnToken, Entries
<1> QED BY <1>1, <1>2, <1>3 DEF EntryInv, Entry

\* What expired and what was rejected stays so.
LEMMA Monotone ==
    ASSUME history.expired \subseteq history'.expired,
           history.rejected \subseteq history'.rejected
    PROVE  /\ \A f : Expired(f) => Expired(f)'
           /\ \A f, i : Prompted(f, i) => Prompted(f, i)'
BY TokenKept DEF Expired, Prompted

\* A call, the loop and what was sent rest on less than the whole state.
LEMMA CallsKept ==
    ASSUME UNCHANGED cache, history'.sent = history.sent,
           history.expired \subseteq history'.expired,
           history.rejected \subseteq history'.rejected
    PROVE  /\ \A f, i : CachedFrom(f, i)' <=> CachedFrom(f, i)
           /\ \A e : (LnsCallOK(e) /\ (e.pc = "cache" => Unseen(e.frame)')) => LnsCallOK(e)'
           /\ \A e : (UdpCallOK(e) /\ loop'.pc = "recv") => UdpCallOK(e)'
           /\ (SentInv /\ given \subseteq given') => SentInv'
<1>1. /\ \A f : Entry(f)' = Entry(f)
      /\ \A f, i : CachedFrom(f, i)' <=> CachedFrom(f, i)
  BY TokenKept DEF Entry, CachedFrom
<1>2. \A e : (LnsCallOK(e) /\ (e.pc = "cache" => Unseen(e.frame)')) => LnsCallOK(e)'
  BY <1>1, Monotone, TokenKept DEF LnsCallOK
<1>3. \A e : (UdpCallOK(e) /\ loop'.pc = "recv") => UdpCallOK(e)'
  BY <1>1, Monotone DEF UdpCallOK
<1>4. (SentInv /\ given \subseteq given') => SentInv'
  BY <1>1, Monotone DEF SentInv
<1> QED BY <1>1, <1>2, <1>3, <1>4

\* The LNS task's frame stays unseen where nothing that speaks of it changes.
LEMMA UnseenKept ==
    ASSUME UNCHANGED cache, history'.sent = history.sent, NEW f, Unseen(f),
           loop'.pc = "found" => loop'.entry.frame # f,
           call'["udp"] # NoCall => call'["udp"].frame # f
    PROVE  Unseen(f)'
BY TokenKept DEF Unseen, Entry

\* The start of the process changes nothing of the cache or the network.
LEMMA BootKeeps ==
    ASSUME SemtechInv, Boot
    PROVE  SemtechInv'
<1>1. UNCHANGED <<gatewayId, pullAddr, cache, call, loop, pulls, given, resps, txAcks, history>>
  BY DEF Boot, SeeGatewayId, LnsSetup, CupsSetup, net
<1>2. boot' \in [pc : {"wait", "lns", "cups", "run"}, lns : Ids, cups : Ids]
  BY DEF Boot, SeeGatewayId, LnsSetup, CupsSetup, SemtechInv, TypeOK
<1>3. TypeOK'
  BY <1>1, <1>2 DEF SemtechInv, TypeOK
<1>4. AcksInv' /\ EntryInv' /\ NetInv' /\ ErrorInv'
  BY <1>1, TokenKept DEF SemtechInv, AcksInv, EntryInv, NetInv, ErrorInv, AckOK
<1>5. CallInv' /\ LoopInv' /\ SentInv'
  BY <1>1, CallsKept, UnseenKept, TokenKept
     DEF SemtechInv, CallInv, LnsCallOK, UdpCallOK, LoopInv, AckOK, Unseen
<1> QED BY <1>3, <1>4, <1>5 DEF SemtechInv

\* A frame the LNS task has not had before was never cached or sent.
LEMMA DownlinkKeeps ==
    ASSUME SemtechInv, NEW f \in Frames, LnsDownlink(f)
    PROVE  SemtechInv'
<1> DEFINE new == [pc |-> "cache", frame |-> f, index |-> 0, acks |-> NoAcks(f)]
<1>0. /\ f \notin given /\ given' = given \cup {f} /\ call' = [call EXCEPT !["lns"] = new]
      /\ UNCHANGED <<boot, gatewayId, pullAddr, cache, loop, pulls, resps, txAcks, history>>
  BY DEF LnsDownlink, net
<1>1. new \in Calls /\ call \in [Callers -> Calls \cup {NoCall}] /\ "lns" \in Callers
  BY NoAcksType DEF SemtechInv, TypeOK, Calls, Callers
<1>2. call'["lns"] = new /\ call'["udp"] = call["udp"] /\ new # NoCall
  BY <1>0, <1>1 DEF Callers, NoCall
<1> HIDE DEF new
<1>3. new.frame = f /\ new.index = 0 /\ new.pc = "cache" /\ new.acks = NoAcks(f)
  BY DEF new
<1>4. TypeOK'
  BY <1>0, <1>1 DEF SemtechInv, TypeOK
<1>5. AcksInv'
  BY <1>0, <1>2, <1>3, NoAcksType DEF SemtechInv, AcksInv, AcksFit, Callers
<1>6. EntryInv'
  BY <1>0, TokenKept DEF SemtechInv, EntryInv
<1>7. Unseen(f)
  <2>1. Entry(f) # NoEntry => Entry(f).frame # f
    BY <1>0, EntryOf DEF SemtechInv
  <2>2. call["udp"] # NoCall => call["udp"].frame # f
    BY <1>0 DEF SemtechInv, CallInv, Callers
  <2>3. loop.pc = "found" => loop.entry.frame # f
    BY <1>0 DEF SemtechInv, LoopInv
  <2>4. \A m \in history.sent : m.frame # f
    BY <1>0 DEF SemtechInv, SentInv
  <2> QED BY <2>1, <2>2, <2>3, <2>4 DEF Unseen
<1>8. Unseen(f)'
  BY <1>0, <1>2, <1>7, UnseenKept DEF Unseen
<1>9. CallInv'
  <2>1. LnsCallOK(new)'
    BY <1>0, <1>3, <1>7, <1>8 DEF LnsCallOK, Unseen
  <2>2. call["udp"] # NoCall => UdpCallOK(call["udp"])'
    BY <1>0, CallsKept DEF SemtechInv, CallInv, UdpCallOK
  <2>3. [frame |-> f, index |-> 0] \notin history.sent
    BY <1>7 DEF Unseen
  <2> QED BY <1>0, <1>2, <1>3, <2>1, <2>2, <2>3 DEF SemtechInv, CallInv, Callers
<1>10. NetInv' /\ LoopInv'
  BY <1>0, TokenKept DEF SemtechInv, NetInv, LoopInv, AckOK
<1>11. SentInv'
  BY <1>0, CallsKept DEF SemtechInv
<1>12. ErrorInv'
  BY <1>0, <1>2, <1>3, TokenKept DEF SemtechInv, ErrorInv
<1> QED BY <1>4, <1>5, <1>6, <1>9, <1>10, <1>11, <1>12 DEF SemtechInv

\* One entry is written: those under other tokens are untouched.
LEMMA OneEntry ==
    ASSUME TypeOK, NEW f \in Frames, NEW e, cache' = [cache EXCEPT ![Token(f)] = e]
    PROVE  /\ \A g \in Frames : Entry(g)' = IF Token(g) = Token(f) THEN e ELSE Entry(g)
           /\ cache'[Token(f)] = e
           /\ \A t \in Tokens : t # Token(f) => cache'[t] = cache[t]
BY TokenType, TokenKept DEF TypeOK, Entry

\* The two tasks are not at the same frame while that of the LNS task is not cached, or
\* has a token of its own: then nothing of it was sent yet.
LEMMA FramesDiffer ==
    ASSUME SemtechInv, call["lns"] # NoCall,
           call["lns"].pc = "cache" \/ call["lns"].frame \in OwnToken
    PROVE  /\ call["udp"] # NoCall => call["udp"].frame # call["lns"].frame
           /\ loop.pc = "found" => loop.entry.frame # call["lns"].frame
<1>1. CASE call["lns"].pc = "cache"
  BY <1>1 DEF SemtechInv, CallInv, LnsCallOK, Unseen
<1>2. CASE call["lns"].frame \in OwnToken
  <2>1. \A m \in history.sent : m.frame # call["lns"].frame
    BY <1>2 DEF SemtechInv, CallInv, LnsCallOK
  <2>2. ASSUME call["udp"] # NoCall, call["udp"].frame = call["lns"].frame PROVE FALSE
    <3>1. [frame |-> call["udp"].frame, index |-> call["udp"].index - 1] \in history.sent
      BY <1>2, <2>2 DEF SemtechInv, CallInv, UdpCallOK, Prompted, NetInv
    <3> QED BY <2>1, <2>2, <3>1
  <2>3. ASSUME loop.pc = "found", loop.entry.frame = call["lns"].frame PROVE FALSE
    <3>1. loop.ack.item \in history.sent /\ loop.ack.item.frame \in Frames
      BY <2>3, LoopShape DEF SemtechInv, LoopInv, AckOK, Ack, Item
    <3>2. loop.ack.item.frame = call["lns"].frame
      BY <1>2, <2>3, <3>1 DEF SemtechInv, LoopInv, OwnToken
    <3> QED BY <2>1, <3>1, <3>2
  <2> QED BY <2>2, <2>3
<1> QED BY <1>1, <1>2

\* The entry that is written is that of the call; one of another frame may be displaced.
LEMMA SetCacheKeeps ==
    ASSUME SemtechInv, NEW c \in Callers, SetCache(c)
    PROVE  SemtechInv'
<1>1. TypeOK /\ call \in [Callers -> Calls \cup {NoCall}]
  BY DEF SemtechInv, TypeOK
<1>2. PICK old \in Calls : call[c] = old /\ old # NoCall
  BY <1>1, CallShape DEF SetCache, NoCall
<1> DEFINE e == [frame |-> old.frame, index |-> old.index, acks |-> old.acks, expired |-> FALSE]
           new == [old EXCEPT !.pc = "send"]
<1>3. /\ old.pc = "cache" /\ cache' = [cache EXCEPT ![Token(old.frame)] = e]
      /\ call' = [call EXCEPT ![c] = new]
      /\ UNCHANGED <<boot, gatewayId, pullAddr, loop, pulls, given, resps, txAcks, history>>
  BY <1>2 DEF SetCache, net
<1>4. /\ old.frame \in Frames /\ old.index \in Nat
      /\ new.pc = "send" /\ new.frame = old.frame /\ new.index = old.index
      /\ new.acks = old.acks /\ e.frame = old.frame /\ e.index = old.index
      /\ e.acks = old.acks /\ e.expired = FALSE
  BY <1>2 DEF Calls
<1>5. new \in Calls /\ new # NoCall
  BY <1>1, <1>2, CallShape DEF Calls
<1>6. e \in Entries /\ e # NoEntry
  <2>1. old.frame \in Frames /\ old.index \in Nat /\ old.acks \in AckLists
    BY <1>2 DEF Calls
  <2>2. e \in Entries
    BY <2>1 DEF Entries
  <2> QED BY <1>1, <2>2, EntryShape
<1> HIDE DEF e, new
<1>7. call'[c] = new /\ \A d \in Callers : d # c => call'[d] = call[d]
  BY <1>1, <1>3
<1>8. /\ \A g \in Frames :
            Entry(g)' = IF Token(g) = Token(old.frame) THEN e ELSE Entry(g)
      /\ cache'[Token(old.frame)] = e
      /\ \A t \in Tokens : t # Token(old.frame) => cache'[t] = cache[t]
  BY <1>1, <1>3, <1>4, OneEntry
<1>9. TypeOK'
  <2>1. cache' \in [Tokens -> Entries \cup {NoEntry}]
    BY <1>1, <1>3, <1>6 DEF TypeOK
  <2>2. call' \in [Callers -> Calls \cup {NoCall}]
    BY <1>1, <1>3, <1>5
  <2> QED BY <1>1, <1>3, <2>1, <2>2 DEF TypeOK
<1>10. AcksInv'
  BY <1>2, <1>3, <1>4, <1>7, <1>8 DEF SemtechInv, AcksInv, AcksFit
<1>11. EntryInv'
  <2>1. old.frame \in given
    BY <1>2 DEF SemtechInv, CallInv
  <2>2. ASSUME NEW t \in Tokens, cache'[t] # NoEntry
        PROVE  /\ Token(cache'[t].frame) = t /\ cache'[t].frame \in given
               /\ cache'[t].expired => cache'[t].frame \in history.expired
    <3>1. CASE t = Token(old.frame)
      BY <1>4, <1>8, <2>1, <3>1
    <3>2. CASE t # Token(old.frame)
      BY <1>8, <2>2, <3>2 DEF SemtechInv, EntryInv
    <3> QED BY <3>1, <3>2
  <2> QED BY <1>3, <2>2 DEF EntryInv, Token
<1>12. /\ \A f, i : Prompted(f, i)' <=> Prompted(f, i)
       /\ \A f : Expired(f)' <=> Expired(f)
  BY <1>3, TokenKept DEF Prompted, Expired
<1>13. CallInv'
  <2>1. ASSUME c = "lns" PROVE CallInv'
    <3>1. call["lns"] = old /\ call'["lns"] = new /\ call'["udp"] = call["udp"]
      BY <1>2, <1>7, <2>1 DEF Callers
    <3>2. LnsCallOK(new)'
      <4>1. Entry(old.frame)' # NoEntry
        BY <1>4, <1>6, <1>8
      <4>2. LnsCallOK(old)
        BY <1>2, <3>1 DEF SemtechInv, CallInv
      <4> QED BY <1>3, <1>4, <4>1, <4>2, TokenKept DEF LnsCallOK
    <3>3. ASSUME call["udp"] # NoCall PROVE UdpCallOK(call["udp"])'
      <4>1. PICK u \in Calls : call["udp"] = u
        BY <1>1, <3>3, CallShape DEF Callers
      <4>2. u.frame \in Frames /\ u.frame # old.frame
        BY <1>2, <1>3, <3>1, <3>3, <4>1, FramesDiffer DEF Calls
      <4>3. UdpCallOK(u)
        BY <3>3, <4>1 DEF SemtechInv, CallInv
      <4>4. CachedFrom(u.frame, u.index) => CachedFrom(u.frame, u.index)'
        BY <1>4, <1>6, <1>8, <4>2 DEF CachedFrom
      <4>5. UdpCallOK(u)'
        BY <1>3, <1>12, <4>3, <4>4 DEF UdpCallOK
      <4> QED BY <3>1, <4>1, <4>5 DEF UdpCallOK
    <3> QED BY <1>2, <1>3, <1>4, <3>1, <3>2, <3>3 DEF SemtechInv, CallInv, Callers
  <2>2. ASSUME c = "udp" PROVE CallInv'
    <3>1. call["udp"] = old /\ call'["udp"] = new /\ call'["lns"] = call["lns"]
      BY <1>2, <1>7, <2>2 DEF Callers
    <3>2. UdpCallOK(new)'
      <4>1. CachedFrom(old.frame, old.index)'
        BY <1>4, <1>6, <1>8 DEF CachedFrom
      <4>2. UdpCallOK(old)
        BY <1>2, <3>1 DEF SemtechInv, CallInv
      <4> QED BY <1>3, <1>4, <1>12, <4>1, <4>2 DEF UdpCallOK
    <3>3. ASSUME call["lns"] # NoCall PROVE LnsCallOK(call["lns"])'
      <4>1. PICK l \in Calls : call["lns"] = l
        BY <1>1, <3>3, CallShape DEF Callers
      <4>2. LnsCallOK(l) /\ l.frame \in Frames
        BY <3>3, <4>1 DEF SemtechInv, CallInv, Calls
      <4>3. ASSUME l.pc = "cache" PROVE Unseen(l.frame)'
        <5>1. Unseen(l.frame) /\ l.frame # old.frame
          BY <1>2, <3>1, <4>2, <4>3 DEF LnsCallOK, Unseen
        <5>2. Entry(l.frame)' # NoEntry => Entry(l.frame)'.frame # l.frame
          BY <1>4, <1>8, <4>2, <5>1 DEF Unseen
        <5> QED BY <1>3, <1>4, <3>1, <5>1, <5>2 DEF Unseen
      <4>4. Entry(l.frame) # NoEntry => Entry(l.frame)' # NoEntry
        BY <1>6, <1>8, <4>2
      <4>5. LnsCallOK(l)'
        BY <1>3, <1>12, <4>2, <4>3, <4>4, TokenKept DEF LnsCallOK
      <4> QED BY <3>1, <4>1, <4>5 DEF LnsCallOK
    <3> QED BY <1>2, <1>3, <1>4, <3>1, <3>2, <3>3 DEF SemtechInv, CallInv, Callers
  <2> QED BY <2>1, <2>2 DEF Callers
<1>14. NetInv' /\ LoopInv'
  BY <1>3, TokenKept DEF SemtechInv, NetInv, LoopInv, AckOK
<1>15. SentInv'
  <2> SUFFICES ASSUME NEW m \in history.sent
               PROVE  CachedFrom(m.frame, m.index)'
                      \/ (Entry(m.frame)' = NoEntry /\ Expired(m.frame)')
    BY <1>3, <1>12 DEF SemtechInv, SentInv
  <2>1. m.frame \in Frames /\ m.index \in Nat
    BY <1>1, HistoryShape DEF Item
  <2>2. CASE Token(m.frame) # Token(old.frame)
    BY <1>8, <1>12, <2>1, <2>2 DEF SemtechInv, SentInv, CachedFrom
  <2>3. CASE Token(m.frame) = Token(old.frame)
    <3>1. m.frame = old.frame => m.index < old.index
      <4>1. CASE c = "lns"
        BY <1>2, <1>3, <4>1 DEF SemtechInv, CallInv, LnsCallOK, Unseen
      <4>2. CASE c = "udp"
        BY <1>2, <4>2 DEF SemtechInv, CallInv, UdpCallOK
      <4> QED BY <4>1, <4>2 DEF Callers
    <3>2. Entry(m.frame)' = e
      BY <1>8, <2>1, <2>3
    <3> QED BY <1>4, <1>6, <2>1, <3>1, <3>2 DEF CachedFrom
  <2> QED BY <2>2, <2>3
<1>16. ErrorInv'
  <2>1. \/ call["lns"] # NoCall /\ call'["lns"].frame = call["lns"].frame
        \/ call'["lns"] = call["lns"]
    BY <1>2, <1>4, <1>7 DEF Callers
  <2> QED BY <1>3, <2>1, TokenKept DEF SemtechInv, ErrorInv
<1> QED BY <1>9, <1>10, <1>11, <1>13, <1>14, <1>15, <1>16 DEF SemtechInv

\* A call that returns leaves the other one as it is.
LEMMA CallReturns ==
    ASSUME TypeOK, NEW c \in Callers, call' = [call EXCEPT ![c] = NoCall]
    PROVE  /\ call'[c] = NoCall /\ call' \in [Callers -> Calls \cup {NoCall}]
           /\ \A d \in Callers : call'[d] # NoCall => d # c /\ call'[d] = call[d]
BY DEF TypeOK

\* The item that is sent was not sent before, and its entry is there.
LEMMA SendKeeps ==
    ASSUME SemtechInv, NEW c \in Callers, SendPullResp(c)
    PROVE  SemtechInv'
<1>1. TypeOK
  BY DEF SemtechInv
<1>2. PICK old \in Calls : call[c] = old /\ old # NoCall
  BY <1>1, CallShape DEF SendPullResp, NoCall
<1>3. PICK n \in Nat : history.sends = n
  BY <1>1, HistoryShape
<1> DEFINE item == [frame |-> old.frame, index |-> old.index]
           r == [item |-> item, again |-> item \in history.sent]
<1>4. /\ old.pc = "send" /\ old.index < NumItems[old.frame]
      /\ resps' = resps \cup {r}
      /\ history' = [history EXCEPT !.sent = @ \cup {item}, !.sends = @ + 1]
      /\ call' = [call EXCEPT ![c] = NoCall]
      /\ UNCHANGED <<boot, gatewayId, pullAddr, cache, loop, pulls, given, txAcks>>
  BY <1>2, <1>3 DEF SendPullResp
<1>5. item \in Item /\ r \in Resp /\ r.item = item /\ item.frame = old.frame /\ item.index = old.index
  BY DEF Item, Resp, Calls
<1> HIDE DEF item, r
<1>6. /\ history'.sent = history.sent \cup {item} /\ history'.sends = history.sends + 1
      /\ history'.rejected = history.rejected /\ history'.air = history.air
      /\ history'.errors = history.errors /\ history'.expired = history.expired
  BY <1>1, <1>4 DEF TypeOK, Histories
<1>7. item \notin history.sent /\ old.frame \in given
  BY <1>2 DEF SemtechInv, CallInv, item
<1>8. /\ call'[c] = NoCall /\ call' \in [Callers -> Calls \cup {NoCall}]
      /\ \A d \in Callers : call'[d] # NoCall => d # c /\ call'[d] = call[d]
  BY <1>1, <1>4, CallReturns
<1>9. TypeOK'
  <2>1. history' \in Histories
    <3> DEFINE s == history.sent \cup {item}
               k == n + 1
    <3>1. s \in SUBSET Item /\ k \in Nat
      BY <1>1, <1>5, HistoryShape
    <3>2. history' = [history EXCEPT !.sent = s, !.sends = k]
      BY <1>3, <1>4
    <3> HIDE DEF s, k
    <3> QED BY <1>1, <3>1, <3>2 DEF TypeOK, Histories
  <2> QED BY <1>1, <1>4, <1>5, <1>8, <2>1 DEF TypeOK
<1>10. AcksInv' /\ EntryInv'
  BY <1>4, <1>6, <1>8, TokenKept DEF SemtechInv, AcksInv, EntryInv
<1>11. /\ \A f, i : Prompted(f, i)' <=> Prompted(f, i)
       /\ \A f : Expired(f)' <=> Expired(f)
       /\ \A f : Entry(f)' = Entry(f)
       /\ \A f, i : CachedFrom(f, i)' <=> CachedFrom(f, i)
  BY <1>4, <1>6, TokenKept DEF Prompted, Expired, CachedFrom, Entry
<1>12. CallInv'
  <2>1. \A d \in Callers : call'[d] # NoCall => d # c /\ call'[d] = call[d]
    BY <1>8
  <2>2. ASSUME call'["lns"] # NoCall
        PROVE  /\ LnsCallOK(call["lns"])'
               /\ [frame |-> call["lns"].frame, index |-> call["lns"].index] # item
    <3>1. PICK l \in Calls : call["lns"] = l /\ call["lns"] # NoCall
      BY <1>1, <1>8, <2>2, CallShape DEF Callers
    <3>2. c = "udp" /\ LnsCallOK(l) /\ UdpCallOK(old)
      BY <1>2, <2>1, <2>2, <3>1 DEF Callers, SemtechInv, CallInv
    <3>3. item.index > 0 /\ l.index = 0 /\ loop.pc = "recv"
      BY <1>5, <3>2 DEF UdpCallOK, LnsCallOK
    <3>4. l.pc = "cache" \/ l.frame \in OwnToken => l.frame # old.frame
      BY <1>2, <3>1, <3>2, FramesDiffer
    <3>5. l.pc = "cache" => Unseen(l.frame)'
      BY <1>4, <1>5, <1>6, <1>8, <1>11, <3>2, <3>3, <3>4 DEF Unseen, LnsCallOK, Callers
    <3>6. LnsCallOK(l)'
      BY <1>5, <1>6, <1>11, <3>2, <3>4, <3>5, TokenKept DEF LnsCallOK
    <3>7. call'["lns"] = l
      BY <2>1, <2>2, <3>1 DEF Callers
    <3> QED BY <3>1, <3>3, <3>6, <3>7 DEF LnsCallOK
  <2>3. ASSUME call'["udp"] # NoCall
        PROVE  /\ UdpCallOK(call["udp"])'
               /\ [frame |-> call["udp"].frame, index |-> call["udp"].index] # item
    <3>1. PICK u \in Calls : call["udp"] = u /\ call["udp"] # NoCall
      BY <1>1, <1>8, <2>3, CallShape DEF Callers
    <3>2. c = "lns" /\ UdpCallOK(u) /\ LnsCallOK(old)
      BY <1>2, <2>1, <2>3, <3>1 DEF Callers, SemtechInv, CallInv
    <3>3. item.index = 0 /\ u.index > 0
      BY <1>5, <3>2 DEF UdpCallOK, LnsCallOK
    <3>4. UdpCallOK(u)'
      BY <1>4, <1>6, <1>11, <3>2, <3>3 DEF UdpCallOK
    <3>5. call'["udp"] = u
      BY <2>1, <2>3, <3>1 DEF Callers
    <3> QED BY <3>1, <3>3, <3>4, <3>5 DEF UdpCallOK
  <2> QED BY <1>4, <1>6, <2>1, <2>2, <2>3 DEF Callers, SemtechInv, CallInv
<1>13. NetInv'
  <2>1. \A s \in resps \cup history.air : s.item \in history.sent \ history.rejected
    BY DEF SemtechInv, NetInv
  <2>2. item \notin history.rejected /\ r \notin resps \cup history.air
    BY <1>5, <1>7, <2>1 DEF SemtechInv, NetInv
  <2> QED BY <1>4, <1>5, <1>6, <1>7, <2>1, <2>2 DEF SemtechInv, NetInv, AckOK
<1>14. LoopInv'
  <2>1. ASSUME loop.pc = "found" PROVE item.index <= loop.entry.index
    <3>1. c = "lns" /\ loop.entry.index \in Nat
      BY <1>1, <1>2, <2>1, LoopShape DEF SemtechInv, CallInv, UdpCallOK, Callers, Entries
    <3>2. item.index = 0
      BY <1>2, <1>5, <3>1 DEF SemtechInv, CallInv, LnsCallOK
    <3> QED BY <3>1, <3>2
  <2> QED BY <1>4, <1>6, <2>1, TokenKept DEF SemtechInv, LoopInv, AckOK
<1>15. SentInv'
  <2>1. old.frame \in Frames /\ old.index \in Nat
    BY DEF Calls
  <2>2. /\ old.index > 0 => Prompted(old.frame, old.index)
        /\ CachedFrom(old.frame, old.index)
              \/ (Entry(old.frame) = NoEntry /\ Expired(old.frame))
    <3>1. CASE c = "lns"
      <4>1. old.index = 0 /\ (Entry(old.frame) # NoEntry \/ Expired(old.frame))
        BY <1>2, <1>4, <3>1 DEF SemtechInv, CallInv, LnsCallOK
      <4>2. Entry(old.frame) # NoEntry => Entry(old.frame).index >= 0
        BY <2>1, EntryOf DEF SemtechInv, Entries
      <4> QED BY <4>1, <4>2 DEF CachedFrom
    <3>2. CASE c = "udp"
      BY <1>2, <1>4, <3>2 DEF SemtechInv, CallInv, UdpCallOK
    <3> QED BY <3>1, <3>2 DEF Callers
  <2> DEFINE OK(m) == /\ m.frame \in given /\ m.index < NumItems[m.frame]
                      /\ m.index > 0 => Prompted(m.frame, m.index)
                      /\ CachedFrom(m.frame, m.index)
                            \/ (Entry(m.frame) = NoEntry /\ Expired(m.frame))
  <2>3. OK(item)
    BY <1>4, <1>5, <1>7, <2>2
  <2>4. \A m \in history.sent : OK(m)
    BY DEF SemtechInv, SentInv
  <2> QED BY <1>4, <1>6, <1>11, <2>3, <2>4 DEF SentInv
<1>16. ErrorInv'
  <2>1. old.frame \in OwnToken => old.frame \notin history.errors
    <3>1. CASE c = "lns"
      BY <1>2, <3>1 DEF SemtechInv, ErrorInv
    <3>2. CASE c = "udp" /\ old.frame \in OwnToken
      <4>1. [frame |-> old.frame, index |-> old.index - 1] \in history.sent
        BY <1>2, <3>2 DEF SemtechInv, CallInv, UdpCallOK, Prompted, NetInv
      <4> QED BY <3>2, <4>1 DEF SemtechInv, ErrorInv
    <3> QED BY <3>1, <3>2 DEF Callers
  <2> QED BY <1>4, <1>5, <1>6, <1>8, <2>1, TokenKept DEF SemtechInv, ErrorInv, Callers
<1> QED BY <1>9, <1>10, <1>12, <1>13, <1>14, <1>15, <1>16 DEF SemtechInv

\* A call that fails sent nothing, and nothing ever was of a frame with a token of its own
\* that the LNS task is told about.
LEMMA SendFailsKeeps ==
    ASSUME SemtechInv, NEW c \in Callers, SendFails(c)
    PROVE  SemtechInv'
<1>1. TypeOK
  BY DEF SemtechInv
<1>2. PICK old \in Calls : call[c] = old /\ old # NoCall
  BY <1>1, CallShape DEF SendFails, NoCall
<1>3. /\ history' = [history EXCEPT !.failed = @ \cup {old.frame},
                        !.errors = IF c = "lns" THEN @ \cup {old.frame} ELSE @]
      /\ call' = [call EXCEPT ![c] = NoCall]
      /\ UNCHANGED <<boot, gatewayId, pullAddr, cache, loop, pulls, given, resps, txAcks>>
  BY <1>2 DEF SendFails, net
<1>4. /\ history'.sent = history.sent /\ history'.rejected = history.rejected
      /\ history'.air = history.air /\ history'.expired = history.expired
      /\ history'.errors = IF c = "lns" THEN history.errors \cup {old.frame} ELSE history.errors
      /\ history' \in Histories
  BY <1>1, <1>3 DEF TypeOK, Histories, Calls
<1>5. /\ call'[c] = NoCall /\ call' \in [Callers -> Calls \cup {NoCall}]
      /\ \A d \in Callers : call'[d] # NoCall => d # c /\ call'[d] = call[d]
  BY <1>1, <1>3, CallReturns
<1>6. TypeOK'
  BY <1>1, <1>3, <1>4, <1>5 DEF TypeOK
<1>7. AcksInv' /\ EntryInv'
  BY <1>3, <1>4, <1>5, TokenKept DEF SemtechInv, AcksInv, EntryInv
<1>8. CallInv'
  <2>1. ASSUME call'["lns"] # NoCall PROVE LnsCallOK(call["lns"])'
    <3>1. PICK l : call["lns"] = l /\ l # NoCall
      BY <1>5, <2>1 DEF Callers
    <3>2. LnsCallOK(l) /\ call'["udp"] = NoCall
      BY <1>5, <2>1, <3>1 DEF Callers, SemtechInv, CallInv
    <3>3. l.pc = "cache" => Unseen(l.frame)'
      BY <1>3, <1>4, <3>2, UnseenKept DEF LnsCallOK, Unseen
    <3>4. LnsCallOK(l)'
      BY <1>3, <1>4, <3>2, <3>3, CallsKept
    <3>5. call'["lns"] = l
      BY <1>5, <2>1, <3>1 DEF Callers
    <3> QED BY <3>1, <3>4, <3>5 DEF LnsCallOK
  <2>2. ASSUME call'["udp"] # NoCall PROVE UdpCallOK(call["udp"])'
    <3>1. PICK u : call["udp"] = u /\ u # NoCall
      BY <1>5, <2>2 DEF Callers
    <3>2. UdpCallOK(u)'
      BY <1>3, <1>4, <3>1, CallsKept DEF SemtechInv, CallInv, UdpCallOK
    <3>3. call'["udp"] = u
      BY <1>5, <2>2, <3>1 DEF Callers
    <3> QED BY <3>1, <3>2, <3>3 DEF UdpCallOK
  <2> QED BY <1>3, <1>4, <1>5, <2>1, <2>2 DEF SemtechInv, CallInv, Callers
<1>9. NetInv' /\ LoopInv' /\ SentInv'
  BY <1>3, <1>4, CallsKept, TokenKept DEF SemtechInv, NetInv, LoopInv, AckOK
<1>10. ErrorInv'
  <2>1. old.frame \in given
    BY <1>2 DEF SemtechInv, CallInv
  <2>2. CASE c = "lns"
    <3>1. old.frame \in OwnToken => \A m \in history.sent : m.frame # old.frame
      BY <1>2, <2>2 DEF SemtechInv, CallInv, LnsCallOK
    <3> QED BY <1>3, <1>4, <1>5, <2>1, <2>2, <3>1, TokenKept DEF SemtechInv, ErrorInv
  <2>3. CASE c = "udp"
    BY <1>3, <1>4, <1>5, <2>3, TokenKept DEF SemtechInv, ErrorInv, Callers
  <2> QED BY <2>2, <2>3 DEF Callers
<1> QED BY <1>6, <1>7, <1>8, <1>9, <1>10 DEF SemtechInv

\* PULL_DATA touches the two variables of State that are not the cache.
LEMMA PullKeeps ==
    ASSUME SemtechInv,
           SetPullAddr \/ \E id \in GatewayIds, addr \in Addrs : SetGatewayId(id, addr)
    PROVE  SemtechInv'
<1>1. TypeOK
  BY DEF SemtechInv
<1>2. UNCHANGED <<boot, cache, call, given, resps, txAcks, history>>
  BY DEF SetPullAddr, SetGatewayId, net
<1>3. loop' = Receiving \/ (call["udp"] = NoCall /\ \E addr \in Addrs : loop' = [pc |-> "pull", addr |-> addr])
  BY <1>1, CallShape DEF SetPullAddr, SetGatewayId, Ready, Callers
<1>4. loop'.pc \in {"recv", "pull"} /\ (loop'.pc = "recv" \/ call["udp"] = NoCall)
  BY <1>3 DEF Receiving
<1>5. TypeOK'
  <2>1. loop' \in Loops
    BY <1>3 DEF Loops
  <2>2. gatewayId' \in Ids /\ pullAddr' \in Addrs \cup {Unset} /\ pulls' \in Seq(GatewayIds)
    BY <1>1, LoopShape DEF SetPullAddr, SetGatewayId, TypeOK, Ids
  <2> QED BY <1>1, <1>2, <2>1, <2>2 DEF TypeOK
<1>6. AcksInv' /\ EntryInv' /\ NetInv' /\ LoopInv' /\ SentInv' /\ ErrorInv'
  BY <1>2, <1>4, CallsKept, TokenKept
     DEF SemtechInv, AcksInv, EntryInv, NetInv, LoopInv, ErrorInv, AckOK
<1>7. CallInv'
  BY <1>2, <1>4, CallsKept, UnseenKept
     DEF SemtechInv, CallInv, LnsCallOK, UdpCallOK, Unseen
<1> QED BY <1>5, <1>6, <1>7 DEF SemtechInv

\* The receive loop is between two datagrams, and what it removes has expired.
LEMMA CleanKeeps ==
    ASSUME SemtechInv, NEW a \in txAcks, CleanCache(a)
    PROVE  SemtechInv'
<1>1. TypeOK /\ a \in Ack
  BY DEF SemtechInv, TypeOK
<1>2. /\ call["udp"] = NoCall
      /\ cache' = [t \in Tokens |->
                     IF cache[t] # NoEntry /\ cache[t].expired THEN NoEntry ELSE cache[t]]
      /\ loop' = [pc |-> "look", ack |-> a]
      /\ UNCHANGED <<boot, gatewayId, pullAddr, call, pulls, given, resps, history>>
  BY <1>1, CallShape DEF CleanCache, Ready, Callers
<1>3. loop'.pc = "look" /\ loop'.ack = a /\ loop' \in Loops
  BY <1>1, <1>2 DEF Loops
<1>4. \A b \in txAcks' : b \in Ack /\ \E o \in txAcks : b.item = o.item /\ b.status = o.status
  <2>1. a.copies > 1 => [a EXCEPT !.copies = @ - 1] \in Ack
    BY <1>1 DEF Ack
  <2>2. /\ [a EXCEPT !.copies = @ - 1].item = a.item
        /\ [a EXCEPT !.copies = @ - 1].status = a.status
    BY <1>1 DEF Ack
  <2>3. \A b \in txAcks' : b \in txAcks \/ (a.copies > 1 /\ b = [a EXCEPT !.copies = @ - 1])
    BY DEF CleanCache
  <2> QED BY <1>1, <2>1, <2>2, <2>3 DEF TypeOK
<1>5. \A t \in Tokens : cache'[t] = cache[t]
                        \/ (cache[t] # NoEntry /\ cache[t].expired /\ cache'[t] = NoEntry)
  BY <1>2
<1>6. TypeOK'
  <2>1. cache' \in [Tokens -> Entries \cup {NoEntry}]
    BY <1>1, <1>2 DEF TypeOK
  <2> QED BY <1>1, <1>2, <1>3, <1>4, <2>1 DEF TypeOK
<1>7. AcksInv'
  BY <1>2, <1>3, <1>5 DEF SemtechInv, AcksInv, AcksFit
<1>8. EntryInv'
  BY <1>2, <1>5, TokenKept DEF SemtechInv, EntryInv
<1>9. \A f \in Frames : Entry(f)' = Entry(f)
                        \/ (Entry(f) # NoEntry /\ Expired(f) /\ Entry(f)' = NoEntry)
  <2> SUFFICES ASSUME NEW f \in Frames, Entry(f)' # Entry(f)
               PROVE  Entry(f) # NoEntry /\ Expired(f) /\ Entry(f)' = NoEntry
    OBVIOUS
  <2>1. Entry(f) # NoEntry /\ Entry(f).expired /\ Entry(f)' = NoEntry
    BY <1>5, TokenType, TokenKept DEF Entry
  <2> QED BY <1>1, <2>1, EntryOf DEF SemtechInv, Expired
<1>10. /\ \A f, i : Prompted(f, i)' <=> Prompted(f, i)
       /\ \A f : Expired(f)' <=> Expired(f)
  BY <1>2, TokenKept DEF Prompted, Expired
<1>11. CallInv'
  <2>1. ASSUME call["lns"] # NoCall PROVE LnsCallOK(call["lns"])'
    <3>1. PICK l \in Calls : call["lns"] = l
      BY <1>1, <2>1, CallShape DEF Callers
    <3>2. l.frame \in Frames /\ LnsCallOK(l)
      BY <2>1, <3>1 DEF Calls, SemtechInv, CallInv
    <3>3. l.pc = "cache" => Unseen(l.frame)'
      BY <1>2, <1>3, <1>9, <3>2 DEF LnsCallOK, Unseen
    <3>4. LnsCallOK(l)'
      BY <1>2, <1>9, <1>10, <3>2, <3>3, TokenKept DEF LnsCallOK
    <3> QED BY <1>2, <3>1, <3>4 DEF LnsCallOK
  <2> QED BY <1>2, <2>1 DEF SemtechInv, CallInv
<1>12. NetInv' /\ LoopInv'
  BY <1>2, <1>3, <1>4 DEF SemtechInv, NetInv, LoopInv, AckOK
<1>13. SentInv'
  <2>1. \A m \in history.sent : m.frame \in Frames
    BY <1>1, HistoryShape DEF Item
  <2> QED BY <1>2, <1>9, <1>10, <2>1 DEF SemtechInv, SentInv, CachedFrom
<1>14. ErrorInv'
  BY <1>2, TokenKept DEF SemtechInv, ErrorInv
<1> QED BY <1>6, <1>7, <1>8, <1>11, <1>12, <1>13, <1>14 DEF SemtechInv

\* A TX_ACK finds the entry under its token, no later item of whose frame was sent.
LEMMA LookUpKeeps ==
    ASSUME SemtechInv, LookUp
    PROVE  SemtechInv'
<1>1. TypeOK /\ loop.pc = "look" /\ loop.ack \in Ack
  BY LoopShape DEF SemtechInv, LookUp
<1>2. UNCHANGED <<boot, gatewayId, pullAddr, cache, call, pulls, given, resps, txAcks, history>>
  BY DEF LookUp, net
<1>3. call["udp"] = NoCall
  BY <1>1 DEF SemtechInv, CallInv, UdpCallOK
<1>4. \/ loop' = Receiving
      \/ /\ Found # NoEntry /\ Found \in Entries
         /\ loop' = [pc |-> "found", ack |-> loop.ack, entry |-> Found]
  <2>1. Token(loop.ack.item.frame) \in Tokens
    BY <1>1, TokenType DEF Ack, Item
  <2> QED BY <1>1, <2>1, EntryShape DEF LookUp, Found
<1>5. TypeOK'
  <2>1. loop' \in Loops
    BY <1>1, <1>4 DEF Loops
  <2> QED BY <1>1, <1>2, <2>1 DEF TypeOK
<1>6. /\ loop'.pc \in {"recv", "found"}
      /\ loop'.pc = "found" => /\ loop'.ack = loop.ack /\ loop'.entry = Found /\ Found # NoEntry
  BY <1>4 DEF Receiving
<1>7. Found = Entry(loop.ack.item.frame)
  BY DEF Found, Entry
<1>8. loop.ack.item \in history.sent /\ loop.ack.item.frame \in Frames
  BY <1>1 DEF SemtechInv, LoopInv, AckOK, Ack, Item
<1>9. Found # NoEntry => /\ Token(Found.frame) = Token(loop.ack.item.frame)
                         /\ Found.frame \in given /\ Found.frame \in Frames /\ AcksFit(Found)
  BY <1>1, <1>7, <1>8, EntryOf, TokenType DEF SemtechInv, AcksInv, Entry, Entries
<1>10. AcksInv' /\ EntryInv' /\ NetInv' /\ SentInv' /\ ErrorInv'
  <2>1. AcksInv'
    BY <1>2, <1>6, <1>9 DEF SemtechInv, AcksInv, AcksFit
  <2> QED BY <1>2, <2>1, CallsKept, TokenKept
             DEF SemtechInv, EntryInv, NetInv, ErrorInv, AckOK
<1>11. CallInv'
  <2>1. ASSUME call["lns"] # NoCall PROVE LnsCallOK(call["lns"])'
    <3>1. PICK l : call["lns"] = l
      OBVIOUS
    <3>2. LnsCallOK(l)
      BY <2>1, <3>1 DEF SemtechInv, CallInv
    <3>3. ASSUME Unseen(l.frame), Found # NoEntry PROVE Found.frame # l.frame
      BY <1>7, <1>9, <3>3 DEF Unseen, Entry
    <3>4. l.pc = "cache" => Unseen(l.frame)'
      BY <1>2, <1>3, <1>6, <3>2, <3>3, UnseenKept DEF LnsCallOK
    <3>5. LnsCallOK(l)'
      BY <1>2, <3>2, <3>4, CallsKept
    <3> QED BY <1>2, <3>1, <3>5 DEF LnsCallOK
  <2> QED BY <1>2, <1>3, <2>1 DEF SemtechInv, CallInv
<1>12. LoopInv'
  <2>1. ASSUME Found # NoEntry, NEW m \in history.sent, m.frame = Found.frame
        PROVE  m.index <= Found.index
    <3>1. Entry(m.frame) = Found
      BY <1>7, <1>9, <2>1 DEF Entry
    <3>2. m.index \in Nat /\ Found.index \in Nat
      BY <1>1, <1>7, <1>8, <2>1, EntryOf, HistoryShape DEF SemtechInv, Entries, Item
    <3> QED BY <2>1, <3>1, <3>2 DEF SemtechInv, SentInv, CachedFrom
  <2> QED BY <1>1, <1>2, <1>6, <1>9, <2>1, TokenKept DEF SemtechInv, LoopInv, AckOK
<1> QED BY <1>5, <1>10, <1>11, <1>12 DEF SemtechInv

\* The frame is done with.
LEMMA FinishKeeps ==
    ASSUME SemtechInv, Finish
    PROVE  SemtechInv'
<1>1. /\ loop' = Receiving /\ loop'.pc = "recv"
      /\ UNCHANGED <<boot, gatewayId, pullAddr, cache, call, pulls, given, resps, txAcks, history>>
  BY DEF Finish, net, Receiving
<1>2. TypeOK'
  BY <1>1 DEF SemtechInv, TypeOK, Loops
<1>3. AcksInv' /\ EntryInv' /\ NetInv' /\ LoopInv' /\ SentInv' /\ ErrorInv'
  BY <1>1, CallsKept, TokenKept
     DEF SemtechInv, AcksInv, EntryInv, NetInv, LoopInv, ErrorInv, AckOK
<1>4. CallInv'
  BY <1>1, CallsKept, UnseenKept DEF SemtechInv, CallInv, LnsCallOK, UdpCallOK, Unseen
<1> QED BY <1>2, <1>3, <1>4 DEF SemtechInv

\* With two items at most it is the first one that was rejected, and the second is new.
LEMMA TryNextKeeps ==
    ASSUME SemtechInv, TwoItems, TryNext
    PROVE  SemtechInv'
<1>1. TypeOK /\ loop.pc = "found"
  BY DEF SemtechInv, TryNext
<1>2. PICK e \in Entries, a \in Ack : loop.entry = e /\ loop.ack = a
  BY <1>1, LoopShape
<1> DEFINE new == [pc |-> "cache", frame |-> e.frame, index |-> e.index + 1,
                   acks |-> [e.acks EXCEPT ![e.index] = a.status]]
<1>3. /\ ~Finished(a, e) /\ call' = [call EXCEPT !["udp"] = new]
      /\ loop' = Receiving /\ loop'.pc = "recv"
      /\ UNCHANGED <<boot, gatewayId, pullAddr, cache, pulls, given, resps, txAcks, history>>
  BY <1>2 DEF TryNext, NextIndex, net, Receiving
<1>4. e.frame \in Frames /\ e.index \in Nat /\ e.acks \in [0..(NumItems[e.frame] - 1) -> Status]
  BY <1>1, <1>2 DEF SemtechInv, AcksInv, AcksFit, Entries
<1>5. NumItems[e.frame] \in Nat /\ NumItems[e.frame] <= 2
  BY <1>4, SemtechAssumption DEF TwoItems
<1>6. Cardinality(0..(NumItems[e.frame] - 1)) = NumItems[e.frame]
  <2>1. ASSUME NEW k \in Nat PROVE Cardinality(0..(k - 1)) = k
    <3>1. 0 \in Int /\ k - 1 \in Int
      OBVIOUS
    <3>2. Cardinality(0..(k - 1)) = IF 0 > k - 1 THEN 0 ELSE (k - 1) - 0 + 1
      BY ONLY <3>1, FS_Interval, Zenon
    <3> QED BY <3>2
  <2> QED BY <1>5, <2>1
<1>7. a.status = "failed" /\ e.index = 0
  BY <1>3, <1>4, <1>5, <1>6 DEF Finished, Ack
<1>8. /\ a.item \in history.rejected /\ a.item.frame \in Frames
      /\ Token(e.frame) = Token(a.item.frame) /\ e.frame \in given
      /\ \A m \in history.sent : m.frame = e.frame => m.index <= 0
  BY <1>1, <1>2, <1>7 DEF SemtechInv, LoopInv, AckOK, Ack, Item
<1>9. Prompted(e.frame, 1)
  <2>1. ASSUME e.frame \in OwnToken PROVE a.item = [frame |-> e.frame, index |-> 0]
    <3>1. a.item.frame = e.frame /\ a.item \in Item
      BY <1>8, <2>1 DEF OwnToken, Ack
    <3>2. a.item \in history.sent
      BY <1>8 DEF SemtechInv, NetInv
    <3>3. a.item.index = 0
      BY <1>8, <3>1, <3>2 DEF Item
    <3> QED BY <3>1, <3>3 DEF Item
  <2> QED BY <1>8, <2>1 DEF Prompted
<1>11. /\ new.pc = "cache" /\ new.frame = e.frame /\ new.index = 1
       /\ new.acks \in [0..(NumItems[e.frame] - 1) -> Status]
  <2>1. a.status \in Status
    BY <1>7 DEF Status
  <2>2. [e.acks EXCEPT ![e.index] = a.status] \in [0..(NumItems[e.frame] - 1) -> Status]
    BY <1>4, <2>1, Zenon
  <2> QED BY <1>4, <1>7, <2>2
<1>12. new \in Calls
  BY <1>4, <1>11 DEF Calls, AckLists
<1> HIDE DEF new
<1>13. call'["udp"] = new /\ call'["lns"] = call["lns"]
       /\ call' \in [Callers -> Calls \cup {NoCall}]
  BY <1>1, <1>3, <1>12 DEF TypeOK, Callers
<1>14. TypeOK'
  BY <1>1, <1>3, <1>13 DEF TypeOK, Loops
<1>15. AcksInv' /\ EntryInv' /\ NetInv' /\ LoopInv' /\ SentInv' /\ ErrorInv'
  <2>1. AcksInv'
    BY <1>3, <1>11, <1>13 DEF SemtechInv, AcksInv, AcksFit, Callers
  <2> QED BY <1>3, <1>13, <2>1, CallsKept, TokenKept
             DEF SemtechInv, EntryInv, NetInv, LoopInv, ErrorInv, AckOK
<1>16. CallInv'
  <2>1. UdpCallOK(new)'
    <3>1. Prompted(e.frame, 1)'
      BY <1>3, <1>9, Monotone
    <3>2. \A m \in history.sent : m.frame = e.frame => m.index < 1
      BY <1>1, <1>8, HistoryShape DEF Item
    <3> QED BY <1>3, <1>11, <3>1, <3>2 DEF UdpCallOK
  <2>2. ASSUME call["lns"] # NoCall PROVE LnsCallOK(call["lns"])'
    <3>1. PICK l : call["lns"] = l
      OBVIOUS
    <3>2. LnsCallOK(l)
      BY <2>2, <3>1 DEF SemtechInv, CallInv
    <3>3. Unseen(l.frame) => e.frame # l.frame
      BY <1>1, <1>2 DEF Unseen
    <3>4. l.pc = "cache" => Unseen(l.frame)'
      BY <1>3, <1>11, <1>13, <3>2, <3>3, UnseenKept DEF LnsCallOK
    <3>5. LnsCallOK(l)'
      BY <1>3, <3>2, <3>4, CallsKept
    <3> QED BY <1>13, <3>1, <3>5 DEF LnsCallOK
  <2>3. [frame |-> e.frame, index |-> 1] \notin history.sent
    BY <1>8
  <2> QED BY <1>3, <1>8, <1>11, <1>13, <2>1, <2>2, <2>3 DEF SemtechInv, CallInv, Callers
<1> QED BY <1>14, <1>15, <1>16 DEF SemtechInv

\* An entry that expires stays until the next TX_ACK.
LEMMA ExpireKeeps ==
    ASSUME SemtechInv, NEW t \in Tokens, Expire(t)
    PROVE  SemtechInv'
<1>1. TypeOK
  BY DEF SemtechInv
<1>2. PICK old \in Entries : cache[t] = old /\ old # NoEntry
  BY <1>1, EntryShape DEF Expire
<1> DEFINE new == [old EXCEPT !.expired = TRUE]
<1>3. /\ cache' = [cache EXCEPT ![t] = new]
      /\ history' = [history EXCEPT !.expired = @ \cup {old.frame}]
      /\ UNCHANGED <<boot, gatewayId, pullAddr, call, loop, pulls, given, resps, txAcks>>
  BY <1>1, <1>2 DEF Expire, net, TypeOK
<1>4. /\ new.frame = old.frame /\ new.index = old.index /\ new.acks = old.acks
      /\ new \in Entries
  BY DEF Entries
<1>5. new # NoEntry
  BY <1>1, <1>4, EntryShape
<1> HIDE DEF new
<1>6. /\ cache' \in [Tokens -> Entries \cup {NoEntry}] /\ cache'[t] = new
      /\ \A u \in Tokens : u # t => cache'[u] = cache[u]
  BY <1>1, <1>3, <1>4 DEF TypeOK
<1>7. /\ history'.sent = history.sent /\ history'.rejected = history.rejected
      /\ history'.air = history.air /\ history'.errors = history.errors
      /\ history'.expired = history.expired \cup {old.frame}
      /\ history' \in Histories
  BY <1>1, <1>3 DEF TypeOK, Histories, Entries
<1>8. \A f \in Frames : /\ Entry(f)' = NoEntry <=> Entry(f) = NoEntry
                        /\ Entry(f)'.frame = Entry(f).frame
                        /\ Entry(f)'.index = Entry(f).index
  BY <1>2, <1>4, <1>5, <1>6, TokenType, TokenKept DEF Entry
<1>9. /\ \A f \in Frames : \A i : CachedFrom(f, i)' <=> CachedFrom(f, i)
      /\ \A f : Expired(f) => Expired(f)'
      /\ \A f, i : Prompted(f, i) => Prompted(f, i)'
  BY <1>7, <1>8, Monotone DEF CachedFrom
<1>10. TypeOK'
  BY <1>1, <1>3, <1>6, <1>7 DEF TypeOK
<1>11. AcksInv'
  BY <1>2, <1>3, <1>4, <1>6 DEF SemtechInv, AcksInv, AcksFit
<1>12. EntryInv'
  <2>1. Token(old.frame) = t /\ old.frame \in given
    BY <1>2 DEF SemtechInv, EntryInv
  <2> QED BY <1>2, <1>3, <1>4, <1>6, <1>7, <2>1, TokenKept DEF SemtechInv, EntryInv
<1>13. CallInv'
  <2>1. ASSUME call["lns"] # NoCall PROVE LnsCallOK(call["lns"])'
    <3>1. PICK l \in Calls : call["lns"] = l
      BY <1>1, <2>1, CallShape DEF Callers
    <3>2. l.frame \in Frames /\ LnsCallOK(l)
      BY <2>1, <3>1 DEF Calls, SemtechInv, CallInv
    <3>3. l.pc = "cache" => Unseen(l.frame)'
      BY <1>3, <1>7, <1>8, <3>2 DEF LnsCallOK, Unseen
    <3>4. LnsCallOK(l)'
      BY <1>7, <1>8, <1>9, <3>2, <3>3, TokenKept DEF LnsCallOK
    <3> QED BY <1>3, <3>1, <3>4 DEF LnsCallOK
  <2>2. ASSUME call["udp"] # NoCall PROVE UdpCallOK(call["udp"])'
    <3>1. PICK u \in Calls : call["udp"] = u
      BY <1>1, <2>2, CallShape DEF Callers
    <3>2. u.frame \in Frames /\ UdpCallOK(u)
      BY <2>2, <3>1 DEF Calls, SemtechInv, CallInv
    <3>3. UdpCallOK(u)'
      BY <1>3, <1>7, <1>9, <3>2 DEF UdpCallOK
    <3> QED BY <1>3, <3>1, <3>3 DEF UdpCallOK
  <2> QED BY <1>3, <1>7, <2>1, <2>2 DEF SemtechInv, CallInv
<1>14. NetInv' /\ ErrorInv' /\ LoopInv'
  BY <1>3, <1>7, TokenKept DEF SemtechInv, NetInv, ErrorInv, LoopInv, AckOK
<1>15. SentInv'
  <2> SUFFICES ASSUME NEW m \in history.sent
               PROVE  /\ m.frame \in given /\ m.index < NumItems[m.frame]
                      /\ m.index > 0 => Prompted(m.frame, m.index)'
                      /\ CachedFrom(m.frame, m.index)'
                            \/ (Entry(m.frame)' = NoEntry /\ Expired(m.frame)')
    BY <1>3, <1>7 DEF SentInv
  <2>1. m.frame \in Frames
    BY <1>1, HistoryShape DEF Item
  <2> QED BY <1>8, <1>9, <2>1 DEF SemtechInv, SentInv
<1> QED BY <1>10, <1>11, <1>12, <1>13, <1>14, <1>15 DEF SemtechInv

\* The forwarder deals with one PULL_RESP, and acknowledges that it did.
LEMMA RadioKeeps ==
    ASSUME SemtechInv, NEW r \in resps, NEW n \in 0..MaxCopies, Transmit(r, n) \/ Reject(r, n)
    PROVE  SemtechInv'
<1>1. TypeOK /\ r \in Resp
  BY DEF SemtechInv, TypeOK
<1>2. /\ resps' = resps \ {r}
      /\ UNCHANGED <<boot, gatewayId, pullAddr, cache, call, loop, pulls, given>>
  BY DEF Transmit, Reject
<1>3. /\ history'.sent = history.sent /\ history'.errors = history.errors
      /\ history'.expired = history.expired /\ history' \in Histories
      /\ \/ history'.air = history.air \cup {r} /\ history'.rejected = history.rejected
         \/ history'.air = history.air /\ history'.rejected = history.rejected \cup {r.item}
      /\ \A a \in txAcks' : a \in txAcks \/ (a \in Ack /\ a.item = r.item /\
            (a.status = "failed" => history'.rejected = history.rejected \cup {r.item}))
  <2>1. \A status \in {"ok", "failed"} : \A a \in Acks(r, status, n) :
            a \in Ack /\ a.item = r.item /\ a.status = status
    <3>1. n \in Nat
      BY SemtechAssumption
    <3> QED BY <1>1, <3>1 DEF Acks, Ack, Resp
  <2>2. CASE Transmit(r, n)
    <3>1. history' = [history EXCEPT !.air = @ \cup {r}]
          /\ txAcks' = txAcks \cup Acks(r, "ok", n)
      BY <2>2 DEF Transmit
    <3>2. /\ history'.sent = history.sent /\ history'.errors = history.errors
          /\ history'.expired = history.expired /\ history' \in Histories
          /\ history'.air = history.air \cup {r} /\ history'.rejected = history.rejected
      BY <1>1, <3>1 DEF TypeOK, Histories
    <3> QED BY <2>1, <3>1, <3>2
  <2>3. CASE Reject(r, n)
    <3>1. history' = [history EXCEPT !.rejected = @ \cup {r.item}]
          /\ txAcks' = txAcks \cup Acks(r, "failed", n)
      BY <2>3 DEF Reject
    <3>2. /\ history'.sent = history.sent /\ history'.errors = history.errors
          /\ history'.expired = history.expired /\ history' \in Histories
          /\ history'.air = history.air /\ history'.rejected = history.rejected \cup {r.item}
      BY <1>1, <3>1 DEF TypeOK, Histories, Resp
    <3> QED BY <2>1, <3>1, <3>2
  <2> QED BY <2>2, <2>3
<1>4. TypeOK'
  <2>1. txAcks' \subseteq Ack
    BY <1>1, <1>3 DEF TypeOK
  <2> QED BY <1>1, <1>2, <1>3, <2>1 DEF TypeOK
<1>5. AcksInv' /\ EntryInv' /\ ErrorInv'
  BY <1>2, <1>3, TokenKept DEF SemtechInv, AcksInv, EntryInv, ErrorInv
<1>6. history.rejected \subseteq history'.rejected
  BY <1>3
<1>7. CallInv' /\ LoopInv' /\ SentInv'
  <2>1. /\ call["lns"] # NoCall => LnsCallOK(call["lns"])'
        /\ call["udp"] # NoCall => UdpCallOK(call["udp"])'
    BY <1>2, <1>3, <1>6, CallsKept, UnseenKept
       DEF SemtechInv, CallInv, LnsCallOK, UdpCallOK, Unseen
  <2>2. LoopInv' /\ SentInv'
    BY <1>2, <1>3, <1>6, CallsKept, TokenKept DEF SemtechInv, LoopInv, AckOK
  <2> QED BY <1>2, <1>3, <2>1, <2>2 DEF SemtechInv, CallInv
<1>8. NetInv'
  <2>1. r.item \in history.sent \ history.rejected /\ r \notin history.air
    BY DEF SemtechInv, NetInv
  <2>2. \A s \in resps \cup history.air : s.item = r.item => s = r
    BY DEF SemtechInv, NetInv
  <2>3. \A a \in txAcks' : AckOK(a)'
    BY <1>3, <1>6, <2>1 DEF SemtechInv, NetInv, AckOK
  <2> QED BY <1>2, <1>3, <2>1, <2>2, <2>3 DEF SemtechInv, NetInv
<1> QED BY <1>4, <1>5, <1>7, <1>8 DEF SemtechInv

\* Nothing happens.
LEMMA StutterKeeps ==
    ASSUME SemtechInv, UNCHANGED vars
    PROVE  SemtechInv'
<1>1. UNCHANGED <<boot, gatewayId, pullAddr, cache, call, loop, pulls, given, resps, txAcks, history>>
  BY DEF vars
<1>2. TypeOK' /\ AcksInv' /\ EntryInv' /\ NetInv' /\ ErrorInv'
  BY <1>1, TokenKept DEF SemtechInv, TypeOK, AcksInv, EntryInv, NetInv, ErrorInv, AckOK
<1>3. CallInv' /\ LoopInv' /\ SentInv'
  BY <1>1, CallsKept, UnseenKept, TokenKept
     DEF SemtechInv, CallInv, LnsCallOK, UdpCallOK, LoopInv, AckOK, Unseen
<1> QED BY <1>2, <1>3 DEF SemtechInv

\* SemtechInv is inductive.
LEMMA Inductive ==
    ASSUME SemtechInv, TwoItems, [Next]_vars
    PROVE  SemtechInv'
<1>1. CASE Boot
  BY <1>1, BootKeeps
<1>2. ASSUME NEW f \in Frames, LnsDownlink(f) PROVE SemtechInv'
  BY <1>2, DownlinkKeeps
<1>3. ASSUME NEW c \in Callers, SendStep(c) PROVE SemtechInv'
  BY <1>3, SetCacheKeeps, SendKeeps, SendFailsKeeps DEF SendStep
<1>4. CASE LnsStep
  BY <1>2, <1>3, <1>4 DEF LnsStep, Callers
<1>5. CASE UdpStep
  BY <1>3, <1>5, PullKeeps, CleanKeeps, LookUpKeeps, FinishKeeps, TryNextKeeps
     DEF UdpStep, Callers
<1>6. CASE Environment
  BY <1>6, ExpireKeeps, RadioKeeps DEF Environment
<1>7. CASE UNCHANGED vars
  BY <1>7, StutterKeeps
<1> QED BY <1>1, <1>4, <1>5, <1>6, <1>7 DEF Next

-----------------------------------------------------------------------------
(* The theorems                                                            *)

\* The type invariant, and what ties the cache, the calls and the network together.
THEOREM Invariant ==
    ASSUME TwoItems
    PROVE  Spec => []SemtechInv
<1>1. SemtechInv /\ [Next]_vars => SemtechInv'
  BY Inductive
<1> QED BY <1>1, Initially, PTL DEF Spec

\* Whatever is on the network finds an entry of its token in the cache until that expires,
\* which is its frame's own if no other frame has the token.
THEOREM InFlightIsCachedAlways ==
    ASSUME TwoItems
    PROVE  Spec => []InFlightIsCached
<1>1. SemtechInv => InFlightIsCached
  <2> SUFFICES ASSUME SemtechInv, NEW m \in resps \cup txAcks, ~Expired(m.item.frame)
               PROVE  /\ CachedFrom(m.item.frame, m.item.index)
                      /\ m.item.frame \in OwnToken => Entry(m.item.frame).frame = m.item.frame
    BY DEF InFlightIsCached
  <2>1. m.item \in history.sent
    BY DEF SemtechInv, NetInv, AckOK
  <2>2. m.item.frame \in Frames
    BY <2>1, HistoryShape DEF SemtechInv, Item
  <2>3. CachedFrom(m.item.frame, m.item.index)
    BY <2>1 DEF SemtechInv, SentInv
  <2> QED BY <2>2, <2>3, EntryOf DEF SemtechInv, CachedFrom
<1> QED BY <1>1, Invariant, PTL

-----------------------------------------------------------------------------
(* No item is sent twice                                                   *)

\* The items that were sent are as many as the times one was.
CountInv ==
    IsFiniteSet(history.sent) /\ Cardinality(history.sent) = history.sends

\* An item that is sent is new among those that were.
LEMMA CountKept ==
    ASSUME SemtechInv, CountInv, [Next]_vars
    PROVE  CountInv'
<1>1. TypeOK
  BY DEF SemtechInv
<1>2. ASSUME NEW c \in Callers, SendPullResp(c) PROVE CountInv'
  <2>1. PICK old \in Calls : call[c] = old /\ old # NoCall
    BY <1>1, <1>2, CallShape DEF SendPullResp, NoCall
  <2> DEFINE item == [frame |-> old.frame, index |-> old.index]
  <2>2. item \notin history.sent
    BY <2>1 DEF SemtechInv, CallInv
  <2>3. history'.sent = history.sent \cup {item} /\ history'.sends = history.sends + 1
    BY <1>1, <1>2, <2>1 DEF SendPullResp, TypeOK, Histories
  <2> HIDE DEF item
  <2>4. IsFiniteSet(history.sent \cup {item})
        /\ Cardinality(history.sent \cup {item}) = Cardinality(history.sent) + 1
    BY <2>2, FS_AddElement DEF CountInv
  <2> QED BY <2>3, <2>4 DEF CountInv
<1>3. ASSUME NEW c \in Callers, SetCache(c) \/ SendFails(c)
      PROVE  history'.sent = history.sent /\ history'.sends = history.sends
  BY <1>1, <1>3 DEF SetCache, SendFails, TypeOK, Histories, net
<1>4. ASSUME Boot \/ (\E f \in Frames : LnsDownlink(f)) \/ UNCHANGED vars
      PROVE  UNCHANGED history
  BY <1>4 DEF Boot, SeeGatewayId, LnsSetup, CupsSetup, LnsDownlink, vars
<1>5. ASSUME UdpStep, ~SendStep("udp") PROVE UNCHANGED history
  BY <1>5 DEF UdpStep, SetGatewayId, SetPullAddr, CleanCache, LookUp, Finish, TryNext
<1>6. ASSUME Environment PROVE history'.sent = history.sent /\ history'.sends = history.sends
  BY <1>1, <1>6 DEF Environment, Expire, Transmit, Reject, TypeOK, Histories
<1>7. ASSUME NEW c \in Callers, SendStep(c) PROVE CountInv'
  BY <1>2, <1>3, <1>7 DEF SendStep, CountInv
<1>8. CASE LnsStep
  BY <1>4, <1>7, <1>8 DEF LnsStep, Callers, CountInv
<1>9. CASE UdpStep
  BY <1>5, <1>7, <1>9 DEF Callers, CountInv
<1> QED BY <1>4, <1>6, <1>8, <1>9 DEF Next, CountInv

\* A second item follows the reject of the first, or of an item that shares its token, and
\* none is sent again, however often and late a TX_ACK comes.
THEOREM RetriesFollowRejectsAlways ==
    ASSUME TwoItems
    PROVE  Spec => []RetriesFollowRejects
<1>1. Init => CountInv
  BY FS_EmptySet DEF Init, CountInv
<1>2. SemtechInv /\ CountInv /\ [Next]_vars => CountInv'
  BY CountKept
<1>3. SemtechInv /\ CountInv => RetriesFollowRejects
  BY DEF SemtechInv, SentInv, CountInv, RetriesFollowRejects
<1> QED BY <1>1, <1>2, <1>3, Invariant, PTL DEF Spec

-----------------------------------------------------------------------------
(* One gateway                                                             *)

\* The ids the process has heard of: that of its configuration and those of PULL_DATA.
Known == ({ConfGatewayId} \cup {pulls[i] : i \in DOMAIN pulls}) \ {Unset}

\* The gateway id, and the ids that were taken from it, are known ones.
BootInv ==
    /\ boot \in [pc : {"wait", "lns", "cups", "run"}, lns : Ids, cups : Ids]
    /\ pulls \in Seq(GatewayIds) /\ gatewayId \in Ids
    /\ gatewayId = Unset \/ gatewayId \in Known
    /\ boot.pc \in {"lns", "cups", "run"} => gatewayId # Unset
    /\ boot.pc \in {"cups", "run"} => boot.lns \in Known
    /\ boot.pc = "run" => boot.cups \in Known

\* The id that is heard is known from then on.
LEMMA HeardIsKnown ==
    ASSUME pulls \in Seq(GatewayIds), NEW id \in GatewayIds, pulls' = Append(pulls, id)
    PROVE  id \in Known' /\ Known \subseteq Known'
<1>1. pulls \in Seq(GatewayIds) /\ id # Unset
  BY SemtechAssumption
<1>2. Len(pulls) \in Nat /\ DOMAIN pulls = 1..Len(pulls) /\ DOMAIN pulls' = 1..(Len(pulls) + 1)
  BY <1>1
<1>3. pulls'[Len(pulls) + 1] = id /\ \A i \in DOMAIN pulls : pulls'[i] = pulls[i]
  BY <1>1
<1>4. id \in {pulls'[i] : i \in DOMAIN pulls'}
  BY <1>2, <1>3
<1>5. \A i \in DOMAIN pulls : pulls[i] \in {pulls'[j] : j \in DOMAIN pulls'}
  BY <1>2, <1>3
<1> QED BY <1>1, <1>4, <1>5 DEF Known

\* Only the start of the process and PULL_DATA touch the ids.
LEMMA BootKept ==
    ASSUME BootInv, [Next]_vars
    PROVE  BootInv'
<1>1. ASSUME UNCHANGED <<boot, gatewayId, pulls>> PROVE BootInv'
  BY <1>1 DEF BootInv, Known
<1>2. CASE Boot
  <2>1. UNCHANGED <<gatewayId, pulls>>
    BY <1>2 DEF Boot, SeeGatewayId, LnsSetup, CupsSetup
  <2>2. CASE SeeGatewayId
    BY <2>1, <2>2 DEF SeeGatewayId, BootInv, Known, Ids
  <2>3. CASE LnsSetup
    BY <2>1, <2>3 DEF LnsSetup, BootInv, Known, Ids
  <2>4. CASE CupsSetup
    BY <2>1, <2>4 DEF CupsSetup, BootInv, Known, Ids
  <2> QED BY <1>2, <2>2, <2>3, <2>4 DEF Boot
<1>3. ASSUME NEW id \in GatewayIds, NEW addr \in Addrs, SetGatewayId(id, addr) PROVE BootInv'
  <2>1. gatewayId' = id /\ boot' = boot /\ pulls' = Append(pulls, id) /\ id # Unset
    BY <1>3, SemtechAssumption DEF SetGatewayId
  <2>2. pulls' \in Seq(GatewayIds)
    BY <2>1 DEF BootInv
  <2> QED BY <2>1, <2>2, HeardIsKnown DEF BootInv, Ids
<1>4. ASSUME NEW c \in Callers, SendStep(c) PROVE BootInv'
  BY <1>1, <1>4 DEF SendStep, SetCache, SendPullResp, SendFails
<1>5. CASE LnsStep
  BY <1>1, <1>4, <1>5 DEF LnsStep, LnsDownlink, Callers
<1>6. CASE UdpStep
  BY <1>1, <1>3, <1>4, <1>6
     DEF UdpStep, SetPullAddr, CleanCache, LookUp, Finish, TryNext, Callers
<1>7. CASE Environment
  BY <1>1, <1>7 DEF Environment, Expire, Transmit, Reject
<1>8. CASE UNCHANGED vars
  BY <1>1, <1>8 DEF vars
<1> QED BY <1>2, <1>5, <1>6, <1>7, <1>8 DEF Next

\* The ids that are known are finitely many.
LEMMA KnownFinite ==
    ASSUME pulls \in Seq(GatewayIds)
    PROVE  IsFiniteSet(Known)
<1>1. PICK n \in Nat : DOMAIN pulls = 1..n
  OBVIOUS
<1>2. IsFiniteSet(DOMAIN pulls)
  BY <1>1, FS_Interval
<1>3. PICK p : pulls = p /\ p = [i \in DOMAIN p |-> p[i]]
  BY <1>1
<1>4. IsFiniteSet({p[i] : i \in DOMAIN p})
  <2>1. p \in Surjection(DOMAIN p, {p[i] : i \in DOMAIN p})
    BY <1>3 DEF Surjection
  <2> QED BY <1>2, <1>3, <2>1, FS_Surjection
<1>5. IsFiniteSet({p[i] : i \in DOMAIN p} \cup {ConfGatewayId})
  BY <1>4, FS_AddElement
<1>6. Known \subseteq {p[i] : i \in DOMAIN p} \cup {ConfGatewayId}
  BY <1>3 DEF Known
<1> QED BY <1>5, <1>6, FS_Subset

\* The LNS and CUPS are told of one gateway, the configured one or the one that is
\* heard, unless several were; and of some gateway always.
THEOREM OneIdentityAlways == Spec => []OneIdentity
<1>1. Init => BootInv
  BY SemtechAssumption DEF Init, BootInv, Known, Ids
<1>2. BootInv /\ [Next]_vars => BootInv'
  BY BootKept
<1>3. BootInv => OneIdentity
  <2> SUFFICES ASSUME BootInv PROVE OneIdentity
    OBVIOUS
  <2>1. ASSUME boot.pc = "run", boot.lns # boot.cups PROVE Cardinality(Known) > 1
    <3>1. PICK x \in Known, y \in Known : x # y
      BY <2>1 DEF BootInv
    <3>2. IsFiniteSet(Known)
      BY KnownFinite DEF BootInv
    <3>3. IsFiniteSet({x, y}) /\ Cardinality({x, y}) = 2
      <4>1. IsFiniteSet({x}) /\ Cardinality({x}) = 1
        BY FS_Singleton
      <4>2. {x, y} = {x} \cup {y} /\ y \notin {x}
        BY <3>1
      <4>3. IsFiniteSet({x} \cup {y}) /\ Cardinality({x} \cup {y}) = Cardinality({x}) + 1
        BY <4>1, <4>2, FS_AddElement
      <4> QED BY <4>1, <4>2, <4>3
    <3>4. Cardinality({x, y}) <= Cardinality(Known) /\ Cardinality(Known) \in Nat
      BY <3>1, <3>2, FS_Subset, FS_CardinalityType
    <3> QED BY <3>3, <3>4
  <2> QED BY <2>1 DEF OneIdentity, BootInv, Known
<1> QED BY <1>1, <1>2, <1>3, PTL DEF Spec

-----------------------------------------------------------------------------
(* Implementation of DownlinkService                                       *)

\* The safety part of ServiceSpec.
ServiceSafety == Service!Init /\ [][Service!Next]_(Service!vars)

\* No frame has been given at first.
LEMMA ServiceInit == Init => Service!Init
<1> SUFFICES ASSUME Init PROVE Service!Init
  OBVIOUS
<1>1. Answers = [f \in Frames |-> "none"]
  BY DEF Init, Answers, Answer
<1>2. Handled = {}
  BY DEF Init, Handled, Air
<1>3. OnAir = [f \in Frames |-> 0]
  <2>1. \A f \in Frames : Air(f) = {}
    BY DEF Init, Air
  <2> QED BY <2>1, FS_EmptySet DEF OnAir
<1> QED BY <1>1, <1>2, <1>3 DEF Service!Init

\* What the service sees of the radio side is what was transmitted and rejected.
LEMMA RadioStutters ==
    ASSUME history'.air = history.air, history'.rejected = history.rejected
    PROVE  Handled' = Handled /\ OnAir' = OnAir
<1>1. \A f \in Frames : Air(f)' = Air(f)
  BY DEF Air
<1> QED BY <1>1 DEF Handled, OnAir

\* A step that touches neither the frame of the LNS task nor the radio side is a stutter.
LEMMA ServiceStutters ==
    ASSUME given' = given, history'.errors = history.errors,
           history'.air = history.air, history'.rejected = history.rejected,
           call'["lns"] = NoCall <=> call["lns"] = NoCall,
           call["lns"] # NoCall => call'["lns"].frame = call["lns"].frame
    PROVE  UNCHANGED Service!vars
<1>1. \A f \in Frames : Answer(f)' = Answer(f)
  BY DEF Answer
<1>2. Answers' = Answers
  BY <1>1 DEF Answers
<1> QED BY <1>2, RadioStutters DEF Service!vars

\* The frame the LNS task is at is pending and has no error yet; with a token of its own
\* it was not sent.
LEMMA Pending ==
    ASSUME SemtechInv, NEW f \in Frames, call["lns"] # NoCall, call["lns"].frame = f
    PROVE  /\ Answers[f] = "pending" /\ f \in given /\ f \notin history.errors
           /\ f \in OwnToken => OnAir[f] = 0
<1>1. f \in given /\ f \notin history.errors
  BY DEF SemtechInv, CallInv, ErrorInv, Callers
<1>2. ASSUME f \in OwnToken PROVE OnAir[f] = 0
  <2>1. \A m \in history.sent : m.frame # f
    BY <1>2 DEF SemtechInv, CallInv, LnsCallOK
  <2>2. Air(f) = {}
    BY <2>1 DEF SemtechInv, NetInv, Air
  <2> QED BY <2>2, FS_EmptySet DEF OnAir
<1> QED BY <1>1, <1>2 DEF Answers, Answer

\* The call of the LNS task returns.
LEMMA ServiceReturns ==
    ASSUME SemtechInv, SendPullResp("lns") \/ SendFails("lns")
    PROVE  \E f \in Frames : Service!Return(f)
<1>1. TypeOK /\ "lns" \in Callers
  BY DEF SemtechInv, Callers
<1>2. call["lns"] \in Calls /\ call["lns"] # NoCall
  BY <1>1, CallShape DEF SendPullResp, SendFails, NoCall
<1>3. PICK f \in Frames : call["lns"].frame = f
  BY <1>2 DEF Calls
<1>4. call'["lns"] = NoCall /\ given' = given
  BY <1>1 DEF SendPullResp, SendFails, TypeOK
<1>5. /\ history'.air = history.air /\ history'.rejected = history.rejected
      /\ \/ history'.errors = history.errors
         \/ history'.errors = history.errors \cup {f}
  BY <1>1, <1>3 DEF SendPullResp, SendFails, TypeOK, Histories
<1>6. /\ Answers[f] = "pending" /\ f \in given /\ f \notin history.errors
      /\ f \in OwnToken => OnAir[f] = 0
  BY <1>2, <1>3, Pending
<1>7. \A g \in Frames : g # f => Answer(g)' = Answer(g)
  BY <1>2, <1>3, <1>4, <1>5 DEF Answer
<1>8. Answer(f)' \in {"ok", "error"}
  BY <1>4, <1>6 DEF Answer
<1>9. Answers' = [Answers EXCEPT ![f] = Answer(f)']
  BY <1>7 DEF Answers
<1>10. Handled' = Handled /\ OnAir' = OnAir
  BY <1>5, RadioStutters
<1>11. Service!Return(f)
  BY <1>6, <1>8, <1>9, <1>10 DEF Service!Return
<1> QED BY <1>11

\* How often the service lets a frame be transmitted.
Most(f) == IF f \in OwnToken THEN 1 ELSE NumItems[f]

\* What the forwarder is sent is of a frame that was given, and may be transmitted: of one
\* with a token of its own the other item, if it was sent, was rejected; of another one
\* that other item may be on the air.
LEMMA Deliverable ==
    ASSUME SemtechInv, TwoItems, NEW r \in resps
    PROVE  /\ r.item.frame \in Frames /\ Service!Deliverable(r.item.frame)
           /\ IsFiniteSet(Air(r.item.frame))
           /\ Cardinality(Air(r.item.frame)) < Most(r.item.frame)
<1>1. TypeOK /\ r \in Resp
  BY DEF SemtechInv, TypeOK
<1>2. PICK f \in Frames, i \in Nat : r.item = [frame |-> f, index |-> i]
  BY <1>1 DEF Resp, Item
<1>3. r.item \in history.sent \ history.rejected
  BY DEF SemtechInv, NetInv
<1>4. f \in given /\ (f \in OwnToken => f \notin history.errors)
  BY <1>2, <1>3 DEF SemtechInv, SentInv, ErrorInv
<1>5. Service!Deliverable(f)
  BY <1>4 DEF Service!Deliverable, Answers, Answer
<1>6. i < NumItems[f] /\ NumItems[f] \in Nat /\ NumItems[f] <= 2
  BY <1>2, <1>3, SemtechAssumption DEF SemtechInv, SentInv, TwoItems
<1>7. ASSUME NEW s \in history.air, s.item.frame = f
      PROVE  /\ s.item = [frame |-> f, index |-> 1 - i] /\ NumItems[f] = 2
             /\ f \notin OwnToken
  <2>1. s \in Resp /\ s # r
    BY <1>1, HistoryShape DEF SemtechInv, NetInv
  <2>2. s.item \in history.sent \ history.rejected /\ s.item # r.item
    BY <2>1 DEF SemtechInv, NetInv
  <2>3. PICK j \in Nat : s.item = [frame |-> f, index |-> j]
    BY <1>7, <2>1 DEF Resp, Item
  <2>4. j < NumItems[f] /\ i # j
    BY <1>2, <2>2, <2>3 DEF SemtechInv, SentInv
  <2>5. j = 1 - i /\ NumItems[f] = 2
    BY <1>6, <2>4
  <2>6. /\ i > 0 => Prompted(f, i)
        /\ j > 0 => Prompted(f, j)
    BY <1>2, <1>3, <2>2, <2>3 DEF SemtechInv, SentInv
  <2>7. ASSUME f \in OwnToken PROVE FALSE
    <3>1. CASE i = 0
      BY <1>2, <1>3, <2>5, <2>6, <2>7, <3>1 DEF Prompted
    <3>2. CASE i = 1
      BY <2>2, <2>3, <2>5, <2>6, <2>7, <3>2 DEF Prompted
    <3> QED BY <1>6, <3>1, <3>2
  <2> QED BY <2>3, <2>5, <2>7
<1>8. CASE Air(f) = {}
  <2>1. IsFiniteSet(Air(f)) /\ Cardinality(Air(f)) = 0
    BY <1>8, FS_EmptySet
  <2> QED BY <1>2, <1>5, <1>6, <2>1 DEF Most
<1>9. ASSUME NEW s \in Air(f) PROVE IsFiniteSet(Air(f)) /\ Cardinality(Air(f)) < Most(f)
  <2>1. s \in history.air /\ s.item.frame = f
    BY <1>9 DEF Air
  <2>2. \A q \in Air(f) : q = s
    <3> SUFFICES ASSUME NEW q \in Air(f) PROVE q = s
      OBVIOUS
    <3>1. q \in history.air /\ q.item.frame = f
      BY DEF Air
    <3>2. q.item = s.item
      BY <1>7, <2>1, <3>1
    <3> QED BY <2>1, <3>1, <3>2 DEF SemtechInv, NetInv
  <2>3. Air(f) = {s}
    BY <1>9, <2>2
  <2>4. IsFiniteSet(Air(f)) /\ Cardinality(Air(f)) = 1
    BY <2>3, FS_Singleton
  <2> QED BY <1>7, <2>1, <2>4 DEF Most
<1> QED BY <1>2, <1>5, <1>8, <1>9

\* The radio side deals with a frame.
LEMMA ServiceRadio ==
    ASSUME SemtechInv, TwoItems, NEW r \in resps, NEW n \in 0..MaxCopies,
           Transmit(r, n) \/ Reject(r, n)
    PROVE  \E f \in Frames : Service!Transmit(f) \/ Service!Refuse(f)
<1>1. TypeOK
  BY DEF SemtechInv
<1>2. PICK f \in Frames : r.item.frame = f
  BY Deliverable
<1>3. Service!Deliverable(f) /\ IsFiniteSet(Air(f)) /\ Cardinality(Air(f)) < Most(f)
  BY <1>2, Deliverable
<1>4. given' = given /\ call' = call /\ history'.errors = history.errors
  BY <1>1 DEF Transmit, Reject, TypeOK, Histories
<1>5. Answers' = Answers
  BY <1>4 DEF Answers, Answer
<1>6. CASE Transmit(r, n)
  <2>1. history'.air = history.air \cup {r} /\ history'.rejected = history.rejected
    BY <1>1, <1>6 DEF Transmit, TypeOK, Histories
  <2>2. Air(f)' = Air(f) \cup {r} /\ \A g \in Frames : g # f => Air(g)' = Air(g)
    BY <1>2, <2>1 DEF Air
  <2>3. Cardinality(Air(f) \cup {r}) = Cardinality(Air(f)) + 1
    <3>1. r \notin Air(f)
      BY DEF SemtechInv, NetInv, Air
    <3> QED BY <1>3, <3>1, FS_AddElement
  <2>4. OnAir[f] < Most(f) /\ OnAir' = [OnAir EXCEPT ![f] = OnAir[f] + 1]
    <3>1. OnAir[f] = Cardinality(Air(f))
      BY DEF OnAir
    <3>2. OnAir'[f] = OnAir[f] + 1 /\ \A g \in Frames : g # f => OnAir'[g] = OnAir[g]
      BY <2>2, <2>3, <3>1 DEF OnAir
    <3>3. OnAir' = [OnAir EXCEPT ![f] = OnAir[f] + 1]
      BY <3>2 DEF OnAir
    <3> QED BY <1>3, <3>1, <3>3
  <2>5. Handled' = Handled \cup {f}
    BY <2>1, <2>2 DEF Handled
  <2>6. Service!Transmit(f)
    BY <1>3, <1>5, <2>4, <2>5 DEF Service!Transmit, Most
  <2> QED BY <2>6
<1>7. CASE Reject(r, n)
  <2>1. history'.air = history.air /\ history'.rejected = history.rejected \cup {r.item}
    BY <1>1, <1>7 DEF Reject, TypeOK, Histories
  <2>2. \A g \in Frames : Air(g)' = Air(g)
    BY <2>1 DEF Air
  <2>3. Handled' = Handled \cup {f} /\ OnAir' = OnAir
    BY <1>2, <2>1, <2>2 DEF Handled, OnAir
  <2>4. Service!Refuse(f)
    BY <1>3, <1>5, <2>3 DEF Service!Refuse
  <2> QED BY <2>4
<1> QED BY <1>6, <1>7

\* A frame is given.
LEMMA ServiceGives ==
    ASSUME SemtechInv, NEW f \in Frames, LnsDownlink(f)
    PROVE  Service!Give(f)
<1>1. TypeOK /\ "lns" \in Callers
  BY DEF SemtechInv, Callers
<1>2. call["lns"] = NoCall /\ f \notin given /\ given' = given \cup {f} /\ history' = history
  BY <1>1, CallShape DEF LnsDownlink, net
<1>3. call'["lns"] # NoCall /\ call'["lns"].frame = f
  BY <1>1 DEF LnsDownlink, TypeOK, NoCall
<1>4. Answer(f) = "none" /\ Answer(f)' = "pending"
  BY <1>2, <1>3 DEF Answer
<1>5. \A g \in Frames : g # f => Answer(g)' = Answer(g)
  BY <1>2, <1>3 DEF Answer
<1>6. Answers' = [Answers EXCEPT ![f] = "pending"]
  BY <1>4, <1>5 DEF Answers
<1> QED BY <1>2, <1>4, <1>6, RadioStutters DEF Service!Give, Answers

\* Every step of the backend is a step of the service, or none.
LEMMA ServiceStep ==
    ASSUME SemtechInv, TwoItems, [Next]_vars
    PROVE  [Service!Next]_(Service!vars)
<1>1. TypeOK
  BY DEF SemtechInv
<1>2. ASSUME given' = given, call' = call, history' = history PROVE UNCHANGED Service!vars
  BY <1>2, ServiceStutters
<1>3. ASSUME NEW c \in Callers, SetCache(c) PROVE UNCHANGED Service!vars
  <2>1. call["lns"] = NoCall \/ (call["lns"] \in Calls /\ NoCall \notin Calls)
    BY <1>1, CallShape DEF Callers
  <2>2. c = "lns" => call["lns"] # NoCall
    BY <1>3 DEF SetCache, NoCall
  <2>3. call'["lns"] = IF c = "lns" THEN [call["lns"] EXCEPT !.pc = "send"] ELSE call["lns"]
    BY <1>1, <1>3 DEF SetCache, TypeOK, Callers
  <2>4. c = "lns" => /\ call'["lns"].frame = call["lns"].frame
                     /\ call'["lns"] \in Calls
    BY <2>1, <2>2, <2>3 DEF Calls
  <2>5. given' = given /\ history' = history
    BY <1>3 DEF SetCache, net
  <2> QED BY <2>1, <2>2, <2>3, <2>4, <2>5, ServiceStutters
<1>4. ASSUME SendPullResp("udp") \/ SendFails("udp") PROVE UNCHANGED Service!vars
  <2>1. call'["lns"] = call["lns"] /\ given' = given
    BY <1>1, <1>4 DEF SendPullResp, SendFails, TypeOK, Callers, net
  <2>2. /\ history'.air = history.air /\ history'.rejected = history.rejected
        /\ history'.errors = history.errors
    BY <1>1, <1>4 DEF SendPullResp, SendFails, TypeOK, Histories
  <2> QED BY <2>1, <2>2, ServiceStutters
<1>5. CASE Boot \/ UNCHANGED vars
  BY <1>2, <1>5 DEF Boot, SeeGatewayId, LnsSetup, CupsSetup, vars
<1>6. CASE LnsStep
  <2>1. CASE SetCache("lns")
    BY <1>3, <2>1 DEF Callers
  <2>2. CASE SendPullResp("lns") \/ SendFails("lns")
    BY <2>2, ServiceReturns DEF Service!Next
  <2>3. CASE \E f \in Frames : LnsDownlink(f)
    BY <2>3, ServiceGives DEF Service!Next
  <2> QED BY <1>6, <2>1, <2>2, <2>3 DEF LnsStep, SendStep
<1>7. CASE SendStep("udp")
  BY <1>3, <1>4, <1>7 DEF SendStep, Callers
<1>8. CASE TryNext
  <2>1. call'["lns"] = call["lns"] /\ given' = given /\ history' = history
    BY <1>1, <1>8 DEF TryNext, TypeOK, Callers, net
  <2> QED BY <2>1, ServiceStutters
<1>9. CASE UdpStep
  BY <1>2, <1>7, <1>8, <1>9
     DEF UdpStep, SetGatewayId, SetPullAddr, CleanCache, LookUp, Finish, net
<1>10. ASSUME NEW t \in Tokens, Expire(t) PROVE UNCHANGED Service!vars
  <2>1. /\ history'.air = history.air /\ history'.rejected = history.rejected
        /\ history'.errors = history.errors
    BY <1>1, <1>10 DEF Expire, TypeOK, Histories
  <2>2. call' = call /\ given' = given
    BY <1>10 DEF Expire
  <2> QED BY <2>1, <2>2, ServiceStutters
<1>11. CASE Environment
  BY <1>10, <1>11, ServiceRadio DEF Environment, Service!Next
<1> QED BY <1>5, <1>6, <1>9, <1>11 DEF Next

\* The safety part of ServiceSpec: the backend answers at once, before anything is
\* known of the radio side, yet a frame with a token of its own is on the air once at
\* most, and never after an answer that was an error; and another one once in each of
\* its windows at most.
THEOREM ServiceCorrect ==
    ASSUME TwoItems
    PROVE  Spec => ServiceSafety
<1>1. Init => Service!Init
  BY ServiceInit
<1>2. SemtechInv /\ [Next]_vars => [Service!Next]_(Service!vars)
  BY ServiceStep
<1> QED BY <1>1, <1>2, Invariant, PTL DEF Spec, ServiceSafety

\* Every behaviour of the service keeps its promise.
LEMMA PromiseKept == ServiceSafety => []Service!Promise
<1>1. Service!Init => Service!Promise
  BY SemtechAssumption DEF Service!Init, Service!Promise
<1>2. Service!Promise /\ [Service!Next]_(Service!vars) => Service!Promise'
  <2> SUFFICES ASSUME Service!Promise, [Service!Next]_(Service!vars) PROVE Service!Promise'
    OBVIOUS
  <2>1. ASSUME NEW f \in Frames, Service!Give(f) PROVE Service!Promise'
    BY <2>1 DEF Service!Give, Service!Promise
  <2>2. ASSUME NEW f \in Frames, Service!Return(f) PROVE Service!Promise'
    BY <2>2 DEF Service!Return, Service!Promise
  <2>3. ASSUME NEW f \in Frames, Service!Transmit(f) PROVE Service!Promise'
    <3> DEFINE most == [g \in Frames |-> IF g \in OwnToken THEN 1 ELSE NumItems[g]]
    <3>1. \A g \in Frames : most[g] \in Nat
      BY SemtechAssumption
    <3>2. /\ Answers' = Answers /\ Handled' = Handled \cup {f} /\ Answers[f] # "none"
          /\ OnAir' = [OnAir EXCEPT ![f] = @ + 1] /\ OnAir[f] < most[f]
          /\ f \in OwnToken => Answers[f] # "error"
      BY <2>3 DEF Service!Transmit, Service!Deliverable
    <3> HIDE DEF most
    <3>3. OnAir' \in [Frames -> Nat] /\ \A g \in Frames : OnAir'[g] <= most[g]
      BY <3>1, <3>2 DEF Service!Promise, most
    <3> QED BY <3>2, <3>3, TokenKept DEF Service!Promise, most
  <2>4. ASSUME NEW f \in Frames, Service!Refuse(f) PROVE Service!Promise'
    BY <2>4 DEF Service!Refuse, Service!Promise
  <2>5. CASE UNCHANGED Service!vars
    BY <2>5 DEF Service!vars, Service!Promise
  <2> QED BY <2>1, <2>2, <2>3, <2>4, <2>5 DEF Service!Next
<1> QED BY <1>1, <1>2, PTL DEF ServiceSafety

\* A frame with a token of its own is on the air once at most, and never when the LNS task
\* got an error for it, and any frame once for each item at most, whatever becomes of the
\* TX_ACKs (send_downlink_frame, handle_tx_ack).
THEOREM PromiseCorrect ==
    ASSUME TwoItems
    PROVE  Spec => []Service!Promise
BY ServiceCorrect, PromiseKept, PTL
=============================================================================
