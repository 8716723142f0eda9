------------------------------- MODULE CupsProofs -------------------------------
(***************************************************************************)
(* Proofs about Cups, for every set of URIs, credentials and tokens and    *)
(* any number of faults and changes: CupsInv is inductive, and from it     *)
(* follow RestartRecovers and TcCredSentOnce.                              *)
(***************************************************************************)
EXTENDS Cups, TLAPS

USE CupsAssumption DEF Cut, Files, Creds

-----------------------------------------------------------------------------
(* What the operators of the update yield                                  *)

\* A record made by At has the fields it was given.
LEMMA AtFields ==
    ASSUME NEW step, NEW f, NEW parts
    PROVE  /\ At(step, f, parts).pc = step
           /\ At(step, f, parts).file = f
           /\ At(step, f, parts).parts = parts
  BY DEF At

\* A record made by At is one of update.
LEMMA AtType ==
    ASSUME NEW step \in Steps, NEW f \in Files \cup {None}, NEW parts \in Parts
    PROVE  At(step, f, parts) \in [pc : Steps, file : Files \cup {None}, parts : Parts]
  BY DEF At

\* NoParts has none of the parts.
LEMMA NoPartsType == NoParts \in Parts /\ \A f \in Files : NoParts[f] = None
  BY DEF NoParts, Parts

\* What a part of a response leads to: the first that is present from there on, or
\* the end of the update.
LEMMA ApplyTcIs ==
    ASSUME NEW parts \in Parts
    PROVE  \/ parts["tc.cred"] = None /\ ApplyTc(parts) = Check
           \/ parts["tc.cred"] # None /\ ApplyTc(parts) = At("open", "tc.cred", parts)
  BY DEF ApplyTc

\* Where the update goes after the TC credential, or without one.
LEMMA ApplyCupsIs ==
    ASSUME NEW parts \in Parts
    PROVE  \/ ApplyCups(parts) = Check
           \/ parts["tc.cred"] # None /\ ApplyCups(parts) = At("open", "tc.cred", parts)
           \/ parts["cups.cred"] # None /\ ApplyCups(parts) = At("open", "cups.cred", parts)
  BY ApplyTcIs DEF ApplyCups

\* Where it goes with a response.
LEMMA ApplyUriIs ==
    ASSUME NEW parts \in Parts
    PROVE  \/ ApplyUri(parts) = Check
           \/ parts["tc.cred"] # None /\ ApplyUri(parts) = At("open", "tc.cred", parts)
           \/ parts["cups.cred"] # None /\ ApplyUri(parts) = At("open", "cups.cred", parts)
           \/ parts["tc.uri"] # None /\ ApplyUri(parts) = At("setUri", None, parts)
  BY ApplyCupsIs DEF ApplyUri

\* Where it goes after a file is written or could not be.
LEMMA SavedIs ==
    ASSUME NEW f \in Files, NEW parts \in Parts
    PROVE  \/ f # "tc.cred" /\ Saved(f, parts) = Check
           \/ f # "tc.cred" /\ parts["tc.cred"] # None /\ Saved(f, parts) = At("open", "tc.cred", parts)
           \/ f = "tc.uri" /\ parts["cups.cred"] # None /\ Saved(f, parts) = At("open", "cups.cred", parts)
           \/ f = "tc.cred" /\ Saved(f, parts) = At("setHeaders", None, parts)
  BY ApplyTcIs, ApplyCupsIs DEF Saved

-----------------------------------------------------------------------------
(* The invariant holds at first                                            *)

\* The invariant holds at the first start, with no file saved.
LEMMA CupsInit == Init => CupsInv
<1> SUFFICES ASSUME Init PROVE CupsInv
  OBVIOUS
<1>1. /\ update.pc = "restoreUri" /\ update.file = None /\ update.parts = NoParts
      /\ update \in [pc : Steps, file : Files \cup {None}, parts : Parts]
  BY NoPartsType, AtFields, AtType DEF Init, Start, Steps
<1>2. TypeOK
  BY <1>1, NoPartsType DEF Init, TypeOK
<1>3. ResponseInv
  BY <1>1 DEF ResponseInv
<1>4. MemoryInv
  BY <1>1 DEF Init, MemoryInv, Replacing
<1>5. NewCredInv
  BY <1>1 DEF NewCredInv, Replacing
<1> QED BY <1>2, <1>3, <1>4, <1>5 DEF CupsInv

-----------------------------------------------------------------------------
(* The steps of setup and of run_update                                    *)

\* What an update restores, or reports, is as long as its file is.
LEMMA RestoredFollowsDisk ==
    ASSUME UNCHANGED disk
    PROVE  RestoredUri' = RestoredUri /\ RestoredToken' = RestoredToken
             /\ ReportedTcCred' = ReportedTcCred
  BY DEF RestoredUri, RestoredToken, ReportedTcCred

\* The URI is read from its file.
LEMMA RestoreUriKeeps == ASSUME CupsInv, RestoreUri PROVE CupsInv'
<1> USE DEF CupsInv
<1>1. /\ update'.pc = "restoreCred" /\ update'.parts = NoParts
      /\ update' \in [pc : Steps, file : Files \cup {None}, parts : Parts]
  BY NoPartsType, AtFields, AtType DEF RestoreUri, Steps
<1>2. RestoredUri \in Uris \cup {None, "garbage"}
  BY DEF RestoredUri, TypeOK
<1>3. TypeOK'
  BY <1>1, <1>2 DEF RestoreUri, TypeOK
<1>4. ResponseInv'
  BY <1>1 DEF ResponseInv
<1>5. MemoryInv'
  BY <1>1, RestoredFollowsDisk DEF RestoreUri, MemoryInv, Replacing
<1>6. NewCredInv'
  BY <1>1 DEF NewCredInv, Replacing
<1> QED BY <1>3, <1>4, <1>5, <1>6

\* The token is read from its file.
LEMMA RestoreCredKeeps == ASSUME CupsInv, RestoreCred PROVE CupsInv'
<1> USE DEF CupsInv
<1>1. /\ update'.pc = "check" /\ update'.parts = NoParts
      /\ update' \in [pc : Steps, file : Files \cup {None}, parts : Parts]
  BY NoPartsType, AtFields, AtType DEF RestoreCred, Check, Steps
<1>2. RestoredToken \in Tokens \cup {None, "garbage"}
  BY DEF RestoredToken
<1>3. TypeOK'
  BY <1>1, <1>2 DEF RestoreCred, TypeOK
<1>4. ResponseInv'
  BY <1>1 DEF ResponseInv
<1>5. headers' = RestoredToken' /\ tcUri' = tcUri /\ RestoredUri' = RestoredUri
  BY RestoredFollowsDisk DEF RestoreCred, MemoryInv
<1>6. MemoryInv'
  BY <1>1, <1>5 DEF RestoreCred, MemoryInv, Replacing, HeadersFit
<1>7. NewCredInv'
  BY <1>1 DEF NewCredInv, Replacing
<1> QED BY <1>3, <1>4, <1>6, <1>7

\* The CRCs of the files are sent.
LEMMA RequestKeeps == ASSUME CupsInv, Request PROVE CupsInv'
<1> USE DEF CupsInv
<1>1. Reported \in Parts /\ Reported["tc.cred"] = ReportedTcCred
  BY DEF Reported, ReportedTcCred, TypeOK, Parts
<1>2. /\ update'.pc = "post" /\ update'.parts = Reported
      /\ update' \in [pc : Steps, file : Files \cup {None}, parts : Parts]
  BY <1>1, AtFields, AtType DEF Request, Steps
<1>3. TypeOK'
  BY <1>2 DEF Request, TypeOK, memory
<1>4. ResponseInv'
  BY <1>2 DEF ResponseInv
<1>5. MemoryInv'
  BY <1>2, RestoredFollowsDisk DEF Request, memory, MemoryInv, Replacing, HeadersFit
<1>6. NewCredInv'
  BY <1>1, <1>2, RestoredFollowsDisk DEF Request, NewCredInv, Replacing
<1> QED BY <1>3, <1>4, <1>5, <1>6

\* A request that fails leaves everything as it was before it.
LEMMA RequestFailsKeeps == ASSUME CupsInv, RequestFails PROVE CupsInv'
<1> USE DEF CupsInv
<1>1. /\ update'.pc = "check" /\ update'.parts = NoParts
      /\ update' \in [pc : Steps, file : Files \cup {None}, parts : Parts]
  BY NoPartsType, AtFields, AtType DEF RequestFails, Check, Steps
<1>2. faults' \in 0..MaxFaults
  BY DEF RequestFails, Fault, TypeOK
<1>3. TypeOK'
  BY <1>1, <1>2 DEF RequestFails, TypeOK, memory
<1>4. ResponseInv'
  BY <1>1 DEF ResponseInv
<1>5. MemoryInv'
  BY <1>1, RestoredFollowsDisk DEF RequestFails, memory, MemoryInv, Replacing, HeadersFit
<1>6. NewCredInv'
  BY <1>1 DEF NewCredInv, Replacing
<1> QED BY <1>3, <1>4, <1>5, <1>6

\* The response has the parts that differ from what was reported.
LEMMA RespondKeeps == ASSUME CupsInv, Respond PROVE CupsInv'
<1> USE DEF CupsInv
<1> DEFINE parts == [f \in Files |->
                       IF server[f] = update.parts[f] THEN None ELSE server[f]]
<1>1. /\ parts \in Parts
      /\ parts["tc.uri"] \in Uris \cup {None}
      /\ parts["cups.cred"] \in CupsCreds \cup {None}
      /\ parts["tc.cred"] \in Creds \cup {None}
      /\ parts["tc.cred"] # disk["tc.cred"] \/ parts["tc.cred"] = None
  <2>1. update.parts["tc.cred"] = ReportedTcCred
    BY DEF Respond, NewCredInv
  <2>2. parts["tc.cred"] # disk["tc.cred"] \/ parts["tc.cred"] = None
    BY <2>1 DEF ReportedTcCred, TypeOK, Server
  <2>3. /\ server["tc.uri"] \in Uris /\ server["cups.cred"] \in CupsCreds
        /\ server["tc.cred"] \in Creds
    BY DEF TypeOK, Server
  <2> QED BY <2>2, <2>3 DEF Parts
<1>2. update' = ApplyUri(parts)
  BY DEF Respond
<1> HIDE DEF parts
<1>3. /\ \/ update'.pc = "check" /\ update'.parts = NoParts
         \/ /\ update'.pc = "setUri" /\ update'.parts = parts /\ parts["tc.uri"] # None
         \/ /\ update'.pc = "open" /\ update'.parts = parts
            /\ update'.file \in {"cups.cred", "tc.cred"}
            /\ parts[update'.file] # None
      /\ update' \in [pc : Steps, file : Files \cup {None}, parts : Parts]
  BY <1>1, <1>2, ApplyUriIs, NoPartsType, AtFields, AtType DEF Check, Steps
<1>4. TypeOK'
  BY <1>3 DEF Respond, TypeOK, memory
<1>5. ResponseInv'
  BY <1>1, <1>3 DEF ResponseInv
<1>6. MemoryInv'
  BY <1>3, RestoredFollowsDisk DEF Respond, memory, MemoryInv, Replacing, HeadersFit
<1>7. NewCredInv'
  BY <1>1, <1>3 DEF Respond, NewCredInv, Replacing
<1> QED BY <1>4, <1>5, <1>6, <1>7

\* The URI in memory goes ahead of its file.
LEMMA SetUriKeeps == ASSUME CupsInv, SetUri PROVE CupsInv'
<1> USE DEF CupsInv
<1>1. /\ update'.pc = "open" /\ update'.file = "tc.uri" /\ update'.parts = update.parts
      /\ update' \in [pc : Steps, file : Files \cup {None}, parts : Parts]
  BY AtFields, AtType DEF SetUri, SaveUri, Steps, TypeOK
<1>2. update.parts["tc.uri"] \in Uris
  BY DEF SetUri, ResponseInv
<1>3. TypeOK'
  BY <1>1, <1>2 DEF SetUri, TypeOK
<1>4. ResponseInv'
  BY <1>1, <1>2 DEF SetUri, ResponseInv
<1>5. MemoryInv'
  BY <1>1, RestoredFollowsDisk DEF SetUri, MemoryInv, Replacing, HeadersFit
<1>6. NewCredInv'
  BY <1>1 DEF SetUri, NewCredInv, Replacing
<1> QED BY <1>3, <1>4, <1>5, <1>6

\* The header in memory follows its file.
LEMMA SetHeadersKeeps == ASSUME CupsInv, SetHeaders PROVE CupsInv'
<1> USE DEF CupsInv
<1>1. /\ update'.pc = "check" /\ update'.parts = NoParts
      /\ update' \in [pc : Steps, file : Files \cup {None}, parts : Parts]
  BY NoPartsType, AtFields, AtType DEF SetHeaders, Check, Steps
<1>2. update.parts["tc.cred"] \in Creds
  BY DEF SetHeaders, ResponseInv
<1>3. TypeOK'
  BY <1>1 DEF SetHeaders, TypeOK
<1>4. ResponseInv'
  BY <1>1 DEF ResponseInv
<1>5. "tc.cred" \notin unsaved => HeadersFit'
  BY <1>2 DEF SetHeaders, MemoryInv, HeadersFit, RestoredToken, TypeOK
<1>6. MemoryInv'
  BY <1>1, <1>5, RestoredFollowsDisk DEF SetHeaders, MemoryInv, Replacing
<1>7. NewCredInv'
  BY <1>1 DEF NewCredInv, Replacing
<1> QED BY <1>3, <1>4, <1>6, <1>7

-----------------------------------------------------------------------------
(* The steps that touch a file                                             *)

\* What a torn file holds.
LEMMA CutsAre ==
    ASSUME NEW content, NEW c \in Cuts(content)
    PROVE  /\ c \in Cut
           /\ content \notin Certs \cup {"stub"} => c \in {"empty", "garbage"}
  BY DEF Cuts

\* Opening a file truncates it.
LEMMA OpenKeeps == ASSUME CupsInv, NEW f \in Files, Open(f) PROVE CupsInv'
<1> USE DEF CupsInv
<1>1. /\ update'.pc = "write" /\ update'.file = f /\ update'.parts = update.parts
      /\ update' \in [pc : Steps, file : Files \cup {None}, parts : Parts]
  BY AtFields, AtType DEF Open, Steps, TypeOK
<1>2. /\ disk' \in Parts /\ disk'[f] = "empty"
      /\ \A g \in Files \ {f} : disk'[g] = disk[g]
  BY DEF Open, TypeOK, Parts
<1>3. TypeOK'
  BY <1>1, <1>2 DEF Open, TypeOK, memory
<1>4. ResponseInv'
  BY <1>1 DEF Open, ResponseInv
<1>5. f # "tc.uri" => RestoredUri' = RestoredUri
  BY <1>2 DEF RestoredUri
<1>6. f # "tc.cred" => HeadersFit' = HeadersFit
  BY <1>2 DEF HeadersFit, RestoredToken, Open, memory
<1>7. MemoryInv'
  BY <1>1, <1>5, <1>6 DEF Open, memory, MemoryInv, Replacing
<1>8. NewCredInv'
  BY <1>1, <1>2 DEF Open, NewCredInv, Replacing
<1> QED BY <1>3, <1>4, <1>7, <1>8

\* Where an update goes from a file.
LEMMA SavedType ==
    ASSUME NEW f \in Files, NEW parts \in Parts, update' = Saved(f, parts)
    PROVE  /\ \/ f # "tc.cred" /\ update'.pc = "check" /\ update'.parts = NoParts
              \/ /\ f # "tc.cred" /\ update'.pc = "open" /\ update'.parts = parts
                 /\ update'.file \in Files \ {f, "tc.uri"}
                 /\ parts[update'.file] # None
              \/ f = "tc.cred" /\ update'.pc = "setHeaders" /\ update'.parts = parts
           /\ update' \in [pc : Steps, file : Files \cup {None}, parts : Parts]
  BY SavedIs, NoPartsType, AtFields, AtType DEF Check, Steps

\* A file that is saved holds its part, and counts as saved.
LEMMA WriteKeeps == ASSUME CupsInv, NEW f \in Files, Write(f) PROVE CupsInv'
<1> USE DEF CupsInv
<1>1. /\ \/ f # "tc.cred" /\ update'.pc = "check" /\ update'.parts = NoParts
         \/ /\ f # "tc.cred" /\ update'.pc = "open" /\ update'.parts = update.parts
            /\ update'.file \in Files \ {f, "tc.uri"}
            /\ update.parts[update'.file] # None
         \/ f = "tc.cred" /\ update'.pc = "setHeaders" /\ update'.parts = update.parts
      /\ update' \in [pc : Steps, file : Files \cup {None}, parts : Parts]
  BY SavedType DEF Write, TypeOK
<1>2. /\ disk' \in Parts /\ disk'[f] = update.parts[f]
      /\ \A g \in Files \ {f} : disk'[g] = disk[g]
  BY DEF Write, TypeOK, Parts
<1>3. /\ update.parts["tc.uri"] \in Uris \cup {None}
      /\ update.parts["cups.cred"] \in CupsCreds \cup {None}
      /\ update.parts["tc.cred"] \in Creds \cup {None}
      /\ update.parts[f] # None
  BY DEF Write, ResponseInv
<1>4. TypeOK'
  BY <1>1, <1>2, <1>3 DEF Write, TypeOK, memory
<1>5. ResponseInv'
  BY <1>1, <1>3 DEF ResponseInv
<1>6. IF f = "tc.uri" THEN tcUri' = RestoredUri' ELSE RestoredUri' = RestoredUri
  BY <1>2, <1>3 DEF Write, memory, MemoryInv, Replacing, RestoredUri
<1>7. f # "tc.cred" => HeadersFit' = HeadersFit
  BY <1>2 DEF HeadersFit, RestoredToken, Write, memory
<1>8. MemoryInv'
  BY <1>1, <1>2, <1>6, <1>7 DEF Write, memory, MemoryInv, Replacing
<1>9. NewCredInv'
  BY <1>1, <1>2 DEF Write, NewCredInv, Replacing
<1> QED BY <1>4, <1>5, <1>8, <1>9

\* A file that cannot be opened stays as it is.
LEMMA OpenFailsKeeps == ASSUME CupsInv, NEW f \in Files, OpenFails(f) PROVE CupsInv'
<1> USE DEF CupsInv
<1>1. /\ \/ f # "tc.cred" /\ update'.pc = "check" /\ update'.parts = NoParts
         \/ /\ f # "tc.cred" /\ update'.pc = "open" /\ update'.parts = update.parts
            /\ update'.file \in Files \ {f, "tc.uri"}
            /\ update.parts[update'.file] # None
         \/ f = "tc.cred" /\ update'.pc = "setHeaders" /\ update'.parts = update.parts
      /\ update' \in [pc : Steps, file : Files \cup {None}, parts : Parts]
  BY SavedType DEF OpenFails, TypeOK
<1>2. faults' \in 0..MaxFaults
  BY DEF OpenFails, Fault, TypeOK
<1>3. TypeOK'
  BY <1>1, <1>2 DEF OpenFails, TypeOK, memory
<1>4. ResponseInv'
  BY <1>1 DEF OpenFails, ResponseInv
<1>5. MemoryInv'
  BY <1>1, RestoredFollowsDisk DEF OpenFails, memory, MemoryInv, Replacing, HeadersFit
<1>6. NewCredInv'
  BY <1>1 DEF OpenFails, NewCredInv, Replacing
<1> QED BY <1>3, <1>4, <1>5, <1>6

\* A write that fails leaves a torn file.
LEMMA WriteFailsKeeps == ASSUME CupsInv, NEW f \in Files, WriteFails(f) PROVE CupsInv'
<1> USE DEF CupsInv
<1>1. /\ \/ f # "tc.cred" /\ update'.pc = "check" /\ update'.parts = NoParts
         \/ /\ f # "tc.cred" /\ update'.pc = "open" /\ update'.parts = update.parts
            /\ update'.file \in Files \ {f, "tc.uri"}
            /\ update.parts[update'.file] # None
         \/ f = "tc.cred" /\ update'.pc = "setHeaders" /\ update'.parts = update.parts
      /\ update' \in [pc : Steps, file : Files \cup {None}, parts : Parts]
  BY SavedType DEF WriteFails, TypeOK
<1>2. /\ update.parts["tc.uri"] \in Uris \cup {None}
      /\ update.parts["cups.cred"] \in CupsCreds \cup {None}
      /\ update.parts["tc.cred"] \in Creds \cup {None}
      /\ update.parts[f] # None
  BY DEF WriteFails, ResponseInv
<1>3. /\ disk' \in Parts
      /\ disk'[f] \in Cut
      /\ f = "tc.uri" => disk'[f] \in {"empty", "garbage"}
      /\ \A g \in Files \ {f} : disk'[g] = disk[g]
  <2>1. PICK c \in Cuts(update.parts[f]) : disk' = [disk EXCEPT ![f] = c]
    BY DEF WriteFails
  <2> QED BY <2>1, <1>2, CutsAre DEF TypeOK, Parts
<1>4. faults' \in 0..MaxFaults
  BY DEF WriteFails, Fault, TypeOK
<1>5. TypeOK'
  BY <1>1, <1>3, <1>4 DEF WriteFails, TypeOK, memory
<1>6. ResponseInv'
  BY <1>1, <1>2 DEF ResponseInv
<1>7. f # "tc.uri" => RestoredUri' = RestoredUri
  BY <1>3 DEF RestoredUri
<1>8. f # "tc.cred" => HeadersFit' = HeadersFit
  BY <1>3 DEF HeadersFit, RestoredToken, WriteFails, memory
<1>9. MemoryInv'
  BY <1>1, <1>7, <1>8 DEF WriteFails, memory, MemoryInv, Replacing
<1>10. NewCredInv'
  BY <1>1, <1>3 DEF WriteFails, NewCredInv, Replacing
<1> QED BY <1>5, <1>6, <1>9, <1>10

-----------------------------------------------------------------------------
(* The restarts and the rest                                               *)

\* A process that starts has nothing in memory, whatever is on disk.
LEMMA RestartKeeps ==
    ASSUME CupsInv, TypeOK', update' = Start, tcUri' = None, headers' = None
    PROVE  CupsInv'
<1>1. update'.pc = "restoreUri"
  BY AtFields DEF Start
<1> QED BY <1>1 DEF CupsInv, ResponseInv, MemoryInv, NewCredInv, Replacing

\* A crash leaves the files.
LEMMA CrashKeeps == ASSUME CupsInv, Crash PROVE CupsInv'
<1>1. update' \in [pc : Steps, file : Files \cup {None}, parts : Parts]
  BY NoPartsType, AtType DEF Crash, Start, Steps
<1>2. TypeOK'
  BY <1>1 DEF Crash, CupsInv, TypeOK, Fault
<1> QED BY <1>2, RestartKeeps DEF Crash

\* A power cut may also cut the files that were written last.
LEMMA PowerCutKeeps == ASSUME CupsInv, PowerCut PROVE CupsInv'
<1>1. update' \in [pc : Steps, file : Files \cup {None}, parts : Parts]
  BY NoPartsType, AtType DEF PowerCut, Start, Steps
<1>2. PICK lost \in SUBSET torn, short \in BOOLEAN :
         disk' = [f \in Files |->
                    IF f \notin lost THEN disk[f]
                    ELSE IF short THEN "empty"
                    ELSE CHOOSE c \in Cuts(disk[f]) : c # "empty"]
  BY DEF PowerCut
<1>3. ASSUME NEW content
      PROVE  (CHOOSE c \in Cuts(content) : c # "empty") \in Cuts(content)
  BY DEF Cuts
<1>4. ASSUME NEW f \in Files
      PROVE  disk'[f] = disk[f] \/ disk'[f] \in Cuts(disk[f]) \/ disk'[f] = "empty"
  BY <1>2, <1>3
<1>5. /\ disk' \in Parts
      /\ disk'["tc.uri"] \in Uris \cup {"empty", "garbage", None}
      /\ disk'["tc.cred"] \in Creds \cup Cut \cup {None}
      /\ disk'["cups.cred"] \in CupsCreds \cup Cut \cup {None}
  <2>1. DOMAIN disk' = Files /\ disk' = [f \in Files |-> disk'[f]]
    BY <1>2
  <2>2. \A f \in Files : disk'[f] \in {disk[f]} \cup Cut
    BY <1>4, CutsAre
  <2>3. disk'["tc.uri"] \in Uris \cup {"empty", "garbage", None}
    BY <1>4, CutsAre DEF CupsInv, TypeOK
  <2> QED BY <2>1, <2>2, <2>3 DEF CupsInv, TypeOK, Parts
<1>6. TypeOK'
  BY <1>1, <1>5 DEF PowerCut, CupsInv, TypeOK, Fault
<1> QED BY <1>6, RestartKeeps DEF PowerCut

\* The connection loop, a change of the server and stuttering touch nothing of it.
LEMMA OthersKeep ==
    ASSUME CupsInv, LnsStep \/ ServerChanges \/ UNCHANGED vars
    PROVE  CupsInv'
<1>1. /\ UNCHANGED <<disk, torn, unsaved, memory, update, faults>>
      /\ server' \in Server /\ changes' \in 0..MaxChanges
  BY DEF LnsStep, BeginAttempt, ReadHeaders, Discover, ServerChanges, vars, CupsInv, TypeOK
<1>2. TypeOK'
  BY <1>1 DEF CupsInv, TypeOK, memory
<1>3. ResponseInv' /\ NewCredInv'
  BY <1>1, RestoredFollowsDisk DEF CupsInv, ResponseInv, NewCredInv, Replacing
<1>4. MemoryInv'
  BY <1>1, RestoredFollowsDisk DEF CupsInv, MemoryInv, Replacing, memory, HeadersFit
<1> QED BY <1>2, <1>3, <1>4 DEF CupsInv

\* Every action keeps the invariant.
LEMMA CupsStep == CupsInv /\ [Next]_vars => CupsInv'
<1> SUFFICES ASSUME CupsInv, [Next]_vars PROVE CupsInv'
  OBVIOUS
<1>1. CASE UpdateStep
  BY <1>1, RestoreUriKeeps, RestoreCredKeeps, RequestKeeps, RespondKeeps, SetUriKeeps,
     SetHeadersKeeps, OpenKeeps, WriteKeeps DEF UpdateStep
<1>2. CASE FaultStep
  BY <1>2, RequestFailsKeeps, CrashKeeps, PowerCutKeeps, OpenFailsKeeps, WriteFailsKeeps
     DEF FaultStep
<1>3. CASE LnsStep \/ ServerChanges \/ UNCHANGED vars
  BY <1>3, OthersKeep
<1> QED BY <1>1, <1>2, <1>3 DEF Next

-----------------------------------------------------------------------------
(* The theorems                                                            *)

\* The URI, the header, the files and the response that is being applied agree,
\* whatever fails, is torn or restarts (cups/mod.rs, cups/credentials.rs).
THEOREM CupsCorrect == Spec => []CupsInv
  BY CupsInit, CupsStep, PTL DEF Spec

\* A restart between updates changes nothing of what the station uses, but for what
\* could not be saved and for the header that a certificate leaves behind.
THEOREM RestartCorrect == Spec => []RestartRecovers
<1>1. CupsInv => RestartRecovers
  BY DEF CupsInv, MemoryInv, Replacing, RestartRecovers
<1> QED BY <1>1, CupsCorrect, PTL

\* A TC credential is never fetched while it is on disk.
THEOREM SentOnceCorrect == Spec => []TcCredSentOnce
<1>1. CupsInv => TcCredSentOnce
  BY DEF CupsInv, ResponseInv, NewCredInv, TcCredSentOnce
<1> QED BY <1>1, CupsCorrect, PTL
=============================================================================
