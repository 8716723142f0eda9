--------------------------------- MODULE Cups ---------------------------------
(***************************************************************************)
(* The CUPS client: what it restores at startup, the update loop, the      *)
(* files it keeps in credentials_dir, and the TC URI and authorization     *)
(* header it hands to the LNS connection loop, which reads them one after  *)
(* the other when it begins an attempt.  The process may crash between any *)
(* two steps and the gateway may lose power, which tears files written     *)
(* since it booted, as nothing is synced.                                  *)
(*                                                                         *)
(* The server is external: it answers with what differs from the CRCs and  *)
(* the URI of the request.  A CRC identifies its credential: collisions    *)
(* are left out.  A credential is a token (a header line) or an X.509 pair.*)
(***************************************************************************)
EXTENDS Integers, FiniteSets

CONSTANTS
    Uris,           \* TC URIs
    Tokens,         \* credential blobs in token mode
    Certs,          \* credential blobs in X.509 mode
    CupsCreds,      \* credential blobs for CUPS itself
    ConfUri,        \* conf.lns.server, None when empty
    ConfCred,       \* the credential of the conf.cups.* and of the conf.lns.* files
    None,
    MaxChanges,     \* bound: times the server's configuration changes
    MaxFaults       \* bound: crashes, failed requests and failed file operations

Creds == Tokens \cup Certs

\* A file is missing, holds a value, is cut to nothing or somewhere inside: what is
\* left of a token still has a header line, what is left of a certificate has none.
Cut == {"empty", "garbage", "stub"}

Cuts(content) ==
    {"empty", IF content \in Certs \cup {"stub"} THEN "stub" ELSE "garbage"}

ASSUME CupsAssumption ==
    /\ None \notin Uris \cup Creds \cup CupsCreds \cup {ConfCred}
    /\ (Uris \cup Creds \cup CupsCreds \cup {None, ConfCred}) \cap Cut = {}
    /\ ConfUri \in Uris \cup {None} /\ ConfCred \notin Creds \cup CupsCreds
    /\ (Uris \cup Tokens) \cap Certs = {}
    /\ MaxChanges \in Nat /\ MaxFaults \in Nat

VARIABLES
    disk,       \* credentials_dir: file -> its content
    torn,       \* history: files written since the gateway has power
    unsaved,    \* history: files whose last save failed in this run of the process
    tcUri,      \* CUPS_TC_URI
    headers,    \* CUPS_TC_AUTH_HEADERS: the token they carry
    update,     \* locals of setup and run_update: what is left to do
    attempt,    \* locals of the connection attempt of the LNS
    used,       \* history: URI and token of the last discovery request
    server,     \* what the CUPS server wants
    changes, faults

memory == <<tcUri, headers>>
vars == <<disk, torn, unsaved, memory, update, attempt, used, server, changes, faults>>

Files == {"tc.uri", "cups.cred", "tc.cred"}

\* A credential, or a URI, for each of the files.
Parts == [Files -> Uris \cup CupsCreds \cup Creds \cup {ConfUri, ConfCred, None} \cup Cut]

Server == {s \in Parts : /\ s["tc.uri"] \in Uris
                         /\ s["cups.cred"] \in CupsCreds
                         /\ s["tc.cred"] \in Creds}

NoParts   == [f \in Files |-> None]
NoneUsed  == [uri |-> None, token |-> None]
NoAttempt == [pc |-> "idle", uri |-> None, token |-> None]

\* At a step, of a file or of none, with the parts of the request or response.
At(step, f, parts) == [pc |-> step, file |-> f, parts |-> parts]

Start == At("restoreUri", None, NoParts)
Check == At("check", None, NoParts)

Init ==
    /\ disk = NoParts /\ torn = {} /\ unsaved = {}
    /\ tcUri = None /\ headers = None
    /\ update = Start
    /\ attempt = NoAttempt /\ used = NoneUsed
    /\ server \in Server
    /\ changes = 0 /\ faults = 0

Fault == faults < MaxFaults /\ faults' = faults + 1

-----------------------------------------------------------------------------
(* cups::setup                                                             *)

\* Mutant of RestoredUri: an empty file is taken as it is.
RestoredUriAny == disk["tc.uri"]

\* What the file tc.uri is restored to; an empty one changes nothing.
RestoredUri == IF disk["tc.uri"] \in {None, "empty"} THEN None ELSE disk["tc.uri"]

\* parse_token_from_cred of tc.cred; a header line that is cut still parses.
RestoredToken ==
    IF disk["tc.cred"] \in Tokens \cup {"garbage"} THEN disk["tc.cred"] ELSE None

RestoreUri ==
    /\ update.pc = "restoreUri"
    /\ tcUri' = IF RestoredUri = None THEN tcUri ELSE RestoredUri
    /\ update' = At("restoreCred", None, NoParts)
    /\ UNCHANGED <<disk, torn, unsaved, headers, attempt, used, server, changes, faults>>

RestoreCred ==
    /\ update.pc = "restoreCred"
    /\ headers' = IF RestoredToken = None THEN headers ELSE RestoredToken
    /\ update' = Check
    /\ UNCHANGED <<disk, torn, unsaved, tcUri, attempt, used, server, changes, faults>>

-----------------------------------------------------------------------------
(* run_update                                                              *)

\* Mutant of ReportedTcCred: the CRC is of the configured files, always.
ReportedTcCredConf == ConfCred

\* The credential whose CRC is reported: the saved one, even a torn one.
ReportedTcCred == IF disk["tc.cred"] = None THEN ConfCred ELSE disk["tc.cred"]

Reported == [f \in Files |-> IF f = "tc.uri" THEN ConfUri
                             ELSE IF f = "cups.cred" THEN ConfCred
                             ELSE ReportedTcCred]

Request ==
    /\ update.pc = "check"
    /\ update' = At("post", None, Reported)
    /\ UNCHANGED <<disk, torn, unsaved, memory, attempt, used, server, changes, faults>>

\* The request fails, or its response does not parse: the loop waits.
RequestFails ==
    /\ update.pc = "post" /\ Fault
    /\ update' = Check
    /\ UNCHANGED <<disk, torn, unsaved, memory, attempt, used, server, changes>>

\* What the parts of a response lead to, in this order: a part that is absent is
\* passed over.
ApplyTc(parts)   == IF parts["tc.cred"] = None THEN Check ELSE At("open", "tc.cred", parts)

ApplyCups(parts) == IF parts["cups.cred"] = None THEN ApplyTc(parts)
                    ELSE At("open", "cups.cred", parts)

ApplyUri(parts)  == IF parts["tc.uri"] = None THEN ApplyCups(parts)
                    ELSE At("setUri", None, parts)

\* Mutant of SaveUri: the URI is kept in memory only.
SaveUriNot(parts) == ApplyCups(parts)

SaveUri(parts) == At("open", "tc.uri", parts)

\* Mutant of Saved: the blob of the credential is saved and the header not set.
SavedOnly(f, parts) ==
    IF f = "tc.uri" THEN ApplyCups(parts) ELSE IF f = "cups.cred" THEN ApplyTc(parts) ELSE Check

\* What follows the saving of a file, done or failed.
Saved(f, parts) ==
    IF f = "tc.uri" THEN ApplyCups(parts)
    ELSE IF f = "cups.cred" THEN ApplyTc(parts)
    ELSE At("setHeaders", None, parts)

\* The server answers with what differs.
Respond ==
    /\ update.pc = "post"
    /\ update' = ApplyUri([f \in Files |->
                     IF server[f] = update.parts[f] THEN None ELSE server[f]])
    /\ UNCHANGED <<disk, torn, unsaved, memory, attempt, used, server, changes, faults>>

SetUri ==
    /\ update.pc = "setUri"
    /\ tcUri' = update.parts["tc.uri"]
    /\ update' = SaveUri(update.parts)
    /\ UNCHANGED <<disk, torn, unsaved, headers, attempt, used, server, changes, faults>>

\* In X.509 mode the header in memory is left as it is.
SetHeaders ==
    /\ update.pc = "setHeaders"
    /\ headers' = IF update.parts["tc.cred"] \in Tokens THEN update.parts["tc.cred"]
                  ELSE headers
    /\ update' = Check
    /\ UNCHANGED <<disk, torn, unsaved, tcUri, attempt, used, server, changes, faults>>

\* _write_restricted: create_dir_all and open, which truncates the file.
Open(f) ==
    /\ update.pc = "open" /\ update.file = f
    /\ disk' = [disk EXCEPT ![f] = "empty"] /\ torn' = torn \cup {f}
    /\ update' = At("write", f, update.parts)
    /\ UNCHANGED <<unsaved, memory, attempt, used, server, changes, faults>>

\* write_all
Write(f) ==
    /\ update.pc = "write" /\ update.file = f
    /\ disk' = [disk EXCEPT ![f] = update.parts[f]] /\ unsaved' = unsaved \ {f}
    /\ update' = Saved(f, update.parts)
    /\ UNCHANGED <<torn, memory, attempt, used, server, changes, faults>>

\* Either fails: a warning is logged and the rest of the response is handled.
OpenFails(f) ==
    /\ update.pc = "open" /\ update.file = f /\ Fault
    /\ unsaved' = unsaved \cup {f}
    /\ update' = Saved(f, update.parts)
    /\ UNCHANGED <<disk, torn, memory, attempt, used, server, changes>>

WriteFails(f) ==
    /\ update.pc = "write" /\ update.file = f /\ Fault
    /\ \E c \in Cuts(update.parts[f]) : disk' = [disk EXCEPT ![f] = c]
    /\ unsaved' = unsaved \cup {f}
    /\ update' = Saved(f, update.parts)
    /\ UNCHANGED <<torn, memory, attempt, used, server, changes>>

-----------------------------------------------------------------------------
(* lns::connection_loop: an attempt reads the URI, then the header.        *)

\* discovery_base, without a discovery_endpoint.
DiscoveryBase == IF ConfUri # None THEN ConfUri ELSE tcUri

BeginAttempt ==
    /\ attempt.pc = "idle"
    /\ attempt' = [pc |-> "auth", uri |-> DiscoveryBase, token |-> None]
    /\ UNCHANGED <<disk, torn, unsaved, memory, update, used, server, changes, faults>>

\* parse_auth_token, lns.tls_key not set.
ReadHeaders ==
    /\ attempt.pc = "auth"
    /\ attempt' = [pc |-> "discover", uri |-> attempt.uri, token |-> headers]
    /\ UNCHANGED <<disk, torn, unsaved, memory, update, used, server, changes, faults>>

\* discover: the request goes to the URI with the header, unless there is no URI or
\* it is none.  Whatever comes back, a MUXS to connect to or an error, the loop
\* begins another attempt in the end.
Discover ==
    /\ attempt.pc = "discover"
    /\ used' = IF attempt.uri \in Uris THEN [uri |-> attempt.uri, token |-> attempt.token]
               ELSE used
    /\ attempt' = NoAttempt
    /\ UNCHANGED <<disk, torn, unsaved, memory, update, server, changes, faults>>

-----------------------------------------------------------------------------
(* Crashes and the server                                                  *)

\* The process dies and is started again.
Crash ==
    /\ Fault
    /\ tcUri' = None /\ headers' = None /\ attempt' = NoAttempt
    /\ update' = Start
    /\ unsaved' = {}
    /\ UNCHANGED <<disk, torn, used, server, changes>>

\* With the power off, any file written since boot may be cut.
PowerCut ==
    /\ Fault
    /\ \E lost \in (SUBSET torn) \ {{}}, short \in BOOLEAN :
          disk' = [f \in Files |->
                      IF f \notin lost THEN disk[f]
                      ELSE IF short THEN "empty"
                      ELSE CHOOSE c \in Cuts(disk[f]) : c # "empty"]
    /\ tcUri' = None /\ headers' = None /\ attempt' = NoAttempt
    /\ update' = Start
    /\ torn' = {} /\ unsaved' = {}
    /\ UNCHANGED <<used, server, changes>>

ServerChanges ==
    /\ changes < MaxChanges /\ changes' = changes + 1
    /\ server' \in Server \ {server}
    /\ UNCHANGED <<disk, torn, unsaved, memory, update, attempt, used, faults>>

-----------------------------------------------------------------------------

UpdateStep ==
    \/ RestoreUri \/ RestoreCred
    \/ Request \/ Respond \/ SetUri \/ SetHeaders
    \/ \E f \in Files : Open(f) \/ Write(f)

LnsStep == BeginAttempt \/ ReadHeaders \/ Discover

FaultStep ==
    \/ RequestFails \/ Crash \/ PowerCut
    \/ \E f \in Files : OpenFails(f) \/ WriteFails(f)

Next == UpdateStep \/ LnsStep \/ FaultStep \/ ServerChanges

Spec == Init /\ [][Next]_vars

\* setup and update_loop are one task that never waits for the LNS; its sleeps end
\* and a request is given up after 30 s.
FairSpec == Spec /\ WF_vars(UpdateStep)

-----------------------------------------------------------------------------
(* Properties                                                              *)

Steps == {"restoreUri", "restoreCred", "check", "post", "setUri", "open", "write",
          "setHeaders"}

TypeOK ==
    /\ disk \in Parts
    /\ disk["tc.uri"] \in Uris \cup {"empty", "garbage", None}
    /\ disk["tc.cred"] \in Creds \cup Cut \cup {None}
    /\ disk["cups.cred"] \in CupsCreds \cup Cut \cup {None}
    /\ torn \subseteq Files /\ unsaved \subseteq Files
    /\ tcUri \in Uris \cup {None, "garbage"} /\ headers \in Tokens \cup {None, "garbage"}
    /\ update \in [pc : Steps, file : Files \cup {None}, parts : Parts]
    /\ server \in Server
    /\ changes \in 0..MaxChanges /\ faults \in 0..MaxFaults

\* The parts of a response are of the server, and the one that is being applied is there.
ResponseInv ==
    /\ update.pc \in {"setUri", "open", "write", "setHeaders"} =>
          /\ update.parts["tc.uri"] \in Uris \cup {None}
          /\ update.parts["cups.cred"] \in CupsCreds \cup {None}
          /\ update.parts["tc.cred"] \in Creds \cup {None}
    /\ update.pc = "setUri" => update.parts["tc.uri"] # None
    /\ update.pc = "setHeaders" => update.parts["tc.cred"] # None
    /\ update.pc \in {"open", "write"} =>
          update.file \in Files /\ update.parts[update.file] # None

\* What the process has in memory is what it would restore from a file, unless it has
\* not restored it yet, is just replacing it, or could not save it.  A certificate
\* leaves the header of a token where it is.
Replacing(f) == update.pc \in {"open", "write"} /\ update.file = f

HeadersFit ==
    \/ headers = RestoredToken
    \/ disk["tc.cred"] \in Certs /\ headers \in Tokens \cup {"garbage"}

MemoryInv ==
    /\ update.pc = "restoreUri" => tcUri = None
    /\ Replacing("tc.uri") => tcUri = update.parts["tc.uri"]
    /\ (update.pc # "restoreUri" /\ ~Replacing("tc.uri") /\ "tc.uri" \notin unsaved) =>
          tcUri = RestoredUri
    /\ update.pc \in {"restoreUri", "restoreCred"} => headers = None
    /\ (update.pc = "setHeaders" /\ "tc.cred" \notin unsaved) =>
          disk["tc.cred"] = update.parts["tc.cred"]
    /\ (/\ update.pc \notin {"restoreUri", "restoreCred", "setHeaders"}
        /\ ~Replacing("tc.cred") /\ "tc.cred" \notin unsaved) => HeadersFit

\* The credential of a response is not the one on disk.
NewCredInv ==
    /\ update.pc = "post" => update.parts["tc.cred"] = ReportedTcCred
    /\ (\/ update.pc = "setUri" \/ Replacing("tc.uri") \/ Replacing("cups.cred")
        \/ update.pc = "open") =>
          update.parts["tc.cred"] # disk["tc.cred"] \/ update.parts["tc.cred"] = None

\* Between updates the next start of the process would restore exactly what this
\* one uses, unless saving it failed (PRD.md CUPS-03: "Persist updated TC URI and
\* credentials to disk for restart recovery").  A certificate replaces the token on
\* disk and leaves its header in memory: a station that has gone from one to the
\* other keeps sending the token until it is restarted, and not after.
RestartRecovers ==
    update.pc = "check" => /\ "tc.uri" \notin unsaved => tcUri = RestoredUri
                           /\ "tc.cred" \notin unsaved => HeadersFit

\* A TC credential that is on disk is not sent again: the CRC reported is that of
\* the credential in use (DEVELOPERS.md: "prevents unnecessary credential
\* rotation when nothing has changed").
TcCredSentOnce ==
    (update.pc = "open" /\ update.file = "tc.cred") =>
        disk["tc.cred"] # update.parts["tc.cred"]

\* Together these are inductive, and RestartRecovers and TcCredSentOnce follow:
\* whatever is written, fails, is cut or restarts, memory and files agree.
CupsInv == TypeOK /\ ResponseInv /\ MemoryInv /\ NewCredInv

\* []<> of an attempt that gets as far as discovery.
Reconnects == []<><<Discover>>_vars

UsesServer ==
    /\ used.uri = server["tc.uri"]
    /\ server["tc.cred"] \in Tokens => used.token = server["tc.cred"]

\* Whatever crashes, tears a file or fails, once the server's configuration and
\* the faults settle, a station that keeps reconnecting does so with the URI and
\* the token of the server, together, for good (PRD.md CUPS-04), unless it is
\* left with a token it could not save.
Settles == (Reconnects /\ <>[]("tc.cred" \notin unsaved)) => <>[]UsesServer

\* The same without exception: the server sends what differs from the CRC that
\* stands for the credential it provided last (cups/mod.rs:74: "If CUPS previously
\* provided a TC credential blob, use its CRC").
SettlesThoughUnsaved == Reconnects => <>[]UsesServer
=============================================================================
