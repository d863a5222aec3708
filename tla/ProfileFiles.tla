---------------------------- MODULE ProfileFiles -----------------------------
(***************************************************************************)
(* The files of a profile in object storage: a picture, which a new one    *)
(* replaces, and a resume, which applications go on naming after it was    *)
(* replaced.                                                               *)
(*                                                                         *)
(* Source: seekerProfile.service.js, storage.service.js, and the places of *)
(* seekerApplications.service.js that take the resume into an application. *)
(* The company logo of employerProfile.service.js is kept like a picture.  *)
(* Storage and database share no transaction: a file is uploaded under a   *)
(* fresh key, the key is written to the row, and the key that was read     *)
(* before is deleted; after an error the new file is deleted instead.  The *)
(* error may be a lost answer to an UPDATE that did happen.                *)
(*                                                                         *)
(* The other fields of a profile are data.                                 *)
(***************************************************************************)

CONSTANTS
    Files,          \* object keys
    Applications,
    Requests,
    NoFile,
    NoApplication

VARIABLES
    profile,        \* profilePictureKey and resumeObjectKey of the row
    file,
    snapshot,       \* Application.resumeObjectKey
    req

fileVars == <<profile, file, snapshot, req>>

-----------------------------------------------------------------------------
(* State *)

Kinds == {"picture", "resume"}

ObjectKeys == Files \cup {NoFile}

\* What became of a file: "replaced" by another, "removed" by the seeker, deleted by the
\* clean-up of an upload that had "failed" or whose answer was "lost".
FileStates == {"unused", "stored", "replaced", "removed", "failed", "lost"}

Request == [pc : {"idle", "read", "uploaded", "saved", "failed", "lost", "remove", "cleared",
                  "apply"},
            kind : Kinds, new : ObjectKeys, old : ObjectKeys,
            on : Applications \cup {NoApplication}]

Idle == [pc |-> "idle", kind |-> "picture", new |-> NoFile, old |-> NoFile,
         on |-> NoApplication]

TypeOK ==
    /\ profile \in [Kinds -> ObjectKeys]
    /\ file \in [Files -> FileStates]
    /\ snapshot \in [Applications -> ObjectKeys]
    /\ req \in [Requests -> Request]

Init ==
    /\ profile = [k \in Kinds |-> NoFile]
    /\ file = [f \in Files |-> "unused"]
    /\ snapshot = [a \in Applications |-> NoFile]
    /\ req = [r \in Requests |-> Idle]

-----------------------------------------------------------------------------
(* Helpers *)

\* Mistakes: a replaced resume is deleted too; the clean-up deletes the former file.
ReplacesAny(kind) == TRUE

\* deleteExistingObject
Replaces(kind) == kind = "picture"

\* The file a failed upload deletes.
Discarded(q) == q.new

\* deleteObject ignores a missing key, and logs a failure without reporting it.
Deleted(f, as, works) ==
    file' = IF works /\ f # NoFile THEN [file EXCEPT ![f] = as] ELSE file

Keep(r, q) == req' = [req EXCEPT ![r] = q]
Answer(r) == Keep(r, Idle)

-----------------------------------------------------------------------------
(* Uploads *)

\* updateStoredFile reads the row ...
BeginUpload(r, kind, f) ==
    /\ req[r] = Idle
    /\ file[f] = "unused"
    /\ \A k \in Requests : req[k].new # f
    /\ Keep(r, [Idle EXCEPT !.pc = "read", !.kind = kind, !.new = f, !.old = profile[kind]])
    /\ UNCHANGED <<profile, file, snapshot>>

\* ... uploads the file; an error ends the request ...
Upload(r) ==
    /\ req[r].pc = "read"
    /\ file' = [file EXCEPT ![req[r].new] = "stored"]
    /\ Keep(r, [req[r] EXCEPT !.pc = "uploaded"])
    /\ UNCHANGED <<profile, snapshot>>

\* ... and writes the key, which may fail, or seem to ...
SaveKey(r, outcome) ==
    LET q == req[r] IN
    /\ q.pc = "uploaded"
    /\ profile' = IF outcome = "failed" THEN profile ELSE [profile EXCEPT ![q.kind] = q.new]
    /\ Keep(r, [q EXCEPT !.pc = outcome])
    /\ UNCHANGED <<file, snapshot>>

\* ... then it deletes the file it had read ...
DeleteOld(r, works) ==
    LET q == req[r] IN
    /\ q.pc = "saved"
    /\ Deleted(q.old, "replaced", works /\ Replaces(q.kind))
    /\ Answer(r)
    /\ UNCHANGED <<profile, snapshot>>

\* ... or, after an error, the file it has uploaded.
CleanUp(r, works) ==
    LET q == req[r] IN
    /\ q.pc \in {"failed", "lost"}
    /\ Deleted(Discarded(q), q.pc, works)
    /\ Answer(r)
    /\ UNCHANGED <<profile, snapshot>>

-----------------------------------------------------------------------------
(* Removal *)

\* deleteStoredFile reads the row ...
BeginRemove(r, kind) ==
    /\ req[r] = Idle
    /\ profile[kind] # NoFile
    /\ Keep(r, [Idle EXCEPT !.pc = "remove", !.kind = kind, !.old = profile[kind]])
    /\ UNCHANGED <<profile, file, snapshot>>

\* ... clears the key, whatever it is by now ...
ClearKey(r) ==
    /\ req[r].pc = "remove"
    /\ profile' = [profile EXCEPT ![req[r].kind] = NoFile]
    /\ Keep(r, [req[r] EXCEPT !.pc = "cleared"])
    /\ UNCHANGED <<file, snapshot>>

\* ... and deletes the file it had read.
DeleteFile(r, works) ==
    /\ req[r].pc = "cleared"
    /\ Deleted(req[r].old, "removed", works)
    /\ Answer(r)
    /\ UNCHANGED <<profile, snapshot>>

-----------------------------------------------------------------------------
(* Applications *)

\* createSeekerApplication reads the resume before its transaction ...
BeginApply(r, a) ==
    /\ req[r] = Idle
    /\ snapshot[a] = NoFile
    /\ profile["resume"] # NoFile
    /\ \A k \in Requests : req[k].on # a
    /\ Keep(r, [Idle EXCEPT !.pc = "apply", !.old = profile["resume"], !.on = a])
    /\ UNCHANGED <<profile, file, snapshot>>

\* ... in which it is written to the application.
FinishApply(r) ==
    /\ req[r].pc = "apply"
    /\ snapshot' = [snapshot EXCEPT ![req[r].on] = req[r].old]
    /\ Answer(r)
    /\ UNCHANGED <<profile, file>>

\* The process dies, or a statement fails that no catch block handles.
Abort(r) ==
    /\ req[r] # Idle
    /\ Answer(r)
    /\ UNCHANGED <<profile, file, snapshot>>

-----------------------------------------------------------------------------
(* Specification *)

RequestStep(r) ==
    \/ \E kind \in Kinds :
         \/ \E f \in Files : BeginUpload(r, kind, f)
         \/ BeginRemove(r, kind)
    \/ Upload(r)
    \/ \E outcome \in {"saved", "failed", "lost"} : SaveKey(r, outcome)
    \/ \E works \in BOOLEAN : DeleteOld(r, works) \/ CleanUp(r, works) \/ DeleteFile(r, works)
    \/ ClearKey(r)
    \/ \E a \in Applications : BeginApply(r, a)
    \/ FinishApply(r)
    \/ Abort(r)

Next == \E r \in Requests : RequestStep(r)

Spec == Init /\ [][Next]_fileVars

-----------------------------------------------------------------------------
(* Properties *)

\* A file that the profile names is stored, although uploads and removals overlap, unless
\* the clean-up took it because the answer to the UPDATE was lost.  A resume that an
\* application names is stored too, unless the seeker removed it (updateStoredFile).
NamedFilesAreStored ==
    /\ \A kind \in Kinds :
         profile[kind] # NoFile => file[profile[kind]] \in {"stored", "lost"}
    /\ \A a \in Applications :
         snapshot[a] # NoFile => file[snapshot[a]] \in {"stored", "lost", "removed"}

=============================================================================
