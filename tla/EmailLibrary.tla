----------------------------- MODULE EmailLibrary -----------------------------
(***************************************************************************)
(* The library messages are composed from: the attachments, whose records  *)
(* are in the database and whose bytes are in the object storage, and the  *)
(* signatures of email.service.ts; and what becomes of them in a message,  *)
(* which EmailDelivery leaves out: compose() looks them up and the worker  *)
(* loads the attachments when it sends.                                    *)
(*                                                                         *)
(* Each call of the database or of the storage is a step, so requests      *)
(* interleave at every await, and a request may end at any of them with an *)
(* error or with the process.                                              *)
(***************************************************************************)
EXTENDS Naturals, FiniteSets

CONSTANTS Bytes,     \* contents a user may upload
          Refused,   \* those the upload middleware refuses, by name or size
          Blob,      \* keys the storage may give out, each once
          Handler,   \* requests served at once
          Signature, \* signatures that may be created
          MaxStored, MaxAttached \* attachments of a workspace and of a message

VARIABLES
  attachment, \* records [key, bytes]; the key of its file tells one from another
  file,       \* keys of the files in the storage
  given,      \* keys given out
  signature,  \* records [id, isDefault]
  signed,     \* identifiers given out
  message,    \* the message composed
  served,     \* the requests
  faulty,     \* history: what a request that ended half-way may have left behind
  bereft      \* history: a default signature was deleted

libraryVars == <<attachment, file, given, signature, signed, message, served, faulty, bereft>>

ASSUME LibraryAssumption == Refused \subseteq Bytes /\ {MaxStored, MaxAttached} \subseteq Nat

NoMessage == [state |-> "none"]
AtRest == [pc |-> "idle"]

LibraryInit ==
  /\ attachment = {} /\ file = {} /\ given = {} /\ signature = {} /\ signed = {}
  /\ message = NoMessage /\ served = [h \in Handler |-> AtRest] /\ faulty = {} /\ bereft = FALSE

Step(h, from, to) == served[h].pc = from /\ served' = [served EXCEPT ![h] = to]

-----------------------------------------------------------------------------
(***************************************************************************)
(* The tables.                                                             *)
(***************************************************************************)

\* findAttachmentByChecksum()
Copies(b) == {a \in attachment : a.bytes = b}

\* findAttachmentsByIds()
Found(wanted) == wanted \cap attachment

\* createAttachment()
RecordOf(k, b) == [key |-> k, bytes |-> b]

\* findDefaultSignature()
DefaultSignature == {s \in signature : s.isDefault}

\* The creations of a new default that have cleared the old one.
Standing == {h \in Handler : served[h].pc = "sign" /\ served[h].isDefault}

\* clearDefaultSignatureExcept()
NoneDefault == {[s EXCEPT !.isDefault = FALSE] : s \in signature}

(***************************************************************************)
(* uploadAttachment()                                                      *)
(***************************************************************************)

\* attachmentUpload: the middleware refuses programs and large files.
Accepted == Bytes \ Refused

\* The library is counted.
Upload(h, b) ==
  /\ b \in Accepted /\ Cardinality(attachment) < MaxStored
  /\ Step(h, "idle", [pc |-> "put", bytes |-> b])
  /\ UNCHANGED <<attachment, file, given, signature, signed, message, faulty, bereft>>

\* put(): a new key for every file
Put(h, k) ==
  /\ k \notin given /\ given' = given \cup {k} /\ file' = file \cup {k}
  /\ Step(h, "put", [pc |-> "look", bytes |-> served[h].bytes, key |-> k])
  /\ UNCHANGED <<attachment, signature, signed, message, faulty, bereft>>

\* findAttachmentByChecksum()
Look(h) ==
  /\ Step(h, "look", [served[h] EXCEPT !.pc = IF Copies(served[h].bytes) # {} THEN "drop" ELSE "create"])
  /\ UNCHANGED <<attachment, file, given, signature, signed, message, faulty, bereft>>

\* Mutant of DropCopy: the file of the record is deleted instead.
DropOther(h) ==
  /\ Step(h, "drop", AtRest)
  /\ file' = file \ {a.key : a \in Copies(served[h].bytes)}
  /\ UNCHANGED <<attachment, given, signature, signed, message, faulty, bereft>>

DropCopy(h) ==
  /\ Step(h, "drop", AtRest) /\ file' = file \ {served[h].key}
  /\ UNCHANGED <<attachment, given, signature, signed, message, faulty, bereft>>

CreateAttachment(h) ==
  /\ Step(h, "create", AtRest)
  /\ attachment' = attachment \cup {RecordOf(served[h].key, served[h].bytes)}
  /\ UNCHANGED <<file, given, signature, signed, message, faulty, bereft>>

(***************************************************************************)
(* deleteAttachment()                                                      *)
(***************************************************************************)

FindAttachment(h, a) ==
  /\ a \in attachment /\ Step(h, "idle", [pc |-> "unrecord", bytes |-> a.bytes, key |-> a.key])
  /\ UNCHANGED <<attachment, file, given, signature, signed, message, faulty, bereft>>

DeleteRecord(h) ==
  /\ Step(h, "unrecord", [served[h] EXCEPT !.pc = "unfile"])
  /\ attachment' = {a \in attachment : a.key # served[h].key}
  /\ UNCHANGED <<file, given, signature, signed, message, faulty, bereft>>

DeleteFile(h) ==
  /\ Step(h, "unfile", AtRest) /\ file' = file \ {served[h].key}
  /\ UNCHANGED <<attachment, given, signature, signed, message, faulty, bereft>>

-----------------------------------------------------------------------------
(***************************************************************************)
(* createSignature(), deleteSignature()                                    *)
(***************************************************************************)

\* Mutant of ListSignatures: the first is a default only when asked for.
ListSignaturesOnly(h, s, isDefault) ==
  /\ s \notin signed /\ signed' = signed \cup {s}
  /\ Step(h, "idle", [pc |-> IF isDefault THEN "clear" ELSE "sign", id |-> s, isDefault |-> isDefault])
  /\ UNCHANGED <<attachment, file, given, signature, message, faulty, bereft>>

ListSignatures(h, s, isDefault) ==
  LET default == isDefault \/ signature = {} IN
  /\ s \notin signed /\ signed' = signed \cup {s}
  /\ Step(h, "idle", [pc |-> IF default THEN "clear" ELSE "sign", id |-> s, isDefault |-> default])
  /\ UNCHANGED <<attachment, file, given, signature, message, faulty, bereft>>

ClearDefault(h) ==
  /\ Step(h, "clear", [served[h] EXCEPT !.pc = "sign"])
  /\ signature' = NoneDefault
  /\ UNCHANGED <<attachment, file, given, signed, message, faulty, bereft>>

\* The index refuses a second default.
CreateSignature(h) ==
  LET s == [id |-> served[h].id, isDefault |-> served[h].isDefault] IN
  /\ Step(h, "sign", AtRest)
  /\ signature' = IF s.isDefault /\ DefaultSignature # {} THEN signature
                  ELSE signature \cup {s}
  /\ UNCHANGED <<attachment, file, given, signed, message, faulty, bereft>>

DeleteSignature(s) ==
  /\ s \in signature /\ signature' = signature \ {s} /\ bereft' = (bereft \/ s.isDefault)
  /\ UNCHANGED <<attachment, file, given, signed, message, served, faulty>>

-----------------------------------------------------------------------------
(***************************************************************************)
(* compose() and the worker                                                *)
(***************************************************************************)

\* resolveAttachments(): all of those asked for, or none
ResolveAttachments(h, wanted) ==
  /\ message = NoMessage /\ \A g \in Handler : served[g].pc \notin {"signature", "insert"}
  /\ Found(wanted) = wanted /\ Cardinality(wanted) <= MaxAttached
  /\ Step(h, "idle", [pc |-> "signature", attached |-> wanted])
  /\ UNCHANGED <<attachment, file, given, signature, signed, message, faulty, bereft>>

\* resolveSignatureHtml(): the default, as the composer leaves it to the server, or none
ResolveSignature(h) ==
  /\ Step(h, "signature", [pc |-> "insert", attached |-> served[h].attached,
                           signed |-> {s.id : s \in DefaultSignature}])
  /\ UNCHANGED <<attachment, file, given, signature, signed, message, faulty, bereft>>

\* createMany(): what was looked up is kept, the attachments by reference.
CreateMessage(h) ==
  /\ Step(h, "insert", AtRest)
  /\ message' = [state |-> "queued", attached |-> served[h].attached, signed |-> served[h].signed]
  /\ UNCHANGED <<attachment, file, given, signature, signed, faulty, bereft>>

\* findAttachmentsByIds() of the worker
LoadRecords ==
  /\ message.state = "queued"
  /\ message' = [state |-> "loading", attached |-> message.attached, signed |-> message.signed,
                 found |-> Found(message.attached)]
  /\ UNCHANGED <<attachment, file, given, signature, signed, served, faulty, bereft>>

\* get() of each, and the message is sent with what was found
LoadFiles ==
  /\ message.state = "loading"
  /\ message' = [message EXCEPT !.state = IF {a.key : a \in message.found} \subseteq file THEN "sent" ELSE "stuck"]
  /\ UNCHANGED <<attachment, file, given, signature, signed, served, faulty, bereft>>

\* A request ends with an error, or with the process.
EndEarly(h) ==
  /\ served[h] # AtRest /\ served' = [served EXCEPT ![h] = AtRest]
  /\ faulty' = faulty \cup (IF served[h].pc \in {"look", "drop", "create", "unfile"} THEN {"file"} ELSE {})
                     \cup (IF served[h].pc = "sign" THEN {"signature"} ELSE {})
  /\ UNCHANGED <<attachment, file, given, signature, signed, message, bereft>>

LibraryNext ==
  \/ \E h \in Handler :
       \/ Look(h) \/ DropCopy(h) \/ CreateAttachment(h) \/ DeleteRecord(h) \/ DeleteFile(h)
       \/ ClearDefault(h) \/ CreateSignature(h) \/ ResolveSignature(h) \/ CreateMessage(h) \/ EndEarly(h)
       \/ \E b \in Bytes : Upload(h, b)
       \/ \E k \in Blob : Put(h, k)
       \/ \E a \in attachment : FindAttachment(h, a)
       \/ \E s \in Signature, isDefault \in BOOLEAN : ListSignatures(h, s, isDefault)
       \/ \E wanted \in SUBSET attachment : ResolveAttachments(h, wanted)
  \/ \E s \in signature : DeleteSignature(s)
  \/ LoadRecords \/ LoadFiles

LibrarySpec == LibraryInit /\ [][LibraryNext]_libraryVars

-----------------------------------------------------------------------------
(***************************************************************************)
(* Properties.                                                             *)
(***************************************************************************)

Working == {h \in Handler : served[h] # AtRest}

(***************************************************************************)
(* Every attachment of the library has its file, wherever a request ends,  *)
(* and each of its own; and once nothing is under way no file is left      *)
(* without a record, unless a request ended between the two.               *)
(***************************************************************************)
FilesMatchRecords ==
  /\ {a.key : a \in attachment} \subseteq file
  /\ \A a, b \in attachment : a.key = b.key => a = b
  /\ Working = {} /\ "file" \notin faulty => file = {a.key : a \in attachment}

(***************************************************************************)
(* "The first signature becomes the default so composing always has one"   *)
(* (email.service.ts:136): whoever has signatures has one default, however *)
(* two creations interleave, as long as no default is deleted (it is not   *)
(* replaced) and no creation ends after it has cleared the old default.    *)
(* While a new default stands between the two (email.service.ts:139-148)   *)
(* composing finds none, which is excepted.                                *)
(***************************************************************************)
ComposingHasASignature ==
  ~bereft /\ "signature" \notin faulty /\ signature # {} /\ Standing = {} => Cardinality(DefaultSignature) = 1

(***************************************************************************)
(* "A missing object must not silently drop the attachment"                *)
(* (email.worker.ts:164): a message whose attachments are all still in the *)
(* library is sent, and with each of them, however uploads of the same     *)
(* bytes and deletions interleave with it.  One that was deleted before    *)
(* the message was sent is left out without a word.                        *)
(***************************************************************************)
KeptIsSent ==
  message.state \in {"sent", "stuck"} /\ message.attached \subseteq attachment =>
    message.state = "sent" /\ message.found = message.attached

(***************************************************************************)
(* What the library answers for: the files and the signature of a message. *)
(***************************************************************************)
LibraryIsWhole == FilesMatchRecords /\ ComposingHasASignature /\ KeptIsSent

==============================================================================
