-------------------------------- MODULE Files --------------------------------
(***************************************************************************)
(* A file in the bucket and the record that names it: a driver's document, *)
(* a profile photo, a campaign's image or what is attached to a support    *)
(* ticket.  All records but the campaigns' are kept by the drivers and     *)
(* customers services, outside this program.  A step is one call of        *)
(* S3Service or of the service that keeps the record.                      *)
(***************************************************************************)
EXTENDS FiniteSets

CONSTANTS
    Keys,      \* file keys: every upload makes a new one
    Requests, NoKey

VARIABLES
    kind,      \* what the file is
    record,    \* the key in the record, or NoKey
    stored,    \* the keys in the bucket
    fresh,     \* keys no upload has taken yet
    work,      \* work[r]: the request r is serving: its step, its new key and
               \* the key it is to delete
    dropping,  \* deletions of old images that nobody waits for
    replaced   \* history: images a replacement has set out to delete

vars == <<kind, record, stored, fresh, work, dropping, replaced>>

Kinds == {"document", "image", "driver photo", "customer photo",
          "driver ticket", "customer ticket"}
Steps == {"unrecord", "drop", "store", "record"}
Works == [at : Steps, new : Keys \cup {NoKey}, old : Keys \cup {NoKey}]
Idle == [at |-> "none", new |-> NoKey, old |-> NoKey]

TypeOK ==
    /\ kind \in Kinds
    /\ record \in Keys \cup {NoKey}
    /\ stored \subseteq Keys \ fresh
    /\ work \in [Requests -> Works \cup {Idle}]
    /\ dropping \subseteq Keys /\ replaced \subseteq Keys

Init ==
    /\ kind \in Kinds
    /\ record = NoKey /\ stored = {} /\ fresh = Keys
    /\ work = [r \in Requests |-> Idle]
    /\ dropping = {} /\ replaced = {}

Starts(r, at, new, old) ==
    /\ work[r] = Idle
    /\ work' = [work EXCEPT ![r] = [at |-> at, new |-> new, old |-> old]]

Goes(r, at) == work' = [work EXCEPT ![r].at = at]
Ends(r) == work' = [work EXCEPT ![r] = Idle]

\* After the old file is out of the way, an upload stores the new one.
GoesOn(r) == IF work[r].new = NoKey THEN Ends(r) ELSE Goes(r, "store")

---------------------------------------------------------------------------
\* Mutant: the key is the file's name alone, which the next upload may have too.
UploadDocumentByName(r, k) ==
    /\ kind = "document"
    /\ k \in fresh
    /\ Starts(r, IF record = NoKey THEN "store" ELSE "unrecord", k, NoKey)
    /\ UNCHANGED <<kind, record, stored, fresh, dropping, replaced>>

\* DriversController.uploadFile, up to checkFileExists
UploadDocument(r, k) ==
    /\ kind = "document"
    /\ k \in fresh /\ fresh' = fresh \ {k}
    /\ Starts(r, IF record = NoKey THEN "store" ELSE "unrecord", k, NoKey)
    /\ UNCHANGED <<kind, record, stored, dropping, replaced>>

\* DriversController.deleteFile, up to checkFileExists
DeleteDocument(r) ==
    /\ kind = "document" /\ record # NoKey
    /\ Starts(r, "unrecord", NoKey, NoKey)
    /\ UNCHANGED <<kind, record, stored, fresh, dropping, replaced>>

\* The drivers service deletes the record and answers with the key in it.
Unrecord(r) ==
    /\ work[r].at = "unrecord"
    /\ record' = NoKey
    /\ IF record = NoKey
       THEN GoesOn(r)
       ELSE work' = [work EXCEPT ![r].at = "drop", ![r].old = record]
    /\ UNCHANGED <<kind, stored, fresh, dropping, replaced>>

\* Mutant: the file that is recorded by now is deleted.
DropRecorded(r) ==
    /\ work[r].at = "drop"
    /\ stored' = stored \ {work[r].old, record}
    /\ GoesOn(r)
    /\ UNCHANGED <<kind, record, fresh, dropping, replaced>>

\* S3Service.deleteFile
Drop(r) ==
    /\ work[r].at = "drop"
    /\ stored' = stored \ {work[r].old}
    /\ GoesOn(r)
    /\ UNCHANGED <<kind, record, fresh, dropping, replaced>>

\* S3Service.uploadFileWithKey
Store(r) ==
    /\ work[r].at = "store"
    /\ stored' = stored \cup {work[r].new}
    /\ Goes(r, "record")
    /\ UNCHANGED <<kind, record, fresh, dropping, replaced>>

\* notifyFileUploaded, updatePhoto, createSupportTicket, CampaignsService.update
\* or create: the key that was recorded is overwritten, its file stays.
Record(r) ==
    /\ work[r].at = "record"
    /\ record' = work[r].new
    /\ Ends(r)
    /\ UNCHANGED <<kind, stored, fresh, dropping, replaced>>

---------------------------------------------------------------------------
\* A new key is taken; the file is stored under it before anything is recorded.
StoresNew(what, r, k) ==
    /\ kind = what
    /\ k \in fresh /\ fresh' = fresh \ {k}
    /\ Starts(r, "store", k, NoKey)
    /\ UNCHANGED <<kind, record, stored>>

\* uploadProfilePhoto, of DriversController and of CustomersController
UploadDriverPhoto(r, k) ==
    StoresNew("driver photo", r, k) /\ UNCHANGED <<dropping, replaced>>
UploadCustomerPhoto(r, k) ==
    StoresNew("customer photo", r, k) /\ UNCHANGED <<dropping, replaced>>

\* deleteProfilePhoto: the file stays.
Forgets(what) ==
    /\ kind = what /\ record # NoKey
    /\ record' = NoKey
    /\ UNCHANGED <<kind, stored, fresh, work, dropping, replaced>>

DeleteDriverPhoto == Forgets("driver photo")
DeleteCustomerPhoto == Forgets("customer photo")

\* A support ticket is made once: its record is never overwritten.
Attaches(what, r, k) ==
    /\ record = NoKey /\ \A q \in Requests : work[q] = Idle
    /\ StoresNew(what, r, k)
    /\ UNCHANGED <<dropping, replaced>>

CreateTicket(r, k) == Attaches("customer ticket", r, k)
CreateDriverTicket(r, k) == Attaches("driver ticket", r, k)

\* AdminCampaignsService.createCampaign
CreateCampaign(r, k) ==
    /\ record = NoKey
    /\ StoresNew("image", r, k)
    /\ UNCHANGED <<dropping, replaced>>

\* updateCampaign with an image: the old image is deleted without waiting,
\* before the new one is stored.
UpdateCampaign(r, k) ==
    /\ record # NoKey
    /\ StoresNew("image", r, k)
    /\ dropping' = dropping \cup {record}
    /\ replaced' = replaced \cup {record}

\* That deletion is done, or fails and its error is swallowed.
DropImage(k) ==
    /\ k \in dropping
    /\ dropping' = dropping \ {k}
    /\ stored' \in {stored, stored \ {k}}
    /\ UNCHANGED <<kind, record, fresh, work, replaced>>

\* AdminCampaignsService.deleteCampaign: the image stays.
DeleteCampaign == Forgets("image")

\* The next call throws (a campaign's update may also be refused), or the
\* server dies.
Fail(r) ==
    /\ work[r] # Idle
    /\ Ends(r)
    /\ UNCHANGED <<kind, record, stored, fresh, dropping, replaced>>

Next ==
    \/ \E r \in Requests :
          \/ \E k \in Keys : \/ UploadDocument(r, k)
                            \/ UploadDriverPhoto(r, k) \/ UploadCustomerPhoto(r, k)
                            \/ CreateTicket(r, k) \/ CreateDriverTicket(r, k)
                            \/ CreateCampaign(r, k) \/ UpdateCampaign(r, k)
          \/ DeleteDocument(r) \/ Unrecord(r) \/ Drop(r) \/ Store(r) \/ Record(r) \/ Fail(r)
    \/ DeleteDriverPhoto \/ DeleteCustomerPhoto \/ DeleteCampaign
    \/ \E k \in Keys : DropImage(k)

Spec == Init /\ [][Next]_vars

---------------------------------------------------------------------------
\* A recorded file is in the bucket, whichever uploads and deletions overlap
\* or stop half-way.  Only a campaign may name an image that is gone: one whose
\* replacement has been started.
RecordedIsStored == record # NoKey => record \in stored \cup replaced
=============================================================================
