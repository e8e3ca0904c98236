---------------------------- MODULE UploadRecord ----------------------------
(***************************************************************************)
(* The UploadRecord aggregate: what the studio believes about one          *)
(* publication of a video.  A record is a TLA+ record; each operator       *)
(* returns what a method of `pipeline.UploadRecord` leaves behind, and     *)
(* those of the methods that return early leave the record as it is.       *)
(*                                                                         *)
(* Of the metadata three things are kept: where the text comes from (given *)
(* when the record was created, written by the caption LLM, or by the      *)
(* user), whether the video is made for kids, and its visibility.  The     *)
(* "#Shorts" that Approve may add to a text is left out.                   *)
(* MarkUploading, SetPlatformTarget and AppendMusicAttribution have no     *)
(* callers; "uploading" is therefore no state of a record.                 *)
(***************************************************************************)
EXTENDS Integers, Sequences

\* One upload the worker is asked for: version v of the run's own upload step
\* (row 0), or scheduled row k.  External references name the job they came from.
Job == [row : Nat, version : Nat]
NoJob == [row |-> 0, version |-> 0]
OwnJob(v) == [row |-> 0, version |-> v]
RowJob(k) == [row |-> k, version |-> 0]

UploadStatus ==
  {"pending", "metadata_ready", "pending_review", "approved", "rejected",
   "uploaded", "published", "failed"}
UploadProvider == {"platform", "youtube_api", "youtube_selenium"}
Text == {"none", "given", "llm", "user"}
Visibility == {"none", "private", "public"}  \* "none": the empty string

\* UploadMetadata.
Metadata == [text : Text, kids : BOOLEAN, visibility : Visibility]
NoMetadata == [text |-> "none", kids |-> FALSE, visibility |-> "none"]

\* row: the scheduled row a tick made the record for, 0 for the record CreateRun
\* made.  Only the latter carries a project.
Record ==
  [row : Nat, status : UploadStatus, provider : UploadProvider,
   metadata : Metadata, overridden : BOOLEAN, ref : Job]

NewUploadRecord(k, provider, meta) ==
  [row |-> k, status |-> "pending", provider |-> provider,
   metadata |-> meta, overridden |-> FALSE, ref |-> NoJob]

Done == {"uploaded", "published"}
AwaitingReview == {"pending_review", "metadata_ready"}

\* A public video is published at once.  The visibility it was uploaded with takes the
\* place of the record's, unless the worker names none.
MarkUploaded(r, ref, final) ==
  [r EXCEPT !.ref = ref,
            !.status = IF final = "public" THEN "published" ELSE "uploaded",
            !.metadata.visibility = IF final # "none" THEN final ELSE @]

MarkFailed(r) == [r EXCEPT !.status = "failed"]

PromoteToPublished(r) ==
  IF r.status = "uploaded"
  THEN [r EXCEPT !.status = "published", !.metadata.visibility = "public"] ELSE r

\* Mutant: an edited record takes the LLM's text.
ApplyLLMOverEdit(r, kids, requireReview) ==
  [r EXCEPT !.metadata.text = "llm"]

\* The LLM fills the texts that are empty, unless the user locked the record; raises the
\* made-for-kids flag, locked or not; and moves a pending record on.
ApplyLLMMetadata(r, kids, requireReview) ==
  [r EXCEPT !.metadata.text = IF ~r.overridden /\ @ = "none" THEN "llm" ELSE @,
            !.metadata.kids = @ \/ kids,
            !.status = CASE @ = "pending" /\ requireReview -> "pending_review"
                         [] @ = "pending" /\ ~requireReview -> "metadata_ready"
                         [] OTHER -> @]

OverrideMetadata(r, meta) == [r EXCEPT !.metadata = meta, !.overridden = TRUE]

Approve(r) == [r EXCEPT !.status = IF @ \in AwaitingReview THEN "approved" ELSE @]

Reject(r) == [r EXCEPT !.status = IF @ \in Done THEN @ ELSE "rejected"]
=============================================================================
