---------------------------- MODULE AudioLibrary ----------------------------
(***************************************************************************)
(* The audio library: tracks are rows in the database and objects in the   *)
(* object store, written and removed one after the other, with nothing to  *)
(* undo one when the other fails but a best-effort removal.                *)
(*                                                                         *)
(* An upload names its track: its row's id and its object's key are fresh. *)
(***************************************************************************)
EXTENDS Identifiers

CONSTANT Track  \* the uploads that are ever made

VARIABLES
  tracks,      \* audio_tracks
  objects,     \* the keys that the object store holds
  begun,       \* the uploads whose object has been sent
  audioCalls,  \* the handlers at work between the database and the store
  unacked      \* history: tracks whose commit reached the database but not the handler

audioVars == <<tracks, objects, begun, audioCalls, unacked>>

NoTrack == [project |-> None, source |-> "none", tags |-> "none"]
TrackRow ==
  [project : Project \cup {None}, source : {"manual", "imported"}, tags : {"given", "edited"}]
AudioCall ==
  [t : Track, project : Project \cup {None}, import : BOOLEAN,
   at : {"insert", "cleanup", "patch", "remove"}]

AudioInit ==
  /\ tracks = [t \in Track |-> NoTrack]
  /\ objects = {} /\ begun = {} /\ audioCalls = {} /\ unacked = {}

Stored(t) == tracks[t] # NoTrack
AudioGoes(c, at) == audioCalls' = (audioCalls \ {c}) \cup {[c EXCEPT !.at = at]}
AudioReturns(c) == audioCalls' = audioCalls \ {c}

\* UploadTrack and both imports send the object before anything else...
PutObject(t, p, import) ==
  /\ t \notin begun
  /\ begun' = begun \cup {t}
  /\ objects' = objects \cup {t}
  /\ audioCalls' = audioCalls \cup {[t |-> t, project |-> p, import |-> import, at |-> "insert"]}
  /\ UNCHANGED <<tracks, unacked>>

\* ... and return if that fails, whether or not the store kept it.
PutFails(t) ==
  /\ t \notin begun
  /\ begun' = begun \cup {t}
  /\ objects' \in {objects, objects \cup {t}}
  /\ UNCHANGED <<tracks, audioCalls, unacked>>

\* The transaction commits.  The row's project must be among those known.  If the commit's
\* answer is lost the handler takes it for a failure.
InsertTrack(c, known) ==
  /\ c.at = "insert"
  /\ c.project \in known \cup {None}
  /\ tracks' = [tracks EXCEPT ![c.t] = [project |-> c.project, source |-> "manual",
                                        tags |-> "given"]]
  /\ \/ /\ IF c.import THEN AudioGoes(c, "patch") ELSE AudioReturns(c)
        /\ unacked' = unacked
     \/ /\ AudioGoes(c, "cleanup")
        /\ unacked' = unacked \cup {c.t}
  /\ UNCHANGED <<objects, begun>>

\* NewTrack refuses the fields, or the database the row.
InsertFails(c) ==
  /\ c.at = "insert"
  /\ AudioGoes(c, "cleanup")
  /\ UNCHANGED <<tracks, objects, begun, unacked>>

\* RemoveObject's error is ignored.
RemoveObject(c) ==
  /\ c.at \in {"cleanup", "remove"}
  /\ objects' \in {objects, objects \ {c.t}}
  /\ AudioReturns(c)
  /\ UNCHANGED <<tracks, begun, unacked>>

\* Mutant: the row is saved as the first transaction made it, without looking at it again.
SaveSource(c) ==
  /\ c.at = "patch"
  /\ tracks' = [tracks EXCEPT ![c.t] = [project |-> c.project, source |-> "imported",
                                        tags |-> "given"]]
  /\ AudioReturns(c)
  /\ UNCHANGED <<objects, begun, unacked>>

\* The second transaction of an import locks the row it stamps; a row deleted since is an
\* error, as is any failure, and leaves the track as uploaded.
PatchSource(c) ==
  /\ c.at = "patch"
  /\ \/ Stored(c.t) /\ tracks' = [tracks EXCEPT ![c.t].source = "imported"]
     \/ tracks' = tracks
  /\ AudioReturns(c)
  /\ UNCHANGED <<objects, begun, unacked>>

RetagTrack(t) ==
  /\ Stored(t)
  /\ tracks' = [tracks EXCEPT ![t].tags = "edited"]
  /\ UNCHANGED <<objects, begun, audioCalls, unacked>>

\* The row goes first; if the commit's answer is lost the object stays.
DeleteTrack(t) ==
  /\ Stored(t)
  /\ tracks' = [tracks EXCEPT ![t] = NoTrack]
  /\ \/ audioCalls' = audioCalls \cup {[t |-> t, project |-> tracks[t].project,
                                        import |-> FALSE, at |-> "remove"]}
     \/ audioCalls' = audioCalls
  /\ UNCHANGED <<objects, begun, unacked>>

\* Deleting a project deletes its tracks' rows; nothing removes their objects.
CascadeTracks(p) ==
  /\ tracks' = [t \in Track |-> IF tracks[t].project = p THEN NoTrack ELSE tracks[t]]
  /\ UNCHANGED <<objects, begun, audioCalls, unacked>>

\* The API process dies: handlers stop where they are.
CrashAudio ==
  /\ audioCalls' = {}
  /\ UNCHANGED <<tracks, objects, begun, unacked>>

AudioStep(c, known) == InsertTrack(c, known) \/ InsertFails(c) \/ RemoveObject(c) \/ PatchSource(c)

AudioNext ==
  \/ \E t \in Track : PutFails(t) \/ RetagTrack(t) \/ DeleteTrack(t)
  \/ \E t \in Track, p \in Project \cup {None}, import \in BOOLEAN : PutObject(t, p, import)
  \/ \E c \in audioCalls, known \in SUBSET Project : AudioStep(c, known)
  \/ \E p \in Project : CascadeTracks(p)
  \/ CrashAudio

AudioSpec == AudioInit /\ [][AudioNext]_audioVars

AudioTypeOK ==
  /\ tracks \in [Track -> TrackRow \cup {NoTrack}]
  /\ objects \subseteq Track /\ begun \subseteq Track /\ unacked \subseteq Track
  /\ audioCalls \subseteq AudioCall

\* A track in the library can be played: however uploads, imports, edits, deletions, cascades
\* and crashes interleave, the object of a row is in the store, unless the database committed
\* the row of an upload that then took its own transaction for failed.
TrackHasObject == \A t \in Track : Stored(t) /\ t \notin unacked => t \in objects
=============================================================================
