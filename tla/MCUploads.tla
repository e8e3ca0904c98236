----------------------------- MODULE MCUploads -----------------------------
(* Small instances of Uploads. *)
EXTENDS Uploads

PublishTemplate == <<"script", "image", "assemble", "caption", "upload">>
Template == [i \in 0..4 |-> PublishTemplate[i + 1]]

Answer(r, i) == [step |-> i, version |-> r.version[i], panel |-> 0]

\* The run when its caption has just been requested: each step done in turn.
AtCaption(review) ==
  LET r0 == StartedRun([auto |-> TRUE, review |-> review, mode |-> "none", cap |-> 0])
      r1 == Advance(Close(r0, Answer(r0, 0), 1, 0), 0)
      r2 == Advance(CompleteImage(Fill(r1, Answer(r1, 1), 0), 1), 1)
  IN  Advance(Close(r2, Answer(r2, 2), 0, 0), 2)

\* The same run once its upload has been requested.
AtUpload == LET r == AtCaption(FALSE) IN Advance(Close(r, Answer(r, 3), 0, 0), 3)

\* The metadata CreateRun gives its record, and what users make of it.
Given == [NoMetadata EXCEPT !.visibility = "public"]
Written == [text |-> "user", kids |-> FALSE, visibility |-> "private"]

Base ==
  [run |-> AtCaption(FALSE), recs |-> <<NewUploadRecord(0, "platform", Given)>>,
   rows |-> <<>>, youtube |-> TRUE, api |-> FALSE, selenium |-> TRUE,
   visibility |-> "private", edits |-> {Written},
   limit |-> [n |-> 0, w |-> 2, gap |-> 0], methods |-> {"auto"}, users |-> {},
   commands |-> 0, captions |-> 0, failures |-> 0, claims |-> 0, horizon |-> Horizon]

\* Users review a captioned run; results and captions are applied meanwhile.
Review ==
  {[Base EXCEPT !.run = AtCaption(TRUE), !.users = {"edit", "approve", "reject"},
                !.visibility = "public", !.commands = 3, !.captions = 1],
   [Base EXCEPT !.run = AtCaption(TRUE), !.users = {"edit", "approve"},
                !.commands = 2, !.captions = 1, !.failures = 1],
   [Base EXCEPT !.run = AtCaption(FALSE), !.visibility = "none", !.users = {"edit", "promote", "reject"},
                !.commands = 2, !.captions = 2]}

\* The run's own upload twice, by one worker or by two; and once, with a scheduled upload
\* at the same time.
Twice ==
  {[Base EXCEPT !.run = AtUpload, !.visibility = "public", !.users = {"regenerate", "approve"},
                !.commands = c[1], !.failures = c[2], !.claims = c[3]] :
     c \in {<<2, 0, 0>>, <<1, 0, 1>>, <<0, 1, 2>>}}
Both ==
  {[Base EXCEPT !.run = AtUpload, !.rows = <<NewRow(1, "auto")>>, !.visibility = "public",
                !.users = c[1], !.commands = c[2], !.captions = c[3], !.failures = c[4],
                !.claims = c[5], !.horizon = 1] :
     c \in {<<{"cancel", "unschedule"}, 1, 0, 0, 0>>, <<{}, 0, 1, 0, 0>>, <<{}, 0, 0, 1, 0>>,
            <<{}, 0, 0, 0, 1>>}}

\* A scheduled upload while the run's own waits for review.
Scheduled ==
  {[Base EXCEPT !.run = AtCaption(TRUE), !.rows = <<NewRow(1, "auto")>>, !.users = {"approve"},
                !.commands = 1, !.captions = 1, !.horizon = 1]}

\* Rows due together, or one after the other, on any kind of account.
Accounts ==
  {<<TRUE, TRUE, TRUE>>, <<TRUE, TRUE, FALSE>>, <<TRUE, FALSE, TRUE>>,
   <<TRUE, FALSE, FALSE>>, <<FALSE, FALSE, TRUE>>}
Rows ==
  {[Base EXCEPT !.rows = <<NewRow(2, m), NewRow(1, "auto")>>, !.recs = <<>>,
                !.youtube = a[1], !.api = a[2], !.selenium = a[3]] :
     m \in Method, a \in Accounts}
RowsFail ==
  {[Base EXCEPT !.rows = <<NewRow(1, "auto"), NewRow(1, "auto")>>, !.recs = <<>>,
                !.users = {"unschedule", "cancel"}, !.commands = 1 - f, !.failures = f,
                !.horizon = 1] :
     f \in {0, 1}}

\* Users fill the account's slots.
Limits ==
  {[n |-> 1, w |-> 2, gap |-> 0], [n |-> 3, w |-> 2, gap |-> 1], [n |-> 2, w |-> 1, gap |-> 3]}
Schedules ==
  {[Base EXCEPT !.recs = <<>>, !.limit = l, !.users = {"schedule", "reschedule"},
                !.rows = <<NewRow(1, "auto")>>, !.commands = IF l.gap = 1 THEN 2 ELSE 3,
                !.horizon = 0] : l \in Limits}

\* The same from an empty schedule.
EmptySchedules == {[s EXCEPT !.rows = <<>>] : s \in Schedules}

AllScenes == Review \cup Twice \cup Both \cup Scheduled \cup Rows \cup RowsFail \cup Schedules
=============================================================================
