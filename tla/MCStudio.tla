------------------------------ MODULE MCStudio ------------------------------
(* A small studio, in scenes that each let some of its components act. *)
EXTENDS Studio

Maybe(field, values) == {NoSettings} \cup {(field :> v) : v \in values}
Also(settings, more) == {s @@ m : s \in settings, m \in more}

-----------------------------------------------------------------------------
(* Templates *)

Script == NewStep("script", "panel_count" :> 4)
Image == NewStep("image", ("image_model" :> "template") @@ ("style_reference" :> "none"))
Plain(kind) == NewStep(kind, NoSettings)
Assemble == NewStep("assemble", "fps" :> 12)

Comic == <<Script, Image, Assemble>>
Published == <<Script, Image, NewStep("audio", "voice_id" :> "template"), Assemble,
               Plain("caption"), Plain("upload")>>
Scored == <<Plain("script"), Image, Plain("music"), Assemble>>
Pictures == <<Script, Image>>

AllStepLists == {Comic, Published, Scored, Pictures}

-----------------------------------------------------------------------------
(* What there is at first *)

Account1 == [platform |-> "youtube_selenium", profile |-> "s1", tokens |-> FALSE]
Account2 == [platform |-> "tiktok_selenium", profile |-> None, tokens |-> FALSE]
LinkOf(a, default) == [project |-> "p1", account |-> a, default |-> default, committed |-> TRUE]

Bare ==
  [projects |-> [p \in Project |-> IF p = "p1" THEN NoSettings ELSE None],
   accounts |-> [a \in Account |-> None], links |-> << >>,
   sheets |-> [s \in Sheet |-> None], plots |-> {},
   templates |-> [t \in Template |-> IF t = "t1" THEN [steps |-> Comic, is_test |-> FALSE]
                                     ELSE None],
   saved |-> [f \in FormatId |-> IF f = "manga" THEN TRUE ELSE None],
   records |-> [r \in Run |-> None], runs |-> [r \in Run |-> None]]

Starting(defaults, lists) ==
  {[Bare EXCEPT !.projects["p1"] = d, !.templates["t1"].steps = l] : d \in defaults, l \in lists}
WithAccounts(starts, linksets) ==
  {[s EXCEPT !.accounts["a1"] = Account1, !.accounts["a2"] = Account2, !.links = l] :
     s \in starts, l \in linksets}

PlainAsk ==
  [template |-> "t1", project |-> "p1", format |-> None, ov |-> NoSettings, language |-> None,
   characters |-> {}, environments |-> {}, plot |-> FALSE]
Asks(overrides, formats) ==
  {[PlainAsk EXCEPT !.ov = o, !.format = f] : o \in overrides, f \in formats}

Nothing ==
  [k \in {"project", "sheet", "account", "link", "template", "track", "login", "view", "run",
          "upload", "hour", "failure", "crash",
          "answer", "approval", "firing", "deletion", "cleanup", "page"} |-> 0]
SceneOf(start, asks, allowed) ==
  [start |-> start, asks |-> asks, templates |-> {Comic, Pictures}, defaults |-> {NoSettings},
   budget |-> allowed @@ Nothing]
Once == "run" :> 1

-----------------------------------------------------------------------------
(* One run, asked for in many ways *)

LookDefaults ==
  Also(Maybe("image_model", {"project"}),
       Also(Maybe("fps", {25}), Also(Maybe("format_id", {"noir", "mine"}),
                                     Maybe("primary_format", {"shorts"}))))
LookAsks ==
  Asks(Also(Maybe("image_model", {"user"}), Also(Maybe("fps", {60}), Maybe("transition", {"cut"}))),
       {None, "manga", "indie_alt", "mine"})

LengthDefaults ==
  Also(Maybe("panel_count", {5}),
       Also(Maybe("target_duration_ms", {9000}), Maybe("system_prompt", {<<"project">>})))
LengthAsks ==
  Asks(Also(Maybe("panel_count", {3}),
            Also(Maybe("target_duration_ms", {10000}),
                 Also(Maybe("assemble_panel_duration_ms", {1500}),
                      Maybe("system_prompt", {<<"user">>})))), {None, "manga"})

SoundDefaults ==
  Also(Maybe("enable_audio", BOOLEAN), Also(Maybe("voice_id", {"project"}),
                                            Maybe("auto_assemble", {FALSE})))
SoundAsks ==
  Asks(Also(Maybe("enable_audio", BOOLEAN), Also(Maybe("voice_id", {"user"}),
                                                 Maybe("preferred_mood", {"calm"}))), {None})
  \cup Asks({"steps" :> Scored}, {None, "manga"})
  \cup {[PlainAsk EXCEPT !.language = "ru"], [PlainAsk EXCEPT !.project = None]}

Upload == ("upload" :> TRUE)
UploadDefaults ==
  {NoSettings, Upload} \cup
  Also({Upload @@ ("enabled" :> TRUE) @@ ("language" :> "fr")},
       Also(Maybe("provider", {"tiktok_selenium"}), Maybe("social_account_ids", {<<"a2">>, <<"a3">>})))
  \cup {Upload @@ ("visibility" :> "public") @@ ("review_mode" :> "review")}
UploadAsks ==
  Asks({NoSettings, "steps" :> Published} \cup
       Also({Upload}, Also(Maybe("enabled", BOOLEAN),
                           Also(Maybe("provider", {"youtube_selenium", "twitter"}),
                                Maybe("social_account_ids", {<<"a1">>, <<"a3">>})))), {None})
LinkSets ==
  {<< >>, <<LinkOf("a1", FALSE), LinkOf("a2", FALSE)>>, <<LinkOf("a1", FALSE), LinkOf("a2", TRUE)>>,
   <<LinkOf("a2", TRUE), LinkOf("a1", TRUE)>>}

-----------------------------------------------------------------------------
(* Runs of what users change at the same time *)

StoryStart ==
  [Bare EXCEPT !.projects["p1"] = "panel_count" :> 5, !.plots = {"p1"},
               !.sheets["s1"] = [project |-> "p1", kind |-> "character"],
               !.sheets["s2"] = [project |-> "p1", kind |-> "environment"]]
StoryAsks == {PlainAsk, [PlainAsk EXCEPT !.characters = {"s1", "s3"}, !.plot = TRUE],
              [PlainAsk EXCEPT !.environments = {"s2"}, !.project = "p2"]}

LinkStart ==
  [Bare EXCEPT !.accounts["a1"] = Account1, !.accounts["a2"] = Account1]

-----------------------------------------------------------------------------
(* Metrics *)

Measured(provider, ref) == [account |-> "a1", provider |-> provider, ref |-> ref]
Published1 ==
  [ask |-> None, template |-> "t1", project |-> "p1", steps |-> Published, auto |-> TRUE,
   language |-> "en", review |-> FALSE, context |-> [sheets |-> {}, plot |-> FALSE]]
WithRecords(a, b, c) ==
  [Bare EXCEPT !.accounts["a1"] = Account1, !.runs = [r \in Run |-> Published1],
               !.records = ("r1" :> a) @@ ("r2" :> b) @@ ("r3" :> c)]
YouTube == Measured("youtube_selenium", TRUE)
TikTok == Measured("tiktok_selenium", TRUE)
MetricsStarts ==
  {WithRecords(YouTube, TikTok, Measured("twitter", FALSE)), WithRecords(TikTok, TikTok, YouTube)}

-----------------------------------------------------------------------------
(* One run in the database *)

KindOfCommand ==
  [answer1 |-> "answer", answer2 |-> "answer", approval1 |-> "approval", approval2 |-> "approval",
   firing1 |-> "firing", deletion1 |-> "deletion"]
AllCommands == DOMAIN KindOfCommand

-----------------------------------------------------------------------------
Story ==
  [SceneOf({StoryStart}, StoryAsks, Once @@ ("project" :> 1) @@ ("sheet" :> 2))
     EXCEPT !.defaults = {NoSettings, "panel_count" :> 3}]

AllScenes ==
  [look |-> SceneOf(Starting(LookDefaults, {Comic}), LookAsks, Once),
   length |-> SceneOf(Starting(LengthDefaults, {Comic, Scored}), LengthAsks, Once),
   sound |-> SceneOf(Starting(SoundDefaults, {Comic, Published, Pictures}), SoundAsks, Once),
   upload |-> SceneOf(WithAccounts(Starting(UploadDefaults, {Comic, Published}), LinkSets),
                      UploadAsks, Once),
   story |-> Story,
   templates |-> SceneOf({Bare}, {PlainAsk}, ("template" :> 3) @@ ("run" :> 2) @@ ("crash" :> 1)),
   links |-> SceneOf({LinkStart}, {}, ("link" :> 3) @@ ("account" :> 1) @@ ("crash" :> 1)),
   cascade |-> SceneOf({LinkStart}, {}, ("link" :> 2) @@ ("project" :> 1)),
   logins |-> SceneOf({Bare}, {}, ("login" :> 3) @@ ("crash" :> 1)),
   viewers |-> SceneOf({Bare}, {}, ("login" :> 2) @@ ("view" :> 2) @@ ("crash" :> 1)),
   audio |-> SceneOf({Bare}, {}, ("track" :> 3) @@ ("project" :> 1) @@ ("crash" :> 1)),
   metrics |-> SceneOf(MetricsStarts, {}, ("upload" :> 1) @@ ("hour" :> 1) @@ ("failure" :> 1)),
   forgotten |-> SceneOf({WithRecords(TikTok, YouTube, None)}, {},
                         ("run" :> 1) @@ ("account" :> 1) @@ ("crash" :> 1)),
   watched |-> SceneOf({Bare}, {}, ("answer" :> 2) @@ ("deletion" :> 1) @@ ("page" :> 1)),
   locks |-> SceneOf({Bare}, {}, ("answer" :> 1) @@ ("approval" :> 2) @@ ("firing" :> 1)
                                 @@ ("deletion" :> 1))]
AllNames == DOMAIN AllScenes

AllDefaults ==
  {NoSettings, "panel_count" :> 3, "panel_count" :> 5} \cup LookDefaults \cup LengthDefaults
  \cup SoundDefaults \cup UploadDefaults
=============================================================================
