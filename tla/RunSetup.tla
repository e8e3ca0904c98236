------------------------------ MODULE RunSetup ------------------------------
(***************************************************************************)
(* How CreateRun turns a template into the steps of a run: the format, the *)
(* project's settings and the user's overrides fill each other's gaps,     *)
(* steps are added and taken away, a social account is picked, and the     *)
(* upload step gets its metadata.                                          *)
(*                                                                         *)
(* Settings are functions from the names that are stated to their values:  *)
(* what Go leaves at its zero value is outside the domain.  The fields of  *)
(* nested blocks are named on their own; the one block whose presence      *)
(* alone matters has the field "upload".  A system prompt is the sequence  *)
(* of the texts it is put together from.                                   *)
(***************************************************************************)
EXTENDS Integers, Sequences, SequencesExt, Functions, Identifiers

Stated(settings, fields) == Restrict(settings, DOMAIN settings \cap fields)
States(settings, f) == f \in DOMAIN settings
NoSettings == << >>

\* Settings whose gaps others fill.
settings ++ others ==
  [f \in DOMAIN settings \cup DOMAIN others |->
     IF States(settings, f) THEN settings[f] ELSE others[f]]

-----------------------------------------------------------------------------
(* The built-in formats: names stand for the texts *)

Look(fps, width, height, ms, transition) ==
  [fps |-> fps, width |-> width, height |-> height, codec |-> "h264",
   panel_duration_ms |-> ms, transition |-> transition]
Style(id, model, reference) ==
  [script_system_suffix |-> <<id>>, image_prompt_prefix |-> id, image_prompt_suffix |-> id,
   image_model |-> model, style_reference |-> reference]

System ==
  [slideshow |-> Look(30, 1080, 1080, 2500, "crossfade"),
   manga |-> Look(24, 1080, 1920, 3500, "wipe") ++ Style("manga", "flux-2/edit", "anchor"),
   webtoon |-> Look(30, 1080, 1920, 4000, "fade") ++ Style("webtoon", "flux-2/edit", "anchor"),
   american_superhero |-> Look(30, 1080, 1080, 3000, "slide") ++
                          Style("superhero", "flux-2/edit", "anchor"),
   ligne_claire |-> Look(30, 1440, 1080, 3000, "crossfade") ++
                    Style("ligne claire", "flux-2/edit", "anchor"),
   indie_alt |-> Look(30, 1080, 1080, 3500, "fade") ++ Style("indie", "flux/schnell", "none"),
   graphic_novel |-> Look(30, 1920, 1080, 4500, "crossfade") ++
                     Style("graphic novel", "nano-banana-pro/edit", "anchor"),
   newspaper_strip |-> Look(30, 1920, 1080, 3000, "slide") ++
                       Style("strip", "flux/schnell", "anchor"),
   noir |-> Look(24, 1080, 1920, 4000, "fade") ++ Style("noir", "flux/schnell", "anchor"),
   watercolor |-> Look(30, 1080, 1080, 4000, "fade") ++
                  Style("watercolor", "flux/schnell", "anchor"),
   pixel_retro |-> Look(30, 1080, 1080, 3000, "wipe") ++ Style("pixel", "flux/schnell", "anchor"),
   cinematic_3d |-> Look(30, 1920, 1080, 4000, "crossfade") ++
                    Style("3d", "nano-banana-pro/edit", "anchor")]

\* A format that is not built in has no effect, also if users have saved one of that id.
ByID(id) == IF id \in DOMAIN System THEN System[id] ELSE NoSettings

-----------------------------------------------------------------------------
(* Layers *)

\* The fields each kind of step takes.
Takes ==
  [script |-> {"panel_count", "system_prompt", "script_model"},
   image |-> {"image_model", "style_reference", "image_prompt_prefix", "image_prompt_suffix"},
   audio |-> {"voice_id", "audio_model", "speed"},
   music |-> {"preferred_mood", "track_id"},
   assemble |-> {"fps", "width", "height", "codec", "ambient_object_key"}]

FormatFields ==
  Takes.image \cup {"panel_duration_ms", "transition", "fps", "width", "height", "codec"}
ProjectFields ==
  Takes.script \cup {"image_model", "style_reference"} \cup Takes.audio \cup Takes.assemble \cup
  {"target_duration_ms", "enable_audio", "auto_assemble",
   "upload", "enabled", "provider", "caption_model", "social_account_ids", "platforms"}

applyFormat(ov, f) ==
  LET filled == ov ++ Stated(f, FormatFields)
      own == IF States(ov, "system_prompt") THEN ov.system_prompt ELSE << >>
  IN  IF States(f, "script_system_suffix")
      THEN [system_prompt |-> own \o f.script_system_suffix] ++ filled ELSE filled

\* Mutant: the project beats the user.
ProjectFirst(ov, defaults) == Stated(defaults, ProjectFields) ++ ov

mergeProjectDefaults(ov, defaults) == ov ++ Stated(defaults, ProjectFields)

\* format_id of the command, else of the project.
FormatOf(id, defaults) ==
  IF id # None THEN ByID(id)
  ELSE IF States(defaults, "format_id") THEN ByID(defaults.format_id) ELSE NoSettings

Merged(ov, id, defaults) ==
  mergeProjectDefaults(applyFormat(ov, FormatOf(id, defaults)), defaults)

-----------------------------------------------------------------------------
(* The account.  links: the project's linked accounts, [account, platform, status, default], *)
(* in the order the query returns them: defaults first, then the older links.               *)

OnPlatform(ov, link) == States(ov, "provider") => link.platform = ov.provider

\* A default on the platform, else the first active account on it.
PickLink(ov, links) ==
  LET default == SelectInSeq(links, LAMBDA l : l.default /\ OnPlatform(ov, l))
      active == SelectInSeq(links, LAMBDA l : l.status = "active" /\ OnPlatform(ov, l))
  IN  IF default # 0 THEN default ELSE active

WithAccount(ov, links) ==
  IF States(ov, "upload") /\ ~States(ov, "social_account_ids") /\ PickLink(ov, links) # 0
  THEN [social_account_ids |-> <<links[PickLink(ov, links)].account>>] ++ ov
  ELSE ov

\* accounts: social_accounts, as a function from the ids that exist.
Resolved(ov, accounts) ==
  IF States(ov, "upload") /\ States(ov, "social_account_ids")
     /\ ov.social_account_ids[1] \in DOMAIN accounts
  THEN ov.social_account_ids[1] ELSE None

WithProvider(ov, accounts) ==
  IF Resolved(ov, accounts) = None THEN ov
  ELSE ov ++ [provider |-> accounts[Resolved(ov, accounts)].platform]

-----------------------------------------------------------------------------
(* Steps: [kind, params] *)

FirstStep(steps, kind) == SelectInSeq(steps, LAMBDA s : s.kind = kind)
LastStep(steps, kind) == SelectLastInSeq(steps, LAMBDA s : s.kind = kind)
NewStep(kind, params) == [kind |-> kind, params |-> params]

\* Sets parameters of the first step of a kind.
WithParams(steps, kind, params) ==
  LET i == FirstStep(steps, kind)
  IN  IF i = 0 THEN steps ELSE [steps EXCEPT ![i].params = params ++ @]

setAudioStep(steps, enable) ==
  LET audio == LastStep(steps, "audio")
      assemble == LastStep(steps, "assemble")
      at == IF assemble # 0 THEN assemble ELSE LastStep(steps, "image") + 1
  IN  IF enable
      THEN IF audio # 0 THEN steps ELSE InsertAt(steps, at, NewStep("audio", NoSettings))
      ELSE IF audio = 0 THEN steps ELSE RemoveAt(steps, audio)

\* An upload block that does not enable the upload takes the template's own away.
setCaptionAndUploadSteps(steps, ov) ==
  LET others == Without(steps, {s \in Range(steps) : s.kind \in {"caption", "upload"}})
  IN  IF States(ov, "enabled") /\ ov.enabled
      THEN others \o
           <<NewStep("caption", Stated(ov, {"caption_model", "platforms", "caption_override"})),
             NewStep("upload", Stated(ov, {"provider", "social_account_ids", "scheduled_at"}))>>
      ELSE others

panelCountFromScript(steps) ==
  LET i == FirstStep(steps, "script")
  IN  IF i # 0 /\ States(steps[i].params, "panel_count") THEN steps[i].params.panel_count ELSE 0

Panels(steps, ov) ==
  LET n == IF States(ov, "panel_count") THEN ov.panel_count ELSE panelCountFromScript(steps)
  IN  IF n > 0 THEN n ELSE 1

\* What the user says of the assemble step beats the target's share, and that the format.
Timing(steps, ov) ==
  (CASE States(ov, "assemble_panel_duration_ms") ->
          [panel_duration_ms |-> ov.assemble_panel_duration_ms]
     [] ~States(ov, "assemble_panel_duration_ms") /\ States(ov, "target_duration_ms") ->
          [panel_duration_ms |-> ov.target_duration_ms \div Panels(steps, ov)]
     [] OTHER -> Stated(ov, {"panel_duration_ms"})) ++
  (IF States(ov, "assemble_transition") THEN [transition |-> ov.assemble_transition]
   ELSE Stated(ov, {"transition"}))

applyOverrides(template, ov) ==
  LET audio == IF States(ov, "enable_audio") THEN setAudioStep(template, ov.enable_audio)
               ELSE template
      all == IF States(ov, "upload") THEN setCaptionAndUploadSteps(audio, ov) ELSE audio
      set == [i \in DOMAIN all |->
                IF all[i].kind \in DOMAIN Takes /\ i = FirstStep(all, all[i].kind)
                THEN [all[i] EXCEPT !.params = Stated(ov, Takes[all[i].kind]) ++ @] ELSE all[i]]
  IN  IF States(ov, "steps") THEN ov.steps
      ELSE WithParams(set, "assemble", Timing(set, ov))

-----------------------------------------------------------------------------
(* Upload metadata, and what the project says of the video *)

GlobalMeta ==
  [visibility |-> "unlisted", made_for_kids |-> FALSE, age_restriction |-> "none",
   category_id |-> "22", category_label |-> "People & Blogs", comments_enabled |-> TRUE,
   tags |-> {}, playlist_names |-> {}, headless |-> TRUE]
AccountMeta == {"visibility", "made_for_kids", "category_id", "category_label"}
ProjectMeta ==
  (DOMAIN GlobalMeta \ {"headless"}) \cup {"title", "description", "thumbnail_asset_id"}
RunMeta == ProjectMeta \cup {"headless", "scheduled_at"}

resolveUploadMeta(ov, account, defaults) ==
  Stated(ov, RunMeta) ++ Stated(defaults, ProjectMeta) ++ Stated(account, AccountMeta) ++ GlobalMeta

Enriched(steps, ov, accounts, defaults) ==
  LET a == Resolved(ov, accounts)
  IN  IF a = None THEN steps
      ELSE WithParams(steps, "upload",
             resolveUploadMeta(ov, accounts[a], defaults) ++
             [social_account_id |-> a, firefox_profile_path |-> accounts[a].profile])

Dimensions(format) ==
  CASE format \in {"shorts", "reels", "tiktok", "vertical"} -> [width |-> 1080, height |-> 1920]
    [] format \in {"long", "horizontal"} -> [width |-> 1920, height |-> 1080]
    [] format = "square" -> [width |-> 1080, height |-> 1080]
    [] OTHER -> NoSettings

\* The project's primary format and subtitles fill what every assemble step leaves open.
WithVideoDefaults(steps, defaults) ==
  LET size == IF States(defaults, "primary_format") THEN Dimensions(defaults.primary_format)
              ELSE NoSettings
      open == size ++ Stated(defaults, {"subtitles"})
  IN  [i \in DOMAIN steps |->
         IF steps[i].kind = "assemble" THEN [steps[i] EXCEPT !.params = @ ++ open] ELSE steps[i]]

-----------------------------------------------------------------------------
(* What settings and steps are made of *)

Languages == {"en", "ru", "fr"}
StepsTyped(steps) ==
  /\ steps \in Seq(Range(steps))
  /\ \A i \in DOMAIN steps :
       /\ DOMAIN steps[i] = {"kind", "params"}
       /\ steps[i].kind \in DOMAIN Takes \cup {"caption", "upload"}
SettingsTyped(settings) ==
  /\ States(settings, "auto_assemble") => settings.auto_assemble \in BOOLEAN
  /\ States(settings, "language") => settings.language \in Languages
  /\ States(settings, "steps") => StepsTyped(settings.steps)

-----------------------------------------------------------------------------
(* CreateRun: the steps, the options and the upload record of a run *)

RunOf(template, ov, id, defaults, links, accounts, language) ==
  LET picked == WithProvider(WithAccount(Merged(ov, id, defaults), links), accounts)
      account == Resolved(picked, accounts)
      steps == Enriched(applyOverrides(template, picked), picked, accounts, defaults)
  IN  [steps |-> WithVideoDefaults(steps, defaults),
       auto |-> States(picked, "auto_assemble") => picked.auto_assemble,
       language |-> IF language # None THEN language
                    ELSE IF States(defaults, "language") THEN defaults.language ELSE "en",
       review |-> States(defaults, "review_mode") /\ defaults.review_mode = "review",
       account |-> account,
       provider |-> IF account = None THEN None ELSE accounts[account].platform]

\* NewRunWithOptions refuses the others.
CanStart(steps) == steps # << >> /\ steps[1].kind = "script"
=============================================================================
