------------------------------- MODULE Studio -------------------------------
(***************************************************************************)
(* The API around its runs: users keep projects, accounts, templates and   *)
(* tracks, sign in to platforms, and create runs from what is there at the *)
(* moment; published uploads are measured; rows that go take others with   *)
(* them, a page watches a run being changed and deleted, and the API       *)
(* process may die at any time.                                            *)
(*                                                                         *)
(* A scene says what there is at first, what users ask for, and how often  *)
(* they do what.                                                           *)
(***************************************************************************)
EXTENDS FirefoxLogin, AudioLibrary, RunSetup, Catalogue, MetricsTicker, RunStore

CONSTANTS
  Scene,     \* names of scenes
  SceneNamed \* [start, asks, templates, defaults, budget] of each

VARIABLES
  runs,     \* pipeline_runs, as far as CreateRun decides them
  started,  \* history: the ids of runs given out
  budget,   \* how often users, time and failures still act, by kind
  scene

runVars == <<runs, started>>
studioVars ==
  <<loginVars, audioVars, catalogueVars, metricsVars, runVars, storeVars, budget, scene>>

RunTyped(run) ==
  /\ DOMAIN run = {"ask", "template", "project", "steps", "auto", "language", "review", "context"}
  /\ run.template \in Template /\ run.project \in Project \cup {None}
  /\ StepsTyped(run.steps)
  /\ run.auto \in BOOLEAN /\ run.review \in BOOLEAN /\ run.language \in Languages
  /\ run.context \in [sheets : SUBSET Sheet, plot : BOOLEAN]

\* Links that no transaction is at work on: an account is linked to a project once, and at
\* most one on a platform is the default.
LinksSettled(rows, table) ==
  /\ rows \in Seq(Link)
  /\ \A i \in DOMAIN rows : rows[i].committed /\ Exists(table, rows[i].account)
  /\ \A i, j \in DOMAIN rows : i # j /\ rows[i].project = rows[j].project =>
       /\ rows[i].account # rows[j].account
       /\ table[rows[i].account].platform = table[rows[j].account].platform
          => ~rows[i].default \/ ~rows[j].default

StartTyped(start) ==
  /\ start.projects \in [Project -> Defaults \cup {None}]
  /\ start.accounts \in [Account -> AccountRow \cup {None}]
  /\ LinksSettled(start.links, start.accounts)
  /\ start.sheets \in [Sheet -> SheetRow \cup {None}] /\ start.plots \subseteq Project
  /\ start.templates \in [Template -> TemplateRow \cup {None}]
  /\ start.saved \in [FormatId -> BOOLEAN \cup {None}]
  /\ start.records \in [Run -> RecordRow \cup {None}]
  /\ DOMAIN start.runs = Run
  /\ \A r \in Rows(start.runs) :
       RunTyped(start.runs[r]) /\ Exists(start.templates, start.runs[r].template)

AskTyped(ask) ==
  /\ ask.project \in Project \cup {None} /\ ask.language \in Languages \cup {None}
  /\ ask.plot \in BOOLEAN /\ SettingsTyped(ask.ov)

ASSUME StudioAssumption ==
  /\ \A steps \in StepLists : StepsTyped(steps)
  /\ \A defaults \in Defaults : SettingsTyped(defaults)
  /\ \A name \in Scene :
       /\ SceneNamed[name].templates \subseteq StepLists
       /\ SceneNamed[name].defaults \subseteq Defaults
       /\ \A ask \in SceneNamed[name].asks : AskTyped(ask)
       /\ \A start \in SceneNamed[name].start : StartTyped(start)

\* A user's request for a run.  characters and environments are the sheets picked; none picked
\* means all of the project's.
Ask == SceneNamed[scene].asks

Spend(kind) ==
  /\ budget[kind] > 0
  /\ budget' = [budget EXCEPT ![kind] = @ - 1]
  /\ UNCHANGED scene
Free == UNCHANGED <<budget, scene>>

Init ==
  \E name \in Scene : \E start \in SceneNamed[name].start :
    /\ scene = name /\ budget = SceneNamed[name].budget
    /\ LoginInit /\ AudioInit
    /\ projects = start.projects /\ accounts = start.accounts /\ links = start.links
    /\ sheets = start.sheets /\ plots = start.plots /\ templates = start.templates
    /\ linkTxs = << >> /\ edits = {} /\ saved = start.saved
    /\ made = Rows(projects) \cup Rows(accounts) \cup Rows(sheets) \cup Rows(templates)
    /\ excused = {}
    /\ records = start.records /\ fetched = << >> /\ fresh = {}
    /\ todo = {} /\ requests = {} /\ results = {}
    /\ runs = start.runs /\ started = Rows(runs)
    /\ StoreInit

-----------------------------------------------------------------------------
(* Runs *)

\* resolveLinkedContext: the sheets of the project that were picked, or all, and its plot.
LinkedContext(ask) ==
  LET picked(kind, ids) ==
        {s \in Rows(sheets) : /\ sheets[s].project = ask.project /\ sheets[s].kind = kind
                              /\ (ids = {} \/ s \in ids)}
  IN  [sheets |-> picked("character", ask.characters) \cup picked("environment", ask.environments),
       plot |-> ask.plot /\ ask.project \in plots]

DefaultsOf(p) == IF Exists(projects, p) THEN projects[p] ELSE NoSettings
AccountRows == Restrict(accounts, Rows(accounts))
LinksOf(p) == ListLinkedSocialAccounts(p)

NewRun(ask) ==
  RunOf(templates[ask.template].steps, ask.ov, ask.format, DefaultsOf(ask.project),
        LinksOf(ask.project), AccountRows, ask.language)

\* One transaction saves the run and the record of its upload.  It locks the project, whose
\* foreign key fails if the project is gone.
CreateRun(r, ask) ==
  LET new == NewRun(ask)
  IN  /\ r \notin started
      /\ Exists(templates, ask.template)
      /\ ask.project = None \/ (Exists(projects, ask.project) /\ Unheld(ask.project))
      /\ CanStart(new.steps)
      /\ runs' = [runs EXCEPT ![r] =
           [ask |-> ask, template |-> ask.template, project |-> ask.project, steps |-> new.steps,
            auto |-> new.auto, language |-> new.language, review |-> new.review,
            context |-> IF ask.project = None THEN [sheets |-> {}, plot |-> FALSE]
                        ELSE LinkedContext(ask)]]
      /\ started' = started \cup {r}
      /\ records' = IF new.account = None THEN records
                    ELSE [records EXCEPT ![r] = [account |-> new.account,
                                                 provider |-> new.provider, ref |-> FALSE]]
      /\ UNCHANGED <<loginVars, audioVars, catalogueVars, fetched, fresh, todo, requests, results>>

\* The same prompt through the template as it is now, with none of the project, the options
\* and the overrides, and without a record.
RetryRun(r, old) ==
  /\ r \notin started
  /\ Exists(runs, old)
  /\ CanStart(templates[runs[old].template].steps)
  /\ runs' = [runs EXCEPT ![r] =
       [ask |-> None, template |-> runs[old].template, project |-> None,
        steps |-> templates[runs[old].template].steps, auto |-> TRUE, language |-> "en",
        review |-> FALSE, context |-> [sheets |-> {}, plot |-> FALSE]]]
  /\ started' = started \cup {r}
  /\ UNCHANGED <<loginVars, audioVars, catalogueVars, metricsVars>>

\* The foreign keys delete the run's record with it.  CleanupRuns deletes many so.
DeleteRun(r) ==
  /\ Exists(runs, r)
  /\ runs' = [runs EXCEPT ![r] = None]
  /\ ForgetRun(r)
  /\ UNCHANGED <<loginVars, audioVars, catalogueVars, started>>

HasStep(r, kind) == \E i \in DOMAIN runs[r].steps : runs[r].steps[i].kind = kind

\* The upload step succeeds.
UploadCompleted(r) ==
  /\ Exists(runs, r) /\ HasStep(r, "upload")
  /\ Publish(r)
  /\ UNCHANGED <<loginVars, audioVars, catalogueVars, runVars>>

-----------------------------------------------------------------------------
(* What crosses components *)

\* Deleting a project: sheets, plot, links and tracks go with it, runs lose it.
DeleteProject(p) ==
  /\ DropProject(p) /\ CascadeTracks(p)
  /\ runs' = [r \in Run |-> IF Exists(runs, r) /\ runs[r].project = p
                            THEN [runs[r] EXCEPT !.project = None] ELSE runs[r]]
  /\ UNCHANGED <<loginVars, metricsVars, started>>

DeleteAccount(a) ==
  /\ DropAccount(a) /\ ForgetAccount(a)
  /\ UNCHANGED <<loginVars, audioVars, runVars>>

\* A finished login becomes an account, linked to the project it was started from; if that
\* is gone, or the database fails, the profile stays without one.
PersistLogin(c) ==
  /\ Persisted(c)
  /\ \/ \E a \in Account, platform \in Platform :
          CreateAccount(a, platform, sess[c.s].dir, sess[c.s].project)
     \/ UNCHANGED catalogueVars
  /\ UNCHANGED <<audioVars, metricsVars, runVars>>

\* The profile of the account is viewed.
InspectAccount(a) ==
  /\ Exists(accounts, a) /\ accounts[a].profile # None
  /\ \/ InspectRefused(a)
     \/ \E s \in Session, p \in Port : Inspect(a, s, accounts[a].profile, p)
  /\ UNCHANGED <<audioVars, catalogueVars, metricsVars, runVars>>

Crash ==
  /\ RestartApi /\ CrashAudio /\ CrashCatalogue /\ CrashTicker
  /\ UNCHANGED <<records, fetched, fresh, requests, results, runVars>>

-----------------------------------------------------------------------------
(* Who acts *)

ByProject ==
  /\ Spend("project")
  /\ \E p \in Project :
       \/ DeleteProject(p)
       \/ /\ \E d \in SceneNamed[scene].defaults : CreateProject(p, d) \/ UpdateProject(p, d)
          /\ UNCHANGED <<loginVars, audioVars, metricsVars, runVars>>

BySheet ==
  /\ Spend("sheet")
  /\ \/ \E s \in Sheet : DeleteSheet(s) \/ \E p \in Project, k \in Kind : CreateSheet(s, p, k)
     \/ \E p \in Project : UpsertPlot(p)
  /\ UNCHANGED <<loginVars, audioVars, metricsVars, runVars>>

ByAccount ==
  /\ Spend("account")
  /\ \E a \in Account :
       \/ DeleteAccount(a)
       \/ /\ \/ SetOAuth(a)
             \/ \E platform \in Platform, p \in Project \cup {None} :
                  CreateAccount(a, platform, None, p)
             \/ \E platform \in Platform, extra \in BOOLEAN, profile \in {None} \cup dirs :
                  EditAccount(a, platform, profile, extra)
          /\ UNCHANGED <<loginVars, audioVars, metricsVars, runVars>>

ByLink ==
  /\ Spend("link")
  /\ \E p \in Project, a \in Account :
       Unlink(p, a) \/ \E default \in BOOLEAN : BeginLink(p, a, default)
  /\ UNCHANGED <<loginVars, audioVars, metricsVars, runVars>>

ByTemplate ==
  /\ Spend("template")
  /\ \/ \E t \in Template, steps \in SceneNamed[scene].templates :
          \/ CreateTemplate(t, steps)
          \/ \E hide \in BOOLEAN : ReadTemplate(t, [steps |-> steps, is_test |-> hide])
     \/ \E f \in FormatId : DeleteFormat(f) \/ \E scope \in {"user", "system"} : SaveFormat(f, scope)
  /\ UNCHANGED <<loginVars, audioVars, metricsVars, runVars>>

ByTrack ==
  /\ Spend("track")
  /\ \E t \in Track :
       \/ PutFails(t) \/ RetagTrack(t) \/ DeleteTrack(t)
       \/ \E p \in Project \cup {None}, import \in BOOLEAN : PutObject(t, p, import)
  /\ UNCHANGED <<loginVars, catalogueVars, metricsVars, runVars>>

ByLogin ==
  /\ Spend("login")
  /\ \/ \E s \in Session : Finish(s) \/ Cancel(s)
     \/ \E s \in Session, p \in Port, pr \in {None} \cup Rows(projects) : StartLogin(s, p, pr)
  /\ UNCHANGED <<audioVars, catalogueVars, metricsVars, runVars>>

ByViewer ==
  /\ Spend("view")
  /\ \E a \in Account :
       \/ InspectAccount(a)
       \/ StopInspect(a) /\ UNCHANGED <<audioVars, catalogueVars, metricsVars, runVars>>

ByRun ==
  /\ Spend("run")
  /\ \E r \in Run :
       \/ \E ask \in Ask : CreateRun(r, ask)
       \/ \E old \in Run : RetryRun(r, old)
       \/ DeleteRun(r)

ByUpload == Spend("upload") /\ \E r \in Run : UploadCompleted(r)

Handlers ==
  /\ Free
  /\ \/ /\ \/ \E i \in DOMAIN linkTxs : CommitLink(i) \/ AbortLink(i)
           \/ \E e \in edits : SaveTemplate(e)
        /\ UNCHANGED <<loginVars, audioVars, metricsVars, runVars>>
     \/ /\ \E c \in audioCalls : AudioStep(c, Rows(projects))
        /\ UNCHANGED <<loginVars, catalogueVars, metricsVars, runVars>>
     \/ /\ \E c \in calls : Proceed(c)
        /\ UNCHANGED <<audioVars, catalogueVars, metricsVars, runVars>>
     \/ \E c \in calls : PersistLogin(c)

Metrics(A) == A /\ Free /\ UNCHANGED <<loginVars, audioVars, catalogueVars, runVars, storeVars>>
TickNow == Metrics(\E rows \in SUBSET Run : Tick(rows))
TakeRow == Metrics(\E d \in todo : FetchYouTube(d) \/ RequestMetrics(d))
Answer(r) == Metrics(\E d \in requests : d.record = r /\ AnswerMetrics(d))
Apply(r) == Metrics(r \in results /\ RecordMetrics(r))

Time ==
  /\ Spend("hour") /\ Age
  /\ UNCHANGED <<loginVars, audioVars, catalogueVars, runVars>>
Failure ==
  /\ Spend("failure")
  /\ (\E d \in todo : SkipRow(d)) \/ (\E d \in requests : LoseMetrics(d))
  /\ UNCHANGED <<loginVars, audioVars, catalogueVars, runVars>>

\* The transactions on one run, and the page that watches it.
OnOneRun ==
  /\ \/ \E c \in Command : Spend(KindOf[c]) /\ Begin(c)
     \/ \E c \in Command : Free /\ Proceeds(c)
     \/ Spend("page") /\ OpenStream
     \/ Free /\ Watch
  /\ UNCHANGED <<loginVars, audioVars, catalogueVars, metricsVars, runVars>>

Next ==
  \/ /\ \/ ByProject \/ BySheet \/ ByAccount \/ ByLink \/ ByTemplate \/ ByTrack
        \/ ByLogin \/ ByViewer \/ ByRun \/ ByUpload \/ Handlers \/ Time \/ Failure
        \/ (Spend("crash") /\ Crash)
     /\ UNCHANGED storeVars
  \/ TickNow \/ TakeRow \/ (\E r \in Run : Answer(r) \/ Apply(r))
  \/ OnOneRun

\* The ticker ticks every minute and goes through its rows, the worker and the consumer read
\* their streams.
Spec == Init /\ [][Next]_studioVars
FairSpec ==
  /\ Spec
  /\ WF_studioVars(TickNow) /\ WF_studioVars(TakeRow)
  /\ \A r \in Run : WF_studioVars(Answer(r)) /\ WF_studioVars(Apply(r))

-----------------------------------------------------------------------------
TypeOK ==
  /\ LoginTypeOK /\ AudioTypeOK /\ CatalogueTypeOK /\ MetricsTypeOK /\ StoreTypeOK
  /\ started \subseteq Run /\ Rows(runs) \subseteq started
  /\ \A r \in Rows(runs) : RunTyped(runs[r])

\* The parameters of the first step of a kind.
Params(steps, kind) == steps[FirstStep(steps, kind)].params
Has(steps, kind) == FirstStep(steps, kind) # 0

\* What the user, the format and the project state.
LayersOf(ask) ==
  [user |-> ask.ov,
   format |-> Stated(FormatOf(ask.format, DefaultsOf(ask.project)), FormatFields),
   project |-> Stated(DefaultsOf(ask.project), ProjectFields)]

\* What a field may come out as.  The user has the say; which of the format and the project
\* comes next is left open here (see ProjectBeatsFormat).
Said(layers, f) ==
  IF States(layers.user, f) THEN {layers.user[f]}
  ELSE UNION {IF States(layers[l], f) THEN {layers[l][f]} ELSE {} : l \in {"format", "project"}}

\* Every setting that someone states reaches the step that takes it, and every other stays as
\* the template has it.
SettingsReach(layers, old, steps) ==
  \A kind \in DOMAIN Takes : Has(steps, kind) =>
    /\ \A f \in Takes[kind] \ {"system_prompt"} :
         IF Said(layers, f) # {}
         THEN States(Params(steps, kind), f) /\ Params(steps, kind)[f] \in Said(layers, f)
         ELSE Has(old, kind) /\ States(Params(old, kind), f)
              => Params(steps, kind)[f] = Params(old, kind)[f]
    /\ kind = "script" /\ States(layers.user, "system_prompt")
       => IsPrefix(layers.user.system_prompt, Params(steps, kind).system_prompt)

\* A user who gives the length of a panel gets it; else the whole video is as long as asked.
LengthAsAsked(layers, steps) ==
  LET p == Params(steps, "assemble")
      n == Panels(steps, layers.user ++ layers.project)
      total == p.panel_duration_ms * n
  IN  Has(steps, "assemble") =>
        IF States(layers.user, "assemble_panel_duration_ms")
        THEN p.panel_duration_ms = layers.user.assemble_panel_duration_ms
        ELSE \A ms \in Said(layers, "target_duration_ms") : ms - total \in 0..(n - 1)

\* The run ends in one caption and one upload exactly if an upload is enabled, and speaks
\* exactly if it is to.
StepsAsAsked(layers, old, steps) ==
  LET count(list, kind) == Len(SelectSeq(list, LAMBDA s : s.kind = kind))
      enabled == TRUE \in Said(layers, "enabled")
  IN  /\ Said(layers, "upload") # {} =>
           /\ count(steps, "upload") = IF enabled THEN 1 ELSE 0
           /\ enabled => /\ steps[Len(steps)].kind = "upload"
                         /\ steps[Len(steps) - 1].kind = "caption"
      /\ Said(layers, "enable_audio") # {} =>
           /\ Has(steps, "audio") = (TRUE \in Said(layers, "enable_audio"))
           /\ Has(steps, "audio") /\ Has(steps, "assemble") /\ ~Has(old, "audio")
              => FirstStep(steps, "audio") < FirstStep(steps, "assemble")

\* Whoever names an account has it; else the project's default for the platform is taken.  The
\* record and the upload step name the same account, and the step its profile.
AccountAsAsked(layers, r, steps) ==
  LET named == {ids[1] : ids \in Said(layers, "social_account_ids")}
      offered == LinksOf(runs[r].ask.project)
      suits(l) == Said(layers, "provider") \subseteq {l.platform}
  IN  /\ Present(r) =>
           /\ IF named # {} THEN records[r].account \in named
              ELSE \E i \in DOMAIN offered :
                     /\ offered[i].account = records[r].account /\ suits(offered[i])
                     /\ (\E j \in DOMAIN offered : suits(offered[j]) /\ offered[j].default)
                        => offered[i].default
           /\ Has(steps, "upload") =>
                /\ Params(steps, "upload").social_account_id = records[r].account
                /\ Params(steps, "upload").firefox_profile_path
                     = accounts[records[r].account].profile
      /\ Said(layers, "upload") # {} /\ ~Present(r) =>
           IF named # {} THEN named \cap Rows(accounts) = {}
           ELSE \A i \in DOMAIN offered : ~suits(offered[i])

\* The upload goes out as the project says, and unlisted where it says nothing; it waits for a
\* review if the project wants one.
PublishedAsAsked(r, defaults, steps) ==
  /\ runs[r].review = (States(defaults, "review_mode") /\ defaults.review_mode = "review")
  /\ Present(r) /\ Has(steps, "upload") =>
       \A f \in ProjectMeta :
         /\ States(defaults, f) => Params(steps, "upload")[f] = defaults[f]
         /\ f \in DOMAIN GlobalMeta /\ ~States(defaults, f)
            => Params(steps, "upload")[f] = GlobalMeta[f]

\* The run is told of every sheet picked, or of all, and of no other project's.
ContextAsAsked(ask, context) ==
  \A s \in Rows(sheets) :
    LET ids == IF sheets[s].kind = "character" THEN ask.characters ELSE ask.environments
    IN  s \in context.sheets <=> (sheets[s].project = ask.project /\ (ids = {} \/ s \in ids))

AsAsked(r) ==
  LET ask == runs[r].ask
      layers == LayersOf(ask)
      old == templates[ask.template].steps
      steps == runs[r].steps
  IN  /\ IF States(ask.ov, "steps")
         THEN [i \in DOMAIN steps |-> steps[i].kind] = [i \in DOMAIN ask.ov.steps |->
                                                         ask.ov.steps[i].kind]
         ELSE /\ SettingsReach(layers, old, steps) /\ LengthAsAsked(layers, steps)
              /\ StepsAsAsked(layers, old, steps)
      /\ AccountAsAsked(layers, r, steps)
      /\ PublishedAsAsked(r, DefaultsOf(ask.project), steps)
      /\ ask.project # None => ContextAsAsked(ask, runs[r].context)

\* A run is created as its user asked, and where that leaves a gap as the format or the
\* project has it at that moment, and else the template: nothing that is said is dropped on the
\* way through the layers, the added and the removed steps, the choice of an account and the
\* record.  (Where format and project both speak, see ProjectBeatsFormat.)
RunAsAsked == [][\A r \in started' \ started : (runs[r].ask # None => AsAsked(r))']_studioVars

-----------------------------------------------------------------------------
(* What comments in the code say and the code does not do.  It has a run that *)
(* finds it violated.                                                         *)

\* Run r takes from its project what the user left open.
ProjectSays(r) ==
  LET ask == runs[r].ask
      project == LayersOf(ask).project
  IN  ~States(ask.ov, "steps") =>
        \A kind \in DOMAIN Takes : Has(runs[r].steps, kind) =>
          \A f \in (Takes[kind] \cap DOMAIN project) \ (DOMAIN ask.ov \cup {"system_prompt"}) :
            Params(runs[r].steps, kind)[f] = project[f]

\* CreateRun: "Layer (low->high precedence): format -> project defaults -> user overrides";
\* Format: "a recipe applied before project defaults + user overrides".  What the project
\* states goes before what the format states, unless the user states it.
ProjectBeatsFormat ==
  [][\A r \in started' \ started : (runs[r].ask # None => ProjectSays(r))']_studioVars
=============================================================================
