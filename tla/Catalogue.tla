----------------------------- MODULE Catalogue -----------------------------
(***************************************************************************)
(* What users keep for their runs to draw on: projects with their settings *)
(* and story sheets, social accounts and the links between the two, run    *)
(* templates, and saved formats.                                           *)
(*                                                                         *)
(* An operation is one transaction.  Rows are read FOR UPDATE, so it is    *)
(* one step, except where the code reads unlocked (templates) or writes    *)
(* rows that a concurrent transaction does not see (links).  Names, texts, *)
(* upload limits and the archived flag are left out: no other component    *)
(* tells them apart.                                                       *)
(***************************************************************************)
EXTENDS Naturals, Sequences, SequencesExt, Identifiers

CONSTANTS
  Sheet,      \* ids of characters and environments
  Template,   \* ids of templates
  Defaults,   \* the settings that projects are given
  StepLists,  \* the lists of steps that templates are given
  FormatId    \* ids of saved formats

VARIABLES
  projects,   \* a project's defaults
  sheets,     \* characters and environments
  plots,      \* the projects that have a plot
  accounts,   \* social_accounts
  links,      \* project_social_account_links, by created_at, with those not yet committed
  linkTxs,    \* the transactions that link accounts and have yet to commit, as they began
  templates,  \* pipeline_templates
  edits,      \* rows that an edit of a template has read and is about to save
  saved,      \* format_presets: is_system of each row
  made,       \* history: the ids given out, none of which comes again
  excused     \* history: projects and platforms where the code lets two defaults arise

catalogueVars ==
  <<projects, sheets, plots, accounts, links, linkTxs, templates, edits, saved, made, excused>>

Kind == {"character", "environment"}
SheetRow == [project : Project, kind : Kind]
AccountRow == [platform : Platform, profile : Session \cup {None}, tokens : BOOLEAN]
Link == [project : Project, account : Account, default : BOOLEAN, committed : BOOLEAN]
LinkTx == [project : Project, account : Account, default : BOOLEAN, fresh : BOOLEAN,
           clears : SUBSET Account]
TemplateRow == [steps : StepLists, is_test : BOOLEAN]
Edit == [template : Template, row : TemplateRow]

ASSUME RowsAssumption == None \notin Defaults \cup AccountRow \cup TemplateRow

Exists(table, id) == id \in DOMAIN table /\ table[id] # None
Rows(table) == {id \in DOMAIN table : table[id] # None}

-----------------------------------------------------------------------------
(* Projects and what they own *)

CreateProject(p, defaults) ==
  /\ p \notin made
  /\ projects' = [projects EXCEPT ![p] = defaults]
  /\ made' = made \cup {p}
  /\ UNCHANGED <<sheets, plots, accounts, links, linkTxs, templates, edits, saved, excused>>

\* The insertion of a link holds its project.
Unheld(p) == \A i \in DOMAIN linkTxs : linkTxs[i].project = p => ~linkTxs[i].fresh

\* The defaults are replaced as a whole.
UpdateProject(p, defaults) ==
  /\ Exists(projects, p) /\ Unheld(p)
  /\ projects' = [projects EXCEPT ![p] = defaults]
  /\ UNCHANGED <<sheets, plots, accounts, links, linkTxs, templates, edits, saved, made, excused>>

\* The foreign keys cascade to sheets, plot and links, so that it waits for those who have
\* written one of its links.
DropProject(p) ==
  /\ Exists(projects, p)
  /\ \A i \in DOMAIN linkTxs : linkTxs[i].project # p
  /\ projects' = [projects EXCEPT ![p] = None]
  /\ sheets' = [s \in Sheet |-> IF s \in Rows(sheets) /\ sheets[s].project = p THEN None
                                ELSE sheets[s]]
  /\ plots' = plots \ {p}
  /\ links' = Without(links, {l \in Link : l.project = p})
  /\ UNCHANGED <<accounts, linkTxs, templates, edits, saved, made, excused>>

CreateSheet(s, p, kind) ==
  /\ s \notin made
  /\ Exists(projects, p)
  /\ sheets' = [sheets EXCEPT ![s] = [project |-> p, kind |-> kind]]
  /\ made' = made \cup {s}
  /\ UNCHANGED <<projects, plots, accounts, links, linkTxs, templates, edits, saved, excused>>

DeleteSheet(s) ==
  /\ Exists(sheets, s)
  /\ sheets' = [sheets EXCEPT ![s] = None]
  /\ UNCHANGED <<projects, plots, accounts, links, linkTxs, templates, edits, saved, made, excused>>

\* The plot's row is unique by project: whoever comes second updates it.
UpsertPlot(p) ==
  /\ Exists(projects, p)
  /\ plots' = plots \cup {p}
  /\ UNCHANGED <<projects, sheets, accounts, links, linkTxs, templates, edits, saved, made, excused>>

-----------------------------------------------------------------------------
(* Social accounts *)

\* A new account may be linked at once, in the same transaction, and not as the default.
CreateAccount(a, platform, profile, p) ==
  /\ a \notin made
  /\ p = None \/ Exists(projects, p)
  /\ accounts' = [accounts EXCEPT ![a] = [platform |-> platform, profile |-> profile,
                                          tokens |-> FALSE]]
  /\ made' = made \cup {a}
  /\ links' = IF p = None THEN links
              ELSE Append(links, [project |-> p, account |-> a, default |-> FALSE,
                                  committed |-> TRUE])
  /\ UNCHANGED <<projects, sheets, plots, linkTxs, templates, edits, saved, excused>>

Linking(a) == {i \in DOMAIN linkTxs : linkTxs[i].account = a}
LinkedTo(a) == {links[i].project : i \in {j \in DOMAIN links : links[j].account = a}}

\* The profile is replaced, also by nothing; extra, where the OAuth tokens are, only if given.
\* The insertion of a link holds the account.
EditAccount(a, platform, profile, extra) ==
  /\ Exists(accounts, a)
  /\ \A i \in Linking(a) : ~linkTxs[i].fresh
  /\ accounts' = [accounts EXCEPT
       ![a] = [platform |-> platform, profile |-> profile,
               tokens |-> accounts[a].tokens /\ ~extra]]
  /\ excused' = IF platform = accounts[a].platform THEN excused
                ELSE excused \cup {<<p, platform>> : p \in LinkedTo(a)}
  /\ UNCHANGED <<projects, sheets, plots, links, linkTxs, templates, edits, saved, made>>

SetOAuth(a) ==
  /\ Exists(accounts, a)
  /\ \A i \in Linking(a) : ~linkTxs[i].fresh
  /\ accounts' = [accounts EXCEPT ![a].tokens = TRUE]
  /\ UNCHANGED <<projects, sheets, plots, links, linkTxs, templates, edits, saved, made, excused>>

\* Its links go with it, those that a transaction has written once that has ended.
DropAccount(a) ==
  /\ Exists(accounts, a)
  /\ \A i \in DOMAIN linkTxs : a # linkTxs[i].account /\ a \notin linkTxs[i].clears
  /\ accounts' = [accounts EXCEPT ![a] = None]
  /\ links' = Without(links, {l \in Link : l.account = a})
  /\ UNCHANGED <<projects, sheets, plots, linkTxs, templates, edits, saved, made, excused>>

-----------------------------------------------------------------------------
(* Links: ListLinkedSocialAccounts, LinkSocialAccount, SetDefaultSocialAccount *)

\* What a query sees, defaults first.
ListLinkedSocialAccounts(p) ==
  LET of(default) == SelectSeq(links, LAMBDA l : l.project = p /\ l.committed /\ l.default = default)
      ordered == of(TRUE) \o of(FALSE)
  IN  [i \in DOMAIN ordered |->
         [account |-> ordered[i].account, platform |-> accounts[ordered[i].account].platform,
          status |-> "active", default |-> ordered[i].default]]

LinkAt(p, a) == SelectInSeq(links, LAMBDA l : l.project = p /\ l.account = a)

\* Mutant: the others are cleared only when the account is linked, not when its link is promoted.
ClearedByInsert(p, a) ==
  IF LinkAt(p, a) # 0 THEN {}
  ELSE {b \in Account \ {a} : /\ LinkAt(p, b) # 0 /\ links[LinkAt(p, b)].committed
                              /\ accounts[b].platform = accounts[a].platform}

\* clearOtherDefaults: the other links on the platform, as far as they are committed.
Cleared(p, a) ==
  {b \in Account \ {a} : /\ LinkAt(p, b) # 0
                         /\ links[LinkAt(p, b)].committed
                         /\ accounts[b].platform = accounts[a].platform}

\* The link rows a transaction has written.
Written(tx) == {tx.account} \cup tx.clears

\* A new default that is not yet committed escapes the clearing.
Races(p, a) ==
  \E i \in DOMAIN linkTxs : /\ linkTxs[i].project = p /\ linkTxs[i].default /\ linkTxs[i].fresh
                            /\ accounts[linkTxs[i].account].platform = accounts[a].platform

\* The insert or update of the link, which waits for whoever has written its row, and the
\* statement that clears the others.
BeginLink(p, a, default) ==
  LET fresh == LinkAt(p, a) = 0
  IN  /\ Exists(projects, p) /\ Exists(accounts, a)
      /\ \A i \in DOMAIN linkTxs : linkTxs[i].project = p => a \notin Written(linkTxs[i])
      /\ linkTxs' = Append(linkTxs,
           [project |-> p, account |-> a, default |-> default, fresh |-> fresh,
            clears |-> IF default THEN Cleared(p, a) ELSE {}])
      /\ links' = IF fresh
                  THEN Append(links, [project |-> p, account |-> a, default |-> default,
                                      committed |-> FALSE])
                  ELSE links
      /\ excused' = IF default /\ Races(p, a)
                    THEN excused \cup {<<p, accounts[a].platform>>} ELSE excused
      /\ UNCHANGED <<projects, sheets, plots, accounts, templates, edits, saved, made>>

\* Clearing waits for those who wrote the rows before.
CommitLink(i) ==
  LET tx == linkTxs[i]
  IN  /\ \A j \in 1..(i - 1) :
           linkTxs[j].project = tx.project => Written(linkTxs[j]) \cap Written(tx) = {}
      /\ links' = [k \in DOMAIN links |->
           IF links[k].project = tx.project /\ links[k].account = tx.account
           THEN [links[k] EXCEPT !.default = tx.default, !.committed = TRUE]
           ELSE IF links[k].project = tx.project /\ links[k].account \in tx.clears
           THEN [links[k] EXCEPT !.default = FALSE] ELSE links[k]]
      /\ linkTxs' = RemoveAt(linkTxs, i)
      /\ UNCHANGED <<projects, sheets, plots, accounts, templates, edits, saved, made, excused>>

\* The transaction fails: what it inserted goes.
AbortLink(i) ==
  /\ linkTxs' = RemoveAt(linkTxs, i)
  /\ links' = Without(links, {l \in Link : /\ ~l.committed
                                   /\ l.project = linkTxs[i].project
                                   /\ l.account = linkTxs[i].account})
  /\ UNCHANGED <<projects, sheets, plots, accounts, templates, edits, saved, made, excused>>

Unlink(p, a) ==
  /\ LinkAt(p, a) # 0
  /\ \A i \in DOMAIN linkTxs : linkTxs[i].project = p => a \notin Written(linkTxs[i])
  /\ links' = RemoveAt(links, LinkAt(p, a))
  /\ UNCHANGED <<projects, sheets, plots, accounts, linkTxs, templates, edits, saved, made, excused>>

-----------------------------------------------------------------------------
(* Templates and saved formats *)

CreateTemplate(t, steps) ==
  /\ t \notin made
  /\ templates' = [templates EXCEPT ![t] = [steps |-> steps, is_test |-> FALSE]]
  /\ made' = made \cup {t}
  /\ UNCHANGED <<projects, sheets, plots, accounts, links, linkTxs, edits, saved, excused>>

\* An edit reads the row unlocked and saves all of it: new steps, or the mark that hides it.
ReadTemplate(t, row) ==
  /\ Exists(templates, t)
  /\ \/ row.steps # templates[t].steps /\ row.is_test = templates[t].is_test
     \/ row.steps = templates[t].steps /\ row.is_test
  /\ edits' = edits \cup {[template |-> t, row |-> row]}
  /\ UNCHANGED <<projects, sheets, plots, accounts, links, linkTxs, templates, saved, made, excused>>

SaveTemplate(e) ==
  /\ templates' = [templates EXCEPT ![e.template] = e.row]
  /\ edits' = edits \ {e}
  /\ UNCHANGED <<projects, sheets, plots, accounts, links, linkTxs, saved, made, excused>>

\* Saving under the id of a built-in format makes its row one that can be deleted.
SaveFormat(f, scope) ==
  /\ saved' = [saved EXCEPT ![f] = (scope = "system")]
  /\ UNCHANGED <<projects, sheets, plots, accounts, links, linkTxs, templates, edits, made, excused>>

DeleteFormat(f) ==
  /\ Exists(saved, f) /\ saved[f] = FALSE
  /\ saved' = [saved EXCEPT ![f] = None]
  /\ UNCHANGED <<projects, sheets, plots, accounts, links, linkTxs, templates, edits, made, excused>>

\* The API process dies.
CrashCatalogue ==
  /\ linkTxs' = << >> /\ edits' = {}
  /\ links' = Without(links, {l \in Link : ~l.committed})
  /\ UNCHANGED <<projects, sheets, plots, accounts, templates, saved, made, excused>>

-----------------------------------------------------------------------------
CatalogueTypeOK ==
  /\ projects \in [Project -> Defaults \cup {None}]
  /\ sheets \in [Sheet -> SheetRow \cup {None}]
  /\ plots \subseteq Project
  /\ accounts \in [Account -> AccountRow \cup {None}]
  /\ links \in Seq(Link) /\ linkTxs \in Seq(LinkTx)
  /\ templates \in [Template -> TemplateRow \cup {None}]
  /\ edits \subseteq Edit
  /\ saved \in [FormatId -> BOOLEAN \cup {None}]
  /\ made \subseteq Project \cup Account \cup Sheet \cup Template
  /\ excused \subseteq Project \X Platform

\* A project has at most one default account on a platform, whatever links, unlinks and
\* deletions overlap, unless one became so while the first link of another as the default had
\* yet to commit, or an account's platform was edited: no constraint of the database says so.
OneDefaultButForRaces ==
  \A i, j \in DOMAIN links :
    /\ i # j /\ links[i].project = links[j].project
    /\ links[i].default /\ links[j].default /\ links[i].committed /\ links[j].committed
    /\ accounts[links[i].account].platform = accounts[links[j].account].platform
    => <<links[i].project, accounts[links[i].account].platform>> \in excused
=============================================================================
