---------------------------- MODULE Identifiers ----------------------------
(***************************************************************************)
(* The ids that the studio's components share: rows of one table name rows *)
(* of another.  An empty id column or an absent row is None.               *)
(***************************************************************************)
EXTENDS Naturals, Sequences

CONSTANTS
  Project,  \* projects.id
  Account,  \* social_accounts.id
  Session,  \* the uuids of browser sessions, which also name profile directories
  Platform, \* social_accounts.platform, which is also the provider of uploads
  None      \* the empty id

ASSUME NoneAssumption == None \notin Project \cup Account \cup Session

\* Rows in their order, less those that go.
Without(rows, gone) ==
  LET kept[i \in 0..Len(rows)] ==
        IF i = 0 THEN << >>
        ELSE IF rows[i] \in gone THEN kept[i - 1] ELSE Append(kept[i - 1], rows[i])
  IN  kept[Len(rows)]
=============================================================================
