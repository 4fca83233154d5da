-------------------------- MODULE HouseholdSettings --------------------------
(* The owner's versioned settings: scenes, automations, SenseGuard alert      *)
(* policies and notification routes (src/anima_ha/scenes.py, automations.py,  *)
(* senseguard_alerts.py, notification_routes.py).  A client lists a setting,  *)
(* edits it and saves it with the version it saw; the plugin first reads the  *)
(* current row, for what the client left out, and then the store's one        *)
(* statement compares the version.  Scenes and automations are created and    *)
(* then updated; policies and routes are saved by an upsert.                  *)
EXTENDS Naturals

CONSTANTS Settings, Kind,   \* setting -> "scene", "automation", "policy" or "route"
          Clients,
          MaxVersion,       \* saves of one setting
          None

VARIABLES
    row,        \* setting -> its row
    editor,     \* client -> the edit it is in
    saved       \* history: the last save that was accepted

settingsVars == <<row, editor, saved>>

Unborn == [version |-> 0, enabled |-> TRUE, creator |-> None]
Home == [at |-> "home", setting |-> None, saw |-> 0, enabled |-> None,
         current |-> Unborn]

Init ==
    /\ row = [s \in Settings |-> Unborn]
    /\ editor = [c \in Clients |-> Home]
    /\ saved = [setting |-> None, saw |-> 0, replaced |-> Unborn, sent |-> None]

Exists(s) == row[s].version > 0
Upserted(s) == Kind[s] \in {"policy", "route"}

\* list_scenes, list_automations, list_policies, list_routes; or a form for a new
\* one (two new scenes are two scenes).
List(c, s) ==
    /\ editor[c] = Home
    /\ Upserted(s) \/ Exists(s) \/ \A d \in Clients : editor[d].setting # s
    /\ editor' = [editor EXCEPT ![c] = [Home EXCEPT !.at = "editing", !.setting = s,
                                                    !.saw = row[s].version]]
    /\ UNCHANGED <<row, saved>>

\* The client saves, and may leave out whether the setting is enabled.  The
\* plugin reads the current row: an update needs one, and an existing row needs
\* the version the client saw (a policy or a route saved without one is refused
\* if it exists by now).
Submit(c, enabled) ==
    LET s == editor[c].setting IN
    /\ editor[c].at = "editing"
    /\ editor' = [editor EXCEPT ![c] =
         IF Exists(s) /\ editor[c].saw = 0 THEN Home
         ELSE [@ EXCEPT !.at = "saving", !.enabled = enabled, !.current = row[s]]]
    /\ UNCHANGED <<row, saved>>

\* What a save makes of an omitted field: scenes and automations keep the
\* current value, policies and routes take the default.
Enabled(c) ==
    LET e == editor[c] IN
    IF e.enabled # None THEN e.enabled
    ELSE IF Upserted(e.setting) THEN TRUE ELSE e.current.enabled

\* A mutant: an upsert that does not look at the version of the row it meets.
AnyVersion(c) ==
    LET e == editor[c] IN
    IF Upserted(e.setting) THEN TRUE ELSE row[e.setting].version = e.saw

\* INSERT, INSERT ... ON CONFLICT DO UPDATE ... WHERE version, or UPDATE ... WHERE version.
VersionMatches(c) == row[editor[c].setting].version = editor[c].saw

\* An upsert also wants its next version to follow what the client saw, which
\* the row the plugin read decides.
Follows(c) == Upserted(editor[c].setting) => editor[c].current.version = editor[c].saw

Store(c) ==
    LET e == editor[c] s == e.setting IN
    /\ e.at = "saving"
    /\ editor' = [editor EXCEPT ![c] = Home]
    /\ IF VersionMatches(c) /\ Follows(c)
       THEN /\ row[s].version < MaxVersion
            /\ row' = [row EXCEPT ![s] =
                 [version |-> IF Upserted(s) THEN e.current.version + 1 ELSE @.version + 1,
                  enabled |-> Enabled(c),
                  creator |-> IF Exists(s) THEN @.creator ELSE c]]
            /\ saved' = [setting |-> s, saw |-> e.saw, replaced |-> row[s], sent |-> e.enabled]
       ELSE UNCHANGED <<row, saved>>

Next == \E c \in Clients :
          \/ \E s \in Settings : List(c, s)
          \/ \E enabled \in BOOLEAN \cup {None} : Submit(c, enabled)
          \/ Store(c)

Spec == Init /\ [][Next]_settingsVars

SettingsTypeOK ==
    /\ \A s \in Settings : row[s].version \in 0..MaxVersion /\ row[s].enabled \in BOOLEAN
    /\ \A c \in Clients : editor[c].at \in {"home", "editing", "saving"}

\* Two clients that edit one setting: a save that is accepted replaces exactly
\* the version its client saw, one version up and under its first creator, and
\* leaves a scene or an automation enabled or disabled as it was unless the
\* client said otherwise.
NoLostUpdate ==
    LET s == saved.setting IN
    s # None =>
        /\ saved.replaced.version = saved.saw
        /\ row[s].version = saved.saw + 1
        /\ saved.saw > 0 => row[s].creator = saved.replaced.creator
        /\ ~Upserted(s) /\ saved.sent = None => row[s].enabled = saved.replaced.enabled
=============================================================================
