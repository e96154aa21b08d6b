------------------------------ MODULE Profiles ------------------------------
(***************************************************************************)
(* The broker profiles: the list in AppState, the modal dialog that edits  *)
(* it (ui/profile_dialog.c) and the profiles table (platform/db.c).        *)
(*                                                                         *)
(* A frame of the dialog is two steps: FrameStart adopts a changed         *)
(* selection, then one input is handled.  The source keeps the numeric     *)
(* fields of the selected profile as text in buffers shared by all         *)
(* profiles and parses them on Save and Connect; numeric_bufs and port     *)
(* are modelled by the profile their text was typed for.  A profile's key  *)
(* is its identity and exists only in the model.                           *)
(*                                                                         *)
(* Bounds: one input per frame, hit-tested on a layout of the same state   *)
(* (an idle frame lies between two inputs of a person); MaxKeys profiles   *)
(* are created and MaxEdits edits made to transports and subscriptions.    *)
(***************************************************************************)
EXTENDS Integers, Sequences, FiniteSets, Subsequence

CONSTANTS
    MaxProfiles,    \* 32, the size of AppState.profiles
    MaxSubs,        \* MAX_PROFILE_SUBS
    MaxKeys,        \* bound: profiles ever created
    MaxEdits        \* bound: edits of transport and subscriptions

ASSUME ProfilesAssumption ==
    MaxProfiles \in Nat \ {0} /\ MaxSubs \in Nat \ {0, 1} /\ MaxKeys \in Nat /\ MaxEdits \in Nat

VARIABLES
    profiles,               \* the list; a record's id is its row, 0 = never saved
    active_profile_idx,     \* 0-based, -1 = none selected
    profile_last_idx,       \* the selection the buffers were filled for
    profile_active_field,   \* FIDX_*, -1 = no field focused
    profile_dialog_open,
    ssh_section_expanded,   \* static: survives closing the dialog
    numeric_bufs,           \* s_port_str, s_ka_str, s_ssh_port_str
    dbOpen,                 \* db_open succeeded
    rows, rowid,            \* profiles table, its AUTOINCREMENT counter
    broker,                 \* broker_host and broker_port of the last connect
    profStep,               \* "start" | "input"
    keys, edits             \* bounds

dialogVars == <<active_profile_idx, profile_last_idx, profile_active_field,
                profile_dialog_open, ssh_section_expanded, numeric_bufs>>
tableVars == <<dbOpen, rows, rowid>>
profVars == <<profiles, dialogVars, tableVars, broker, profStep, keys, edits>>

FIDX_NAME == 0
NumericFields == {2, 4, 12}     \* FIDX_PORT, FIDX_KA, FIDX_SSH_PORT
FIDX_WS_PATH == 7
FIDX_SSH_HOST == 11
FIDX_SSH_PASS == 14
FIDX_SSH_KEY == 15
FIDX_SUB_BASE == 16

DefaultProfile(key) == [key |-> key, id |-> 0, port |-> key, subs |-> 2, transport |-> 0]

HasProf == active_profile_idx \in 0..(MaxProfiles - 1)
Prof == profiles[active_profile_idx + 1]

\* The fields the form lays out for the selected profile.
ShownSubs == FIDX_SUB_BASE..(FIDX_SUB_BASE + Prof.subs - 1)
Shown ==
    IF ~HasProf THEN {}
    ELSE ShownSubs \cup
         ((0..FIDX_SSH_KEY)
           \ ((IF Prof.transport = 0 THEN {FIDX_WS_PATH} ELSE {})
              \cup (IF ssh_section_expanded THEN {} ELSE FIDX_SSH_HOST..FIDX_SSH_KEY)))

\* The profiles the list on the left offers.
ProfItems == 0..(Len(profiles) - 1)

\* What a row keeps of a profile, and the subscriptions that are read back from it.
RowOf(prof) == [key |-> prof.key, port |-> prof.port, subs |-> prof.subs, transport |-> prof.transport]
RowSubs(row) == IF row.subs < MaxSubs THEN row.subs ELSE MaxSubs

\* The first MaxProfiles rows, ORDER BY id.
Loaded ==
    LET ids == Kept([id \in 1..rowid |-> id], DOMAIN rows)
        prof(id) == [key |-> rows[id].key, id |-> id, port |-> rows[id].port,
                     subs |-> RowSubs(rows[id]), transport |-> rows[id].transport]
    IN  [i \in 1..(IF Len(ids) < MaxProfiles THEN Len(ids) ELSE MaxProfiles) |-> prof(ids[i])]

ProfInit ==
    /\ profiles = <<>> /\ rows = <<>> /\ rowid = 0
    /\ active_profile_idx = -1 /\ profile_last_idx = -2 /\ profile_active_field = -1
    /\ profile_dialog_open = FALSE /\ ssh_section_expanded = FALSE
    /\ numeric_bufs = 0 /\ broker = [key |-> 0, port |-> 0] /\ dbOpen = TRUE
    /\ profStep = "start" /\ keys = 0 /\ edits = 0

\* The process ends, in whatever state it is, and starts again.
ProfRestart ==
    /\ dbOpen' \in BOOLEAN
    /\ profiles' = IF dbOpen' THEN Loaded ELSE <<>>
    /\ active_profile_idx' = -1 /\ profile_last_idx' = -2 /\ profile_active_field' = -1
    /\ profile_dialog_open' = FALSE /\ ssh_section_expanded' = FALSE
    /\ numeric_bufs' = 0 /\ broker' = [key |-> 0, port |-> 0] /\ profStep' = "start"
    /\ UNCHANGED <<rows, rowid, keys, edits>>

\* Key P, the menu button or the disconnected status bar opens the dialog.
OpenDialog ==
    /\ ~profile_dialog_open /\ profile_dialog_open' = TRUE /\ profStep' = "start"
    /\ UNCHANGED <<profiles, active_profile_idx, profile_last_idx, profile_active_field,
                   ssh_section_expanded, numeric_bufs, tableVars, broker, keys, edits>>

\* sync_numeric_bufs, if a profile is selected.
SyncedBufs == IF HasProf THEN Prof.port ELSE numeric_bufs

FrameStart ==
    /\ profile_dialog_open /\ profStep = "start" /\ profStep' = "input"
    /\ IF active_profile_idx # profile_last_idx
       THEN /\ profile_last_idx' = active_profile_idx
            /\ profile_active_field' = -1
            /\ numeric_bufs' = SyncedBufs
       ELSE UNCHANGED <<profile_last_idx, profile_active_field, numeric_bufs>>
    /\ UNCHANGED <<profiles, active_profile_idx, profile_dialog_open, ssh_section_expanded,
                   tableVars, broker, keys, edits>>

\* Every input below is handled in a frame of the open dialog.
Input == profile_dialog_open /\ profStep = "input" /\ profStep' = "start"

\* A key in a numeric field edits the shared buffer, meant for the shown profile.
TypeNumber ==
    /\ Input /\ HasProf /\ profile_active_field \in NumericFields
    /\ numeric_bufs' = Prof.key
    /\ UNCHANGED <<profiles, active_profile_idx, profile_last_idx, profile_active_field,
                   profile_dialog_open, ssh_section_expanded, tableVars, broker, keys, edits>>

\* Only the focused field changes.
MoveFocus(f) ==
    /\ profile_active_field' = f
    /\ UNCHANGED <<profiles, active_profile_idx, profile_last_idx, profile_dialog_open,
                   ssh_section_expanded, numeric_bufs, tableVars, broker, keys, edits>>

PressTab ==
    /\ Input /\ HasProf /\ profile_active_field >= 0
    /\ LET total == FIDX_SUB_BASE + Prof.subs
           next == (profile_active_field + 1) % total
           ws == IF Prof.transport = 0 /\ next = FIDX_WS_PATH THEN next + 1 ELSE next
       IN  MoveFocus(IF ~ssh_section_expanded /\ ws \in FIDX_SSH_HOST..FIDX_SSH_PASS
                     THEN FIDX_SUB_BASE % total ELSE ws)

PressEscape == Input /\ HasProf /\ profile_active_field >= 0 /\ MoveFocus(-1)

focus_field_click(f) == MoveFocus(f)

ClickField(f) == Input /\ f \in Shown /\ focus_field_click(f)

ToggleSshSection ==
    /\ Input /\ HasProf
    /\ ssh_section_expanded' = ~ssh_section_expanded
    /\ profile_active_field' =
         IF ssh_section_expanded /\ profile_active_field \in FIDX_SSH_HOST..FIDX_SSH_PASS
         THEN -1 ELSE profile_active_field
    /\ UNCHANGED <<profiles, active_profile_idx, profile_last_idx, profile_dialog_open,
                   numeric_bufs, tableVars, broker, keys, edits>>

SelectProfile ==
    /\ Input
    /\ active_profile_idx' \in ProfItems
    /\ UNCHANGED <<profiles, profile_last_idx, profile_active_field, profile_dialog_open,
                   ssh_section_expanded, numeric_bufs, tableVars, broker, keys, edits>>

CloseDialog ==
    /\ Input /\ profile_dialog_open' = FALSE /\ profile_active_field' = -1
    /\ UNCHANGED <<profiles, active_profile_idx, profile_last_idx, ssh_section_expanded,
                   numeric_bufs, tableVars, broker, keys, edits>>

NewProfile ==
    /\ Input /\ Len(profiles) < MaxProfiles
    /\ keys < MaxKeys /\ keys' = keys + 1
    /\ profiles' = Append(profiles, DefaultProfile(keys'))
    /\ active_profile_idx' = Len(profiles) /\ profile_last_idx' = Len(profiles)
    /\ numeric_bufs' = keys' /\ profile_active_field' = FIDX_NAME
    /\ UNCHANGED <<profile_dialog_open, ssh_section_expanded, tableVars, broker, edits>>

\* An edit of the selected profile in memory, with its effect on the focus.
EditProf(prof, f) ==
    /\ Input /\ HasProf /\ edits < MaxEdits /\ edits' = edits + 1
    /\ profiles' = [profiles EXCEPT ![active_profile_idx + 1] = prof]
    /\ profile_active_field' = f
    /\ UNCHANGED <<active_profile_idx, profile_last_idx, profile_dialog_open,
                   ssh_section_expanded, numeric_bufs, tableVars, broker, keys>>

AddSub ==
    /\ HasProf /\ Prof.subs < MaxSubs
    /\ EditProf([Prof EXCEPT !.subs = @ + 1], FIDX_SUB_BASE + Prof.subs)

\* The focus once only `subs` subscriptions are left.
Mutant_FocusWithin(subs) ==
    IF profile_active_field > FIDX_SUB_BASE + subs THEN -1 ELSE profile_active_field

FocusWithin(subs) ==
    IF profile_active_field >= FIDX_SUB_BASE + subs THEN -1 ELSE profile_active_field

RemoveSub ==
    /\ HasProf /\ Prof.subs > 0
    /\ EditProf([Prof EXCEPT !.subs = @ - 1], FocusWithin(Prof.subs - 1))

SetTransport(t) ==
    /\ HasProf /\ t # Prof.transport
    /\ EditProf([Prof EXCEPT !.transport = t],
                IF t = 0 /\ profile_active_field = FIDX_WS_PATH THEN -1 ELSE profile_active_field)

\* A profile that was new learns the id of the row it was stored in.
Mutant_Stored(prof, id) == prof

Stored(prof, id) == IF prof.id = 0 THEN [prof EXCEPT !.id = id] ELSE prof

\* db_save_profile: INSERT OR REPLACE, a new row when the id is 0.  `saved` is the result.
Store(prof, saved) ==
    LET i == active_profile_idx + 1
        id == IF prof.id = 0 THEN rowid + 1 ELSE prof.id
    IN  IF saved /\ dbOpen
        THEN /\ rowid' = IF prof.id = 0 THEN id ELSE rowid
             /\ rows' = [r \in DOMAIN rows \cup {id} |->
                            IF r = id THEN RowOf(prof) ELSE rows[r]]
             /\ profiles' = [profiles EXCEPT ![i] = Stored(prof, id)]
        ELSE /\ profiles' = [profiles EXCEPT ![i] = prof]
             /\ UNCHANGED <<rows, rowid>>

SaveProfile(saved) ==
    /\ Input /\ HasProf /\ dbOpen
    /\ Store([Prof EXCEPT !.port = numeric_bufs], saved)
    /\ UNCHANGED <<dialogVars, dbOpen, broker, keys, edits>>

\* Forget which profile the buffers are of: the next frame fills them again.
Mutant_ForgetBuffers == UNCHANGED profile_last_idx

ForgetBuffers == profile_last_idx' = -2

db_delete_profile(id, deleted) ==
    rows' = IF deleted THEN [r \in DOMAIN rows \ {id} |-> rows[r]] ELSE rows

\* The result of the DELETE is ignored: the list drops the entry in any case.
DeleteProfile(deleted) ==
    /\ Input /\ HasProf /\ dbOpen
    /\ db_delete_profile(Prof.id, deleted)
    /\ profiles' = Kept(profiles, DOMAIN profiles \ {active_profile_idx + 1})
    /\ active_profile_idx' = IF active_profile_idx >= Len(profiles')
                             THEN Len(profiles') - 1 ELSE active_profile_idx
    /\ profile_active_field' = -1 /\ ForgetBuffers
    /\ UNCHANGED <<profile_dialog_open, ssh_section_expanded, numeric_bufs, dbOpen, rowid,
                   broker, keys, edits>>

\* The settings are saved when they can be, and tried at once in any case.
ConnectProfile(saved, connected) ==
    /\ Input /\ HasProf
    /\ Store([Prof EXCEPT !.port = numeric_bufs], saved)
    /\ broker' = IF connected THEN [key |-> Prof.key, port |-> numeric_bufs] ELSE broker
    /\ profile_dialog_open' = FALSE /\ profile_active_field' = -1
    /\ UNCHANGED <<active_profile_idx, profile_last_idx, ssh_section_expanded, numeric_bufs,
                   dbOpen, keys, edits>>

ProfNext ==
    \/ ProfRestart \/ OpenDialog \/ FrameStart
    \/ TypeNumber \/ PressTab \/ PressEscape \/ \E f \in Shown : ClickField(f)
    \/ ToggleSshSection \/ SelectProfile \/ CloseDialog \/ NewProfile
    \/ AddSub \/ RemoveSub \/ \E t \in {0, 1} : SetTransport(t)
    \/ \E ok \in BOOLEAN : SaveProfile(ok) \/ DeleteProfile(ok)
    \/ \E ok, up \in BOOLEAN : ConnectProfile(ok, up)

ProfSpec == ProfInit /\ [][ProfNext]_profVars

-----------------------------------------------------------------------------
\* Numbers typed for one profile never reach another one: not the list, not the table and
\* not the connection, although all profiles share the buffers (profile_dialog.c:48,
\* "sync numeric string buffers when the active profile changes").
PortsAreTheirOwn ==
    /\ \A i \in DOMAIN profiles : profiles[i].port = profiles[i].key
    /\ \A r \in DOMAIN rows : rows[r].port = rows[r].key
    /\ broker.port = broker.key

\* Keys only go to a field the form shows (FIDX_* at profile_dialog.c:27): whatever was
\* removed, hidden, deselected or deleted under the focus.  The one exception the code has is
\* the private key field, which keeps the focus when the SSH section is collapsed (line 926
\* tests "<= FIDX_SSH_PASS").
FocusIsShown ==
    (profile_dialog_open /\ profStep = "input" /\ profile_active_field # -1) =>
        \/ profile_active_field \in Shown
        \/ HasProf /\ profile_active_field = FIDX_SSH_KEY /\ ~ssh_section_expanded

\* A profile has at most one row, and an entry that has an id is that row's profile: failed
\* saves, failed deletes and restarts never make a later save overwrite another profile's row
\* or store a profile twice (db_save_profile, db.c:203).
OneRowPerProfile ==
    /\ \A r, s \in DOMAIN rows : rows[r].key = rows[s].key => r = s
    /\ \A i \in DOMAIN profiles : profiles[i].id # 0 =>
         profiles[i].id \in DOMAIN rows /\ rows[profiles[i].id].key = profiles[i].key
    /\ \A i, j \in DOMAIN profiles : profiles[i].key = profiles[j].key => i = j
=============================================================================
