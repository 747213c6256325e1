--------------------------- MODULE SettingsEditor ---------------------------
(***************************************************************************)
(* The settings overlay (ui/settings, app/settings_overlay.rs) over the    *)
(* running configuration and the TOML file it writes (app/config.rs,       *)
(* app/startup.rs, app/safety_audit.rs).                                   *)
(*                                                                         *)
(* One section of thresholds is modelled, the quota section, which has all *)
(* that the others have: a default row, override rows, legacy overrides    *)
(* and values narrowed to 32 bits.  Tabs, selection and scrolling decide   *)
(* which field the next key acts on and nothing else: any of them.         *)
(***************************************************************************)
EXTENDS Naturals, Sequences

CONSTANTS
    Scopes,         \* rows of overrides, beside the default row
    Params,         \* fields of the Parameters tab
    Numbers,        \* those that are typed; the others are toggled or cycled
    Shortcuts,      \* those that H and L toggle, in the overlay and outside it
    Safety,         \* those that --set may only make safer
    Top,            \* thresholds are 0..Top, the even ones being 32-bit floats
    Base,           \* what is loaded beneath the written file
    InitialFiles,   \* what the written file may hold before the first start
    Orders,         \* the orders in which the lines of the file may stand
    MaxEdits,       \* bound: changes made by the operator and writes that are torn
    Default, Legacy, Sidefile, None, NoFile, Garbled, Invalid

Typed    == 0..Top
Stored   == {v \in Typed : v % 2 = 0}
Pair     == [warning : Stored, critical : Stored]
Values   == {0, 1}      \* of a parameter; 0 is the safer one
Bounds   == {"warning", "critical"}
Rows     == Scopes \union {Default}
Fields   == Rows \X Bounds
Texts    == Typed \union {Invalid}

Config   == [default : Pair, override : [Scopes -> Pair \union {None}],
             legacy : Pair \union {None}, sidefile : Values, param : [Params -> Values]]

\* The lines of the file: two for every table of thresholds, one for each of the others.
Tables   == Rows \union {Legacy}
Keys     == (Tables \X Bounds) \union {Sidefile} \union Params
File     == {f \in [Keys -> Stored \union Values \union {None}] :
                 /\ \A k \in Tables \X Bounds : f[k] \in Stored \union {None}
                 /\ \A k \in Params \union {Sidefile} : f[k] \in Values \union {None}}

Ordered(pair) == pair.warning < pair.critical

ASSUME FieldsAssumption ==
    /\ Numbers \subseteq Params /\ Shortcuts \subseteq Params \ Numbers /\ Safety \subseteq Params
    /\ Default \notin Scopes /\ Legacy \notin Rows
    /\ Params \intersect (Tables \X Bounds) = {} /\ Sidefile \notin Params \union (Tables \X Bounds)
ASSUME BoundsAssumption ==
    Top \in Nat \ {0} /\ Top % 2 = 0 /\ MaxEdits \in Nat /\ Invalid \notin Nat
ASSUME NoneAssumption ==
    /\ None \notin Nat \union Pair \union ((Fields \union Params) \X Texts)
    /\ NoFile \notin File /\ Garbled \notin File \union {NoFile}
ASSUME OrdersAssumption == Orders \subseteq Seq(Keys)

VARIABLES
    open,               \* SettingsOverlay.open
    editing,            \* the selected field with edit_buffer, or None
    filtering,          \* parameter_filter.is_some()
    status,
    dirty_parameters,
    config,             \* Context.config
    file,               \* the file at Context.config_path
    edits,              \* counts changes and torn writes, up to MaxEdits
    unmarked,           \* history: parameters left different from the file without a mark
    torn,               \* history: tables of the file in which a write stopped
    spoiled             \* history: rows loaded from such a table and not edited since

overlayVars == <<open, editing, filtering, status, dirty_parameters>>
tearVars    == <<torn, spoiled>>
vars        == <<overlayVars, config, file, edits, unmarked, tearVars>>

TypeOK ==
    /\ open \in BOOLEAN /\ filtering \in BOOLEAN
    /\ editing \in ((Fields \union Numbers) \X Texts) \union {None}
    /\ editing # None => open /\ ~filtering
    /\ status \in {"Idle", "Dirty", "Error", "Saved"}
    /\ dirty_parameters \subseteq Params /\ unmarked \subseteq Params
    /\ torn \subseteq Tables /\ spoiled \subseteq Rows
    /\ config \in Config /\ file \in File \union {NoFile, Garbled}
    /\ edits \in 0..MaxEdits

-----------------------------------------------------------------------------
(* Thresholds *)

\* The value as it is stored: the nearest 32-bit float, here the next above.
Narrow(v) == 2 * ((v + 1) \div 2)

\* provider_override: a row's own pair, or the legacy one of its provider.
Read(c, row) == IF row = Default THEN c.default
                ELSE IF c.override[row] # None THEN c.override[row] ELSE c.legacy

\* What the rules use for the row (thresholds resolved per provider and window).
Effective(c, row) == IF Read(c, row) = None THEN c.default ELSE Read(c, row)

\* Fault: an override is validated against the default row.
ValidAgainstDefault(row, bound, v) ==
    IF bound = "warning" THEN v < config.default.critical ELSE config.default.warning < v

\* validate_field_value compares what was typed with the stored partner.
ValidFieldValue(row, bound, v) ==
    IF bound = "warning" THEN v < Effective(config, row).critical
                         ELSE Effective(config, row).warning < v

\* apply_field_value: an override that does not exist starts from the default row.
Applied(row, bound, v) ==
    IF row = Default THEN [config EXCEPT !.default[bound] = Narrow(v)]
    ELSE LET entry == IF config.override[row] = None THEN config.default ELSE config.override[row]
         IN  [config EXCEPT !.override[row] = [entry EXCEPT ![bound] = Narrow(v)]]

\* Fault: what is saved is not validated again.
ValidUnchecked == TRUE

\* validate_full_config
ValidFullConfig == \A row \in Rows : Ordered(Effective(config, row))

-----------------------------------------------------------------------------
(* The file *)

Over(value, below) == IF value = None THEN below ELSE value

\* What a configuration says of a table, and of a line.
PairOf(c, table) == IF table = Default THEN c.default
                    ELSE IF table = Legacy THEN c.legacy ELSE c.override[table]
LineOf(c, k) ==
    IF k = Sidefile THEN c.sidefile
    ELSE IF k \in Params THEN c.param[k]
    ELSE IF PairOf(c, k[1]) = None THEN None ELSE PairOf(c, k[1])[k[2]]

\* merge_toml_values: the lines of the file over those that lie beneath it.
Line(f, k) == IF f \in {NoFile, Garbled} THEN LineOf(Base, k) ELSE Over(f[k], LineOf(Base, k))

\* The thresholds of a table have no defaults of their own: one alone is an error.
HalfWritten(f, table) ==
    (Line(f, <<table, "warning">>) = None) # (Line(f, <<table, "critical">>) = None)
Loads(f) == f # Garbled /\ \A table \in Tables : ~HalfWritten(f, table)

PairIn(f, table) ==
    IF \E b \in Bounds : Line(f, <<table, b>>) = None THEN None
    ELSE [warning |-> Line(f, <<table, "warning">>), critical |-> Line(f, <<table, "critical">>)]

\* load_layered_from_paths: the configuration that a file makes.
Loaded(f) ==
    [default  |-> PairIn(f, Default),
     override |-> [s \in Scopes |-> PairIn(f, s)],
     legacy   |-> PairIn(f, Legacy),
     sidefile |-> Line(f, Sidefile),
     param    |-> [p \in Params |-> Line(f, p)]]

ASSUME FilesAssumption ==
    /\ Base \in Config /\ Base.legacy = None
    /\ InitialFiles \subseteq File \union {NoFile} /\ \A f \in InitialFiles : Loads(f)

OrderedIn(f, table) == PairIn(f, table) # None => Ordered(PairIn(f, table))

\* Nothing checks a file that was written by hand: it is taken to be in order.
ASSUME OrderedAssumption ==
    \A f \in InitialFiles \union {NoFile}, table \in Tables : OrderedIn(f, table)

\* to_string_pretty, for a file that does not exist: everything but legacy tables.
Scaffold == [k \in Keys |-> IF k \in {Legacy} \X Bounds THEN None ELSE LineOf(config, k)]

\* The rows that merge_overlay_fields writes: those with a value.
Rewritten == {row \in Rows : Read(config, row) # None}
MergedLine(k) == IF k = Sidefile THEN config.sidefile
                 ELSE IF k \in Rewritten \X Bounds THEN Read(config, k[1])[k[2]] ELSE file[k]

\* Fault: only thresholds and integrations reach an existing file.
MergedWithoutParameters == [k \in Keys |-> MergedLine(k)]

\* merge_overlay_fields: of the parameters only the marked ones are written.
Merged == [k \in Keys |-> IF k \in dirty_parameters THEN config.param[k] ELSE MergedLine(k)]

\* What a save writes.
Body == IF file = NoFile THEN Scaffold ELSE Merged

\* A line that a write stops in: of a number some digits may be left, of any other
\* value, or of a name, nothing that can be parsed.
Cut(k, v) ==
    {w \in IF k \in Tables \X Bounds THEN Stored ELSE IF k \in Numbers THEN Values ELSE {} :
        v # None /\ w < v}

\* What is left of a body whose writing stops behind or in the n-th line.
Torn(body, order, n) ==
    LET kept == [k \in Keys |-> IF \E i \in 1..n : order[i] = k THEN body[k] ELSE None]
    IN  {kept, Garbled}
        \union (IF n = 0 THEN {}
                ELSE {[kept EXCEPT ![order[n]] = v] : v \in Cut(order[n], body[order[n]])})

\* The tables that are neither as the body has them nor lost.
Split(f, body) ==
    IF f = Garbled THEN {}
    ELSE {table \in Tables : /\ \E b \in Bounds : f[<<table, b>>] # body[<<table, b>>]
                             /\ \E b \in Bounds : f[<<table, b>>] # None}

Unsaved(f) == {p \in Params : config.param[p] # Loaded(f).param[p]}

-----------------------------------------------------------------------------
(* Keys and clicks *)

\* The program starts: --set may lower a safety parameter for this session.
Started(f, requests) ==
    LET loaded == Loaded(f) IN
    [loaded EXCEPT !.param = [p \in Params |->
        IF p \in requests \intersect Safety THEN 0 ELSE loaded.param[p]]]

Closed ==
    /\ open = FALSE /\ editing = None /\ filtering = FALSE
    /\ status = "Idle" /\ dirty_parameters = {}

Init ==
    /\ file \in InitialFiles
    /\ \E requests \in SUBSET Safety :
           /\ config = Started(file, requests)
           /\ unmarked = {p \in requests : Loaded(file).param[p] # 0}
    /\ Closed /\ edits = 0 /\ torn = {} /\ spoiled = {}

\* A file that does not load ends the start.
Restart ==
    /\ Loads(file)
    /\ \E requests \in SUBSET Safety :
           /\ config' = Started(file, requests)
           /\ unmarked' = {p \in requests : Loaded(file).param[p] # 0}
    /\ open' = FALSE /\ editing' = None /\ filtering' = FALSE
    /\ status' = "Idle" /\ dirty_parameters' = {}
    /\ spoiled' = torn \intersect Rows
    /\ UNCHANGED <<file, edits, torn>>

\* A key that is a command: not one typed into the edit buffer or the filter.
Commanding == open /\ editing = None /\ ~filtering

Edit == edits < MaxEdits /\ edits' = edits + 1

\* Open forgets the marks, not the edits.
Open ==
    /\ ~open /\ open' = TRUE
    /\ status' = "Idle" /\ dirty_parameters' = {}
    /\ unmarked' = unmarked \union Unsaved(file)
    /\ UNCHANGED <<editing, filtering, config, file, edits, tearVars>>

\* S, q, Esc or a click on [x]; the click also while editing or filtering, S
\* also while filtering. The filter stays.
Close ==
    /\ open /\ open' = FALSE /\ editing' = None
    /\ UNCHANGED <<filtering, status, dirty_parameters, config, file, edits, unmarked, tearVars>>

StartFilter ==
    /\ Commanding /\ filtering' = TRUE
    /\ UNCHANGED <<open, editing, status, dirty_parameters, config, file, edits, unmarked,
                   tearVars>>

\* Esc. (Enter keeps the filter and the typing mode.)
CancelFilter ==
    /\ open /\ filtering /\ filtering' = FALSE
    /\ UNCHANGED <<open, editing, status, dirty_parameters, config, file, edits, unmarked,
                   tearVars>>

\* Behind the bound no field is opened: nothing could be committed.
StartEdit(field) ==
    /\ Commanding /\ edits < MaxEdits
    /\ editing' = <<field, IF field \in Numbers THEN config.param[field]
                            ELSE Effective(config, field[1])[field[2]]>>
    /\ status' = "Idle"
    /\ UNCHANGED <<open, filtering, dirty_parameters, config, file, edits, unmarked, tearVars>>

\* Characters and Backspace make any text out of any other.
TypeText(text) ==
    /\ editing # None /\ editing' = <<editing[1], text>>
    /\ UNCHANGED <<open, filtering, status, dirty_parameters, config, file, edits, unmarked,
                   tearVars>>

CancelEdit ==
    /\ editing # None /\ editing' = None
    /\ UNCHANGED <<open, filtering, status, dirty_parameters, config, file, edits, unmarked,
                   tearVars>>

Accepts(field, text) ==
    IF field \in Numbers THEN text \in Values
    ELSE text \in Typed /\ ValidFieldValue(field[1], field[2], text)

\* Fault: only the status tells of the edit.
MarkStatusOnly(p) == dirty_parameters' = dirty_parameters /\ status' = "Dirty"

\* mark_parameter_dirty
MarkDirty(p) == dirty_parameters' = dirty_parameters \union {p} /\ status' = "Dirty"

CommitThreshold ==
    /\ editing # None /\ editing[1] \in Fields /\ Accepts(editing[1], editing[2]) /\ Edit
    /\ config' = Applied(editing[1][1], editing[1][2], editing[2])
    /\ editing' = None /\ status' = "Dirty"
    /\ spoiled' = spoiled \ {editing[1][1]}
    /\ UNCHANGED <<open, filtering, dirty_parameters, file, unmarked, torn>>

CommitParameter ==
    /\ editing # None /\ editing[1] \in Numbers /\ Accepts(editing[1], editing[2]) /\ Edit
    /\ config' = [config EXCEPT !.param[editing[1]] = editing[2]]
    /\ MarkDirty(editing[1]) /\ editing' = None
    /\ UNCHANGED <<open, filtering, file, unmarked, tearVars>>

\* A rejected text stays in the buffer.
CommitRejected ==
    /\ editing # None /\ ~Accepts(editing[1], editing[2])
    /\ status' = "Error"
    /\ UNCHANGED <<open, editing, filtering, dirty_parameters, config, file, edits, unmarked,
                   tearVars>>

Toggled(p) == config' = [config EXCEPT !.param[p] = 1 - @]

\* Space, e or Enter on a parameter that is not typed; H and L on theirs.
ActivateParameter(p) ==
    /\ Commanding /\ p \notin Numbers /\ Edit
    /\ Toggled(p) /\ MarkDirty(p)
    /\ UNCHANGED <<open, editing, filtering, file, unmarked, tearVars>>

\* H and L on the dashboard, outside the overlay, mark nothing.
ToggleOutside(p) ==
    /\ ~open /\ p \in Shortcuts /\ Edit
    /\ Toggled(p)
    /\ unmarked' = unmarked \union {p}
    /\ UNCHANGED <<overlayVars, file, tearVars>>

\* The key on the Integrations tab; a click also while filtering.
ToggleIntegration ==
    /\ open /\ editing = None /\ Edit
    /\ config' = [config EXCEPT !.sidefile = 1 - @]
    /\ status' = "Dirty"
    /\ UNCHANGED <<open, editing, filtering, dirty_parameters, file, unmarked, tearVars>>

ClearOverride(s) ==
    /\ Commanding /\ Edit
    /\ config' = [config EXCEPT !.override[s] = None]
    /\ status' = "Dirty" /\ spoiled' = spoiled \ {s}
    /\ UNCHANGED <<open, editing, filtering, dirty_parameters, file, unmarked, torn>>

\* A configuration that is valid, over a file that can be read and parsed.
Saves == Commanding /\ ValidFullConfig /\ file # Garbled

Save ==
    /\ Saves
    /\ file' = Body /\ torn' = torn \ Rewritten
    /\ dirty_parameters' = {} /\ status' = "Saved"
    /\ UNCHANGED <<open, editing, filtering, config, edits, unmarked, spoiled>>

\* The configuration is invalid, or the file cannot be read, parsed or opened.
SaveRefused ==
    /\ Commanding /\ status' = "Error"
    /\ UNCHANGED <<open, editing, filtering, dirty_parameters, config, file, edits, unmarked,
                   tearVars>>

\* The file is truncated and then written in part, as on a full disk.
SaveTorn ==
    /\ Saves /\ Edit
    /\ \E order \in Orders : \E n \in 0..Len(order) : file' \in Torn(Body, order, n)
    /\ torn' = (torn \ Rewritten) \union Split(file', Body)
    /\ status' = "Error" /\ unmarked' = unmarked \union Unsaved(file')
    /\ UNCHANGED <<open, editing, filtering, dirty_parameters, config, spoiled>>

Next ==
    \/ Open \/ Close \/ Restart
    \/ StartFilter \/ CancelFilter
    \/ \E field \in Fields \union Numbers : StartEdit(field)
    \/ \E text \in Texts : TypeText(text)
    \/ CancelEdit \/ CommitThreshold \/ CommitParameter \/ CommitRejected
    \/ \E p \in Params : ActivateParameter(p) \/ ToggleOutside(p)
    \/ ToggleIntegration
    \/ \E s \in Scopes : ClearOverride(s)
    \/ Save \/ SaveRefused \/ SaveTorn

Spec == Init /\ [][Next]_vars

-----------------------------------------------------------------------------
(* Properties *)

\* A running parameter that differs from the file is marked as unsaved, but for
\* the ways that leave no mark: Open, --set, the H and L keys of the dashboard
\* and a torn write (SettingsOverlay.dirty_parameters).
UnsavedIsMarked == Unsaved(file) \subseteq dirty_parameters \union unmarked

\* "saved" says that a restart would find the thresholds and integrations that
\* run, but for a cleared override, and every parameter that was marked; and that
\* of a table a write had stopped in, no half is left, but for a cleared or legacy
\* one (save, merge_overlay_fields).
SavedIsLoadedAgain ==
    status = "Saved" =>
        /\ \A row \in Rewritten : Effective(Loaded(file), row) = Effective(config, row)
        /\ Loaded(file).sidefile = config.sidefile
        /\ Unsaved(file) \subseteq unmarked
        /\ \A row \in Rewritten : ~HalfWritten(file, row)

\* No sequence of edits, saves and restarts writes a file that loads a pair whose
\* warning is not below its critical value, but from a table in which a write
\* stopped and which was not saved since (save, validate_full_config).
FilePairsOrdered == \A table \in Tables \ torn : OrderedIn(file, table)

\* Claimed by ui/settings/mod.rs:618, and refuted: a save "cannot persist a pair
\* where warning >= critical".
SavesPersistOrderedPairs == Loads(file) => \A table \in Tables : OrderedIn(file, table)

\* Without legacy overrides no edit makes a warning exceed its critical value in
\* the running configuration, also after a start from a file that a write was torn
\* in: only a pair that such a file gave and nobody edited may be inverted
\* (validate_field_value).
WarningNeverAboveCritical ==
    config.legacy = None =>
        \A row \in Rows \ spoiled : LET pair == PairOf(config, row)
                                   IN  pair # None => pair.warning <= pair.critical

\* Every pair that runs has its warning below its critical value ("Pair
\* invariant", ui/settings/mod.rs:1714).
RunningPairsOrdered == \A row \in Rows : Ordered(Effective(config, row))
=============================================================================
