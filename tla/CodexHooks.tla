----------------------------- MODULE CodexHooks -----------------------------
(***************************************************************************)
(* The Codex CLI integration (packages/codex-woclaw): install.py, which    *)
(* puts three hook scripts, a hooks.json and a setting into ~/.codex and   *)
(* takes them away again, and the hooks, through which Codex sessions hand *)
(* their context on by way of the hub's memory.                            *)
(*                                                                         *)
(* Every file is written in place: an installer that is killed, or meets a *)
(* full disk, leaves what it has written so far.  The next run starts from *)
(* there.  One installer runs at a time; sessions start and stop meanwhile.*)
(*                                                                         *)
(* config.toml is the sequence of the lines that matter, split where an    *)
(* interrupted write may end; hooks.json is reduced to whose commands it   *)
(* runs on which event.  A summary is named by its session, a checkpoint   *)
(* by its place among all that were sent.  When Codex looks at its files   *)
(* is Codex's affair: here, at every event.                                *)
(***************************************************************************)
EXTENDS Integers, Sequences, FiniteSets

CONSTANTS
    Session,    \* Codex sessions
    None,       \* no summary, no checkpoint, no answer
    UserConfig, \* the contents of config.toml a user may have written
    MaxRuns,    \* bound: runs of the installer
    MaxEdits,   \* bound: edits by the user
    MaxSent,    \* bound: checkpoints
    LastSecond  \* bound: the clock

Line == {"settings", "[features]", "codex_hooks", "= true", "= false"}

Has(c, l)  == \E i \in DOMAIN c : c[i] = l
Once(c, l) == \A i, j \in DOMAIN c : c[i] = l /\ c[j] = l => i = j

(* A user sets codex_hooks at most once, in the table [features].  The same  *)
(* setting as a dotted key, in an inline table or under a header written     *)
(* with blanks is TOML too, but no config.toml of this model: install.py     *)
(* would not know it for the setting.                                       *)
WellFormed(c) ==
    /\ c \in Seq(Line)
    /\ Once(c, "codex_hooks")
    /\ \A i \in DOMAIN c : c[i] = "codex_hooks" => \E j \in 1..i : c[j] = "[features]"

ASSUME HooksAssumption ==
    /\ None \notin Session
    /\ (Session \cup {None}) \cap Nat = {}
    /\ \A c \in UserConfig : WellFormed(c)
    /\ MaxRuns \in Nat /\ MaxEdits \in Nat /\ MaxSent \in Nat /\ LastSecond \in Nat

VARIABLES
    script,     \* ~/.codex/hooks: each script "absent", "torn" or "whole"
    hooks,      \* ~/.codex/hooks.json, and whose commands it runs when
    config,     \* ~/.codex/config.toml
    setup,      \* the installer: what it is doing, and its next step
    runs, edits, second,    \* counters, and the clock
    session,    \* the sessions
    memory,     \* the hub's memory: the context, and the checkpoints
    late,       \* writes the hub has still to make for hooks that gave up
    made,       \* the checkpoints sent: in which second, and told saved
    reported,   \* history: what the installer last reported done
    removing,   \* history: an uninstall began after the last finished install
    plain,      \* history: no [features] before the installer's, no write of it torn
    removed     \* history: the checkpoints in rows of the memory that were removed

files == <<script, hooks, config>>
hub   == <<memory, late, made, removed>>
vars  == <<files, setup, runs, edits, second, session, hub, reported, removing, plain>>

Scripts == <<"SessionStart", "Stop", "PreCompact">>   \* in the order of their removal
Events  == {"SessionStart", "Stop", "PreCompact"}
Second == 0..LastSecond

Context == <<"codex:context", 0>>
Key == {Context} \cup {<<"compact:project:context", n>> : n \in Second}

(* Whose commands hooks.json has on each event. *)
Json(owners) == [file |-> "json", runs |-> [e \in Events |-> owners]]
NoJson(file) == [file |-> file, runs |-> [e \in Events |-> {}]]
UserJson     == {[file |-> "json", runs |-> f] : f \in [Events -> SUBSET {"user"}]}

HooksTypeOK ==
    /\ script \in [Events -> {"absent", "torn", "whole"}]
    /\ hooks \in {NoJson("absent"), NoJson("torn"), Json({"woclaw"})} \cup UserJson
    /\ config \in Seq(Line)
    /\ setup \in [run : {"none"}, at : {0}] \cup [run : {"install"}, at : 1..5]
                 \cup [run : {"uninstall"}, at : 1..4]
    /\ runs \in 0..MaxRuns /\ edits \in 0..MaxEdits /\ second \in Second
    /\ session \in [Session -> [stage : {"new", "open", "ended"},
                                answer : Session \cup {None},
                                got : Session \cup {None}]]
    /\ memory[Context] \in Session \cup {None}
    /\ memory \in [Key -> Session \cup DOMAIN made \cup {None}]
    /\ late \subseteq Key \X (Session \cup DOMAIN made)
    /\ made \in Seq([at : Second, told : BOOLEAN]) /\ Len(made) <= MaxSent
    /\ removed \subseteq DOMAIN made
    /\ reported \in {"nothing", "installed", "uninstalled"}
    /\ removing \in BOOLEAN /\ plain \in BOOLEAN

Init ==
    /\ script = [e \in Events |-> "absent"]
    /\ hooks \in {NoJson("absent"), Json({"user"})}
    /\ config \in UserConfig
    /\ setup = [run |-> "none", at |-> 0]
    /\ runs = 0 /\ edits = 0 /\ second = 0
    /\ session = [s \in Session |-> [stage |-> "new", answer |-> None, got |-> None]]
    /\ memory = [k \in Key |-> None] /\ late = {} /\ made = <<>> /\ removed = {}
    /\ reported = "nothing" /\ removing = FALSE
    /\ plain = ~Has(config, "[features]")

-----------------------------------------------------------------------------
(* The installer.                                                          *)

Idle == [run |-> "none", at |-> 0]
AtRest == setup = Idle

StartSetup(run) ==
    /\ AtRest /\ runs < MaxRuns
    /\ runs' = runs + 1
    /\ setup' = [run |-> run, at |-> 1]
    /\ reported' = "nothing"
    /\ removing' = (removing \/ run = "uninstall")
    /\ UNCHANGED <<files, edits, second, session, hub, plain>>

(* The installer goes on, or does not survive the step. *)
Goes == setup' = [setup EXCEPT !.at = @ + 1] /\ UNCHANGED reported
Dies == setup' = Idle /\ UNCHANGED reported
Reports(what) == setup' = Idle /\ reported' = what

UnchangedBySetup == <<runs, edits, second, session, hub>>

(* Mutant: hooks.json is written before the scripts are there. *)
InstallOrderHooksFirst == <<"hooks", "SessionStart", "Stop", "PreCompact", "config">>

(* What main writes, one after the other: scripts, hooks.json, config.toml. *)
InstallOrder == <<"SessionStart", "Stop", "PreCompact", "hooks", "config">>

Installs(what) == setup.run = "install" /\ InstallOrder[setup.at] = what

(* shutil.copy2 empties the target before it fills it. *)
CopyHook(e) ==
    /\ Installs(e)
    /\ \/ script' = [script EXCEPT ![e] = "whole"] /\ Goes
       \/ script' = [script EXCEPT ![e] = "torn"] /\ Dies
    /\ UNCHANGED <<hooks, config, UnchangedBySetup, removing, plain>>

(* The whole file is replaced, with the hooks of the user that were in it. *)
CreateHooksJson ==
    /\ Installs("hooks")
    /\ \/ hooks' = Json({"woclaw"}) /\ Goes
       \/ hooks' = NoJson("torn") /\ Dies
    /\ UNCHANGED <<script, config, UnchangedBySetup, removing, plain>>

(* Mutant: the setting counts only when it is true. *)
AlreadyEnabledIfTrue(c) == Has(c, "[features]") /\ Has(c, "= true")

(* Both words occur somewhere in the file. *)
AlreadyEnabled(c) == Has(c, "[features]") /\ Has(c, "codex_hooks")

(* Mutant: the setting is added without its table. *)
AdditionWithoutTable == <<"codex_hooks", "= true">>

Addition == <<"[features]", "codex_hooks", "= true">>

(* An interrupted write leaves some part of the new file. *)
UpdateConfigToml ==
    /\ Installs("config")
    /\ \/ /\ AlreadyEnabled(config)
          /\ Reports("installed") /\ removing' = FALSE
          /\ UNCHANGED <<config, plain>>
       \/ /\ ~AlreadyEnabled(config)
          /\ config' = config \o Addition
          /\ Reports("installed") /\ removing' = FALSE
          /\ UNCHANGED plain
       \/ /\ ~AlreadyEnabled(config)
          /\ \E n \in 0..Len(config) + 2 : config' = SubSeq(config \o Addition, 1, n)
          /\ Dies /\ plain' = FALSE
          /\ UNCHANGED removing
    /\ UNCHANGED <<script, hooks, UnchangedBySetup>>

RemoveScript ==
    /\ setup.run = "uninstall" /\ setup.at \in 1..3
    /\ script' = [script EXCEPT ![Scripts[setup.at]] = "absent"]
    /\ Goes
    /\ UNCHANGED <<hooks, config, UnchangedBySetup, removing, plain>>

(* The filter looks for the word in each character of a command that an     *)
(* entry does not have at its top level.                                    *)
IsWoclawEntry(h) == FALSE

(* A file that is not JSON, or cannot be written, is deleted.  config.toml   *)
(* stays as it is.                                                         *)
CleanHooksJson ==
    /\ setup.run = "uninstall" /\ setup.at = 4
    /\ \/ /\ hooks.file # "json"
          /\ hooks' = NoJson("absent") /\ Reports("uninstalled")
       \/ /\ hooks.file = "json"
          /\ hooks' \in {NoJson("absent"),
                         [hooks EXCEPT !.runs =
                            [e \in Events |-> {h \in @[e] : ~IsWoclawEntry(h)}]]}
          /\ Reports("uninstalled")
       \/ /\ hooks.file = "json"
          /\ hooks' = NoJson("torn") /\ Dies
    /\ UNCHANGED <<script, config, UnchangedBySetup, removing, plain>>

(* The installer is killed between two steps. *)
SetupKilled ==
    /\ ~AtRest
    /\ Dies
    /\ UNCHANGED <<files, UnchangedBySetup, removing, plain>>

(* A user writes one of the two files anew. *)
UserEdits ==
    /\ AtRest /\ edits < MaxEdits
    /\ edits' = edits + 1
    /\ \/ config' \in UserConfig /\ plain' = ~Has(config', "[features]") /\ UNCHANGED hooks
       \/ hooks' \in UserJson /\ UNCHANGED <<config, plain>>
    /\ reported' = "nothing"
    /\ UNCHANGED <<script, setup, runs, second, session, hub, removing>>

-----------------------------------------------------------------------------
(* The hooks.                                                              *)

(* Codex reads config.toml: a table given twice, or a key without a value,   *)
(* is not TOML.                                                            *)
HooksEnabled(c) ==
    /\ Once(c, "[features]")
    /\ \E i \in 1..Len(c) - 1 : c[i] = "codex_hooks" /\ c[i + 1] = "= true"
    /\ \A i \in DOMAIN c : c[i] = "codex_hooks" => \E j \in 1..i : c[j] = "[features]"

(* Codex runs a hook to its end. *)
Fires(e) ==
    /\ HooksEnabled(config)
    /\ "woclaw" \in hooks.runs[e]
    /\ script[e] = "whole"

UnchangedBySession == <<files, setup, runs, edits, reported, removing, plain>>

(* GET /memory/<key> answers 200 with the value under its key, or 404. *)
MemoryGet == [key |-> "codex:context", value |-> memory[Context]]

(* read_memory takes a value from an answer that says it exists. *)
ReadMemory(answer) == IF "exists" \in DOMAIN answer THEN answer.value ELSE None

(* SessionStart.  Without the hub, or its answer in time, a session starts   *)
(* with nothing.                                                           *)
StartSession(s) ==
    /\ session[s].stage = "new"
    /\ \/ /\ Fires("SessionStart") /\ memory[Context] # None
          /\ session' = [session EXCEPT ![s].stage = "open",
                                        ![s].answer = memory[Context],
                                        ![s].got = ReadMemory(MemoryGet)]
       \/ session' = [session EXCEPT ![s].stage = "open"]
    /\ UNCHANGED <<UnchangedBySession, second, hub>>

(* POST /memory is stored and acknowledged; or it fails, or the hook gives   *)
(* up after its timeout, and the hub may have stored it or store it later.  *)
Post(k, v, told) ==
    IF told THEN memory' = [memory EXCEPT ![k] = v] /\ UNCHANGED late
            ELSE late' = late \cup {<<k, v>>} /\ UNCHANGED memory

Lands(w) ==
    /\ w \in late
    /\ memory' = [memory EXCEPT ![w[1]] = w[2]]
    /\ late' = late \ {w}
    /\ UNCHANGED <<UnchangedBySession, second, session, made, removed>>

(* The weekly eviction, or a client of the hub, deletes a row; a client that *)
(* writes under its key does as much.                                      *)
Removed(k) ==
    /\ memory[k] # None
    /\ memory' = [memory EXCEPT ![k] = None]
    /\ removed' = removed \cup ({memory[k]} \cap DOMAIN made)
    /\ UNCHANGED <<UnchangedBySession, second, session, late, made>>

(* Stop: a summary, unless there is no transcript or Codex is killed. *)
StopSession(s) ==
    /\ session[s].stage = "open"
    /\ session' = [session EXCEPT ![s].stage = "ended"]
    /\ (Fires("Stop") /\ \E told \in BOOLEAN : Post(Context, s, told)) \/ UNCHANGED <<memory, late>>
    /\ UNCHANGED <<UnchangedBySession, second, made, removed>>

(* Mutant: one key for all checkpoints of a project. *)
CheckpointKeyOfProject(n) == <<"compact:project:context", 0>>

(* compact:project:context:<time to the second> *)
CheckpointKey(n) == <<"compact:project:context", n>>

(* PreCompact of some session.  Without a CODEX_CONTEXT_FILE it saves the   *)
(* transcript that changed last, be it another session's.                  *)
PreCompact ==
    /\ Len(made) < MaxSent
    /\ \E s \in Session : session[s].stage = "open"
    /\ Fires("PreCompact")
    /\ \E told \in BOOLEAN :
         /\ Post(CheckpointKey(second), Len(made) + 1, told)
         /\ made' = Append(made, [at |-> second, told |-> told])
    /\ UNCHANGED <<UnchangedBySession, second, session, removed>>

(* The local time: it is set back when summer time ends. *)
Tick ==
    /\ second' \in Second \ {second}
    /\ UNCHANGED <<UnchangedBySession, session, hub>>

Next ==
    \/ \E run \in {"install", "uninstall"} : StartSetup(run)
    \/ \E e \in Events : CopyHook(e)
    \/ CreateHooksJson \/ UpdateConfigToml
    \/ RemoveScript \/ CleanHooksJson \/ SetupKilled
    \/ UserEdits
    \/ \E s \in Session : StartSession(s) \/ StopSession(s)
    \/ PreCompact \/ Tick
    \/ \E w \in late : Lands(w)
    \/ \E k \in Key : Removed(k)

Spec == Init /\ [][Next]_vars

-----------------------------------------------------------------------------
(* What hooks.json names is there, from whatever broken state an install    *)
(* starts and wherever it ends, as long as nothing is uninstalled.          *)
NamedScriptsExist ==
    ~removing => \A e \in Events : "woclaw" \in hooks.runs[e] => script[e] # "absent"

(* A finished install is complete, and enabled unless config.toml had a      *)
(* [features] table of its own or a write of it was torn: whatever was      *)
(* left behind by interrupted runs, uninstalls and edits.                   *)
InstalledMeansInstalled ==
    reported = "installed" =>
        /\ \A e \in Events : script[e] = "whole"
        /\ hooks = Json({"woclaw"})
        /\ plain => HooksEnabled(config)

(* However often install.py is run, interrupted and run again, it sets      *)
(* codex_hooks once, and never beside a setting of the user's, written as    *)
(* WellFormed has it.                                                      *)
SetOnce == Once(config, "codex_hooks")

(* A checkpoint that was reported saved stays in the hub's memory until its *)
(* row is removed: whatever is stored later, or lands late, replaces it     *)
(* only if it is a checkpoint of the same second of the local time, be it   *)
(* of another session or of the same one, or an hour later when summer time *)
(* has ended.                                                              *)
CheckpointsKept ==
    \A p \in DOMAIN made : made[p].told =>
        \/ \E k \in Key : memory[k] = p
        \/ p \in removed
        \/ \E q \in DOMAIN made : q # p /\ made[q].at = made[p].at

(* README.md:15 of the package: a summary is saved "so future sessions can  *)
(* pick up where you left off".  What the hub answers is what a session     *)
(* starts with.                                                            *)
SessionsPickUp == \A s \in Session : session[s].got = session[s].answer

=============================================================================
