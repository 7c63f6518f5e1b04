-------------------------- MODULE CodexHooksProofs --------------------------
(***************************************************************************)
(* Proofs about CodexHooks, for any sessions, contents of config.toml and  *)
(* bounds: its types, and what its installer and its checkpoints keep.     *)
(***************************************************************************)
EXTENDS CodexHooks, SequenceTheorems, TLAPS

LEMMA JsonType ==
  /\ NoJson("absent").runs = [e \in Events |-> {}] /\ NoJson("torn").runs = [e \in Events |-> {}]
  /\ Json({"woclaw"}).runs = [e \in Events |-> {"woclaw"}]
  /\ \A h \in UserJson : h.file = "json" /\ h.runs \in [Events -> SUBSET {"user"}]
  /\ NoJson("absent").file = "absent" /\ NoJson("torn").file = "torn"
  /\ Json({"woclaw"}).file = "json"
BY DEF NoJson, Json, UserJson

LEMMA UninstallKeepsJson ==
  ASSUME NEW h \in {Json({"woclaw"})} \cup UserJson
  PROVE  [h EXCEPT !.runs = [e \in Events |-> {o \in @[e] : ~IsWoclawEntry(o)}]] = h
<1>1. h.runs = [e \in Events |-> h.runs[e]]
  BY JsonType
<1>2. \A e \in Events : {o \in h.runs[e] : ~IsWoclawEntry(o)} = h.runs[e]
  BY DEF IsWoclawEntry
<1>3. [e \in Events |-> {o \in h.runs[e] : ~IsWoclawEntry(o)}] = h.runs
  BY <1>1, <1>2
<1>4. h = [file |-> h.file, runs |-> h.runs]
  BY DEF Json, UserJson
<1> QED
  BY <1>3, <1>4

LEMMA AdditionType == Addition \in Seq(Line) /\ Len(Addition) = 3
BY DEF Addition, Line

LEMMA LinesAdded ==
  ASSUME NEW c \in Seq(Line), NEW n \in 0..Len(c) + 3
  PROVE  /\ SubSeq(c \o Addition, 1, n) \in Seq(Line)
         /\ Len(SubSeq(c \o Addition, 1, n)) = n
         /\ \A i \in 1..n : SubSeq(c \o Addition, 1, n)[i] = (c \o Addition)[i]
         /\ Len(c \o Addition) = Len(c) + 3
         /\ \A i \in 1..Len(c) : (c \o Addition)[i] = c[i]
         /\ (c \o Addition)[Len(c) + 1] = "[features]"
         /\ (c \o Addition)[Len(c) + 2] = "codex_hooks"
         /\ (c \o Addition)[Len(c) + 3] = "= true"
<1> DEFINE d == c \o Addition
           a == Addition
           l == Len(c)
<1>1. /\ d \in Seq(Line) /\ Len(d) = l + 3 /\ l \in Nat
      /\ \A i \in 1..l + 3 : d[i] = IF i <= l THEN c[i] ELSE a[i - l]
  BY AdditionType, ConcatProperties
<1>2. a[1] = "[features]" /\ a[2] = "codex_hooks" /\ a[3] = "= true"
  BY DEF Addition
<1> HIDE DEF d, a, l
<1>3. d[l + 1] = a[1] /\ d[l + 2] = a[2] /\ d[l + 3] = a[3]
  BY <1>1
<1>4. \A i \in 1..l : d[i] = c[i]
  BY <1>1
<1>5. n \in Nat /\ n <= Len(d)
  BY <1>1 DEF l
<1>6. \A i \in 1..n : d[i] \in Line
  BY <1>1, <1>5
<1>7. /\ SubSeq(d, 1, n) \in Seq(Line) /\ Len(SubSeq(d, 1, n)) = n
      /\ \A i \in 1..n : SubSeq(d, 1, n)[i] = d[i]
  BY <1>5, <1>6, SubSeqProperties
<1> QED
  BY <1>1, <1>2, <1>3, <1>4, <1>7 DEF d, l

(* What install.py makes of config.toml, in whole or in part. *)
LEMMA ConfigStaysWellFormed ==
  ASSUME NEW c, WellFormed(c), ~AlreadyEnabled(c), NEW n \in 0..Len(c) + 3
  PROVE  WellFormed(SubSeq(c \o Addition, 1, n)) /\ WellFormed(c \o Addition)
<1> DEFINE d == c \o Addition
           l == Len(c)
           t == SubSeq(d, 1, n)
<1>1. c \in Seq(Line) /\ l \in Nat /\ DOMAIN c = 1..l
  BY DEF WellFormed
<1>2. \A i \in 1..l : c[i] # "codex_hooks"
  BY <1>1 DEF WellFormed, AlreadyEnabled, Has
<1>3. /\ t \in Seq(Line) /\ Len(t) = n /\ \A i \in 1..n : t[i] = d[i]
      /\ Len(d) = l + 3 /\ \A i \in 1..l : d[i] = c[i]
      /\ d[l + 1] = "[features]" /\ d[l + 2] = "codex_hooks" /\ d[l + 3] = "= true"
  BY <1>1, LinesAdded
<1>4. d \in Seq(Line)
  BY <1>1, AdditionType, ConcatProperties
<1> HIDE DEF d, l, t
<1>5. DOMAIN d = 1..l + 3 /\ DOMAIN t = 1..n /\ n \in Nat /\ n <= l + 3
  <2>1. DOMAIN d = 1..Len(d) /\ DOMAIN t = 1..Len(t)
    BY <1>3, <1>4, LenProperties
  <2>2. n \in Nat /\ n <= l + 3
    BY <1>1 DEF l
  <2> QED
    BY <1>3, <2>1, <2>2
<1>6. \A i \in 1..l + 3 : d[i] = "codex_hooks" => i = l + 2
  <2> SUFFICES ASSUME NEW i \in 1..l + 3, d[i] = "codex_hooks"
               PROVE  i = l + 2
    OBVIOUS
  <2>1. i \in 1..l \/ i = l + 1 \/ i = l + 2 \/ i = l + 3
    BY <1>1
  <2> QED
    BY <1>2, <1>3, <2>1
<1>7. WellFormed(d)
  <2>1. l + 1 \in 1..l + 2
    BY <1>1
  <2> QED
    BY <1>3, <1>4, <1>5, <1>6, <2>1 DEF WellFormed, Once
<1>8. WellFormed(t)
  <2>1. \A i \in 1..n : t[i] = "codex_hooks" => i = l + 2
    <3> SUFFICES ASSUME NEW i \in 1..n, t[i] = "codex_hooks"
                 PROVE  i = l + 2
      OBVIOUS
    <3>1. i \in 1..l + 3
      BY <1>1, <1>5
    <3>2. d[i] = "codex_hooks"
      BY <1>3
    <3> QED
      BY <1>6, <3>1, <3>2
  <2>2. Once(t, "codex_hooks")
    BY <1>5, <2>1 DEF Once
  <2>3. ASSUME NEW i \in 1..n, t[i] = "codex_hooks"
        PROVE  \E j \in 1..i : t[j] = "[features]"
    <3>1. i = l + 2
      BY <2>1, <2>3
    <3>2. l + 1 \in 1..i /\ l + 1 \in 1..n
      BY <1>1, <1>5, <3>1
    <3>3. t[l + 1] = "[features]"
      BY <1>3, <3>2
    <3> QED
      BY <3>2, <3>3
  <2> QED
    BY <1>3, <1>5, <2>2, <2>3 DEF WellFormed
<1> QED
  BY <1>7, <1>8 DEF d, t

LEMMA AdditionEnables ==
  ASSUME NEW c, WellFormed(c), ~Has(c, "[features]")
  PROVE  HooksEnabled(c \o Addition)
<1> DEFINE d == c \o Addition
           l == Len(c)
<1>1. c \in Seq(Line) /\ l \in Nat /\ DOMAIN c = 1..l
  BY DEF WellFormed
<1>2. \A i \in 1..l : c[i] # "[features]" /\ c[i] # "codex_hooks"
  BY <1>1 DEF WellFormed, Has
<1>3. /\ Len(d) = l + 3 /\ \A i \in 1..l : d[i] = c[i]
      /\ d[l + 1] = "[features]" /\ d[l + 2] = "codex_hooks" /\ d[l + 3] = "= true"
  <2>1. 0 \in 0..Len(c) + 3
    BY <1>1
  <2> QED
    BY <1>1, <2>1, LinesAdded
<1>4. d \in Seq(Line)
  BY <1>1, AdditionType, ConcatProperties
<1> HIDE DEF d, l
<1>5. DOMAIN d = 1..l + 3 /\ Len(d) - 1 = l + 2
  <2>1. DOMAIN d = 1..Len(d)
    BY <1>4, LenProperties
  <2>2. Len(d) = l + 3 /\ l \in Nat
    BY <1>1, <1>3
  <2>3. (l + 3) - 1 = l + 2
    BY <2>2
  <2> QED
    BY <2>1, <2>2, <2>3
<1>6. \A i \in 1..l + 3 : /\ d[i] = "[features]" => i = l + 1
                          /\ d[i] = "codex_hooks" => i = l + 2
  <2> SUFFICES ASSUME NEW i \in 1..l + 3
               PROVE  (d[i] = "[features]" => i = l + 1) /\ (d[i] = "codex_hooks" => i = l + 2)
    OBVIOUS
  <2>1. i \in 1..l \/ i = l + 1 \/ i = l + 2 \/ i = l + 3
    BY <1>1
  <2> QED
    BY <1>2, <1>3, <2>1
<1>7. l + 2 \in 1..l + 2 /\ l + 1 \in 1..l + 2 /\ (l + 2) + 1 = l + 3
  BY <1>1
<1>8. Once(d, "[features]")
  BY <1>5, <1>6 DEF Once
<1>9. \E i \in 1..Len(d) - 1 : d[i] = "codex_hooks" /\ d[i + 1] = "= true"
  BY <1>3, <1>5, <1>7
<1>10. \A i \in DOMAIN d : d[i] = "codex_hooks" => \E j \in 1..i : d[j] = "[features]"
  BY <1>3, <1>5, <1>6, <1>7
<1>11. HooksEnabled(d)
  BY <1>8, <1>9, <1>10 DEF HooksEnabled
<1> QED
  BY <1>11 DEF d

-----------------------------------------------------------------------------
InstallTypes ==
  /\ script \in [Events -> {"absent", "torn", "whole"}]
  /\ hooks \in {NoJson("absent"), NoJson("torn"), Json({"woclaw"})} \cup UserJson
  /\ setup \in [run : {"none"}, at : {0}] \cup [run : {"install"}, at : 1..5]
               \cup [run : {"uninstall"}, at : 1..4]
  /\ runs \in 0..MaxRuns /\ edits \in 0..MaxEdits
  /\ reported \in {"nothing", "installed", "uninstalled"}
  /\ removing \in BOOLEAN /\ plain \in BOOLEAN

(* The installer has done what comes before its next step. *)
Progress ==
  /\ setup.run = "install" => \A n \in 1..3 : n < setup.at => script[InstallOrder[n]] = "whole"
  /\ setup = [run |-> "install", at |-> 5] => hooks = Json({"woclaw"})
  /\ setup.run = "uninstall" => removing
  /\ reported # "nothing" => setup = Idle

PlainIsEnabled == plain => ~Has(config, "[features]") \/ HooksEnabled(config)

InstallInv ==
  /\ InstallTypes /\ WellFormed(config) /\ PlainIsEnabled
  /\ Progress /\ NamedScriptsExist /\ InstalledMeansInstalled

installVars == <<files, setup, runs, edits, reported, removing, plain>>

LEMMA ScriptSteps ==
  /\ Events = {InstallOrder[n] : n \in 1..3}
  /\ \A m, n \in 1..5 : InstallOrder[m] = InstallOrder[n] => m = n
  /\ \A n \in 1..5 : /\ InstallOrder[n] \in Events => n \in 1..3
                     /\ InstallOrder[n] = "hooks" => n = 4
                     /\ InstallOrder[n] = "config" => n = 5
BY DEF Events, InstallOrder

(* While the installer goes on or dies, nothing was reported. *)
LEMMA SetupMoves ==
  ASSUME InstallInv, ~AtRest
  PROVE  /\ reported = "nothing"
         /\ Dies => setup' = Idle /\ reported' = "nothing"
         /\ setup.run = "install" \/ setup.run = "uninstall"
BY DEF InstallInv, InstallTypes, Progress, AtRest, Dies, Idle

LEMMA CopyKeeps ==
  ASSUME InstallInv, NEW e \in Events, CopyHook(e)
  PROVE  InstallInv'
<1>1. /\ setup.run = "install" /\ setup.at \in 1..5 /\ InstallOrder[setup.at] = e /\ ~AtRest
      /\ reported = "nothing" /\ reported' = "nothing"
      /\ UNCHANGED <<hooks, config, runs, edits, removing, plain>>
  BY DEF CopyHook, Installs, Goes, Dies, UnchangedBySetup, InstallInv, InstallTypes, Progress,
     AtRest, Idle
<1>2. setup.at \in 1..3
  BY <1>1, ScriptSteps
<1>3. /\ script'[e] # "absent" /\ script' \in [Events -> {"absent", "torn", "whole"}]
      /\ \A f \in Events \ {e} : script'[f] = script[f]
  BY DEF CopyHook, InstallInv, InstallTypes
<1>4. InstallTypes' /\ WellFormed(config)' /\ PlainIsEnabled'
  <2>1. setup' \in [run : {"none"}, at : {0}] \cup [run : {"install"}, at : 1..5]
    BY <1>1, <1>2 DEF CopyHook, Goes, Dies, Idle, InstallInv, InstallTypes
  <2> QED
    BY <1>1, <1>3, <2>1 DEF InstallInv, InstallTypes, PlainIsEnabled
<1>5. Progress'
  <2>1. CASE Goes /\ script' = [script EXCEPT ![e] = "whole"]
    <3>1. setup'.run = "install" /\ setup'.at = setup.at + 1 /\ setup'.at # 5
      BY <1>1, <1>2, <2>1 DEF Goes, InstallInv, InstallTypes
    <3>2. ASSUME NEW n \in 1..3, n < setup.at + 1
          PROVE  script'[InstallOrder[n]] = "whole"
      <4>1. CASE n = setup.at
        BY <1>1, <2>1, <4>1 DEF InstallInv, InstallTypes
      <4>2. CASE n < setup.at
        BY <1>1, <1>2, <1>3, <4>2, ScriptSteps DEF InstallInv, Progress
      <4> QED
        BY <1>2, <3>2, <4>1, <4>2
    <3> QED
      BY <1>1, <3>1, <3>2 DEF Progress
  <2>2. CASE Dies
    BY <1>1, <2>2 DEF Progress, Dies, Idle
  <2> QED
    BY <2>1, <2>2 DEF CopyHook
<1>6. NamedScriptsExist' /\ InstalledMeansInstalled'
  BY <1>1, <1>3 DEF InstallInv, NamedScriptsExist, InstalledMeansInstalled
<1> QED
  BY <1>4, <1>5, <1>6 DEF InstallInv

LEMMA HooksKeeps ==
  ASSUME InstallInv, CreateHooksJson
  PROVE  InstallInv'
<1>1. /\ setup.run = "install" /\ setup.at = 4
      /\ reported = "nothing" /\ reported' = "nothing"
      /\ UNCHANGED <<script, config, runs, edits, removing, plain>>
  <2>1. setup.run = "install" /\ setup.at \in 1..5 /\ InstallOrder[setup.at] = "hooks"
    BY DEF CreateHooksJson, Installs, InstallInv, InstallTypes
  <2> QED
    BY <2>1, ScriptSteps DEF CreateHooksJson, Goes, Dies, UnchangedBySetup, InstallInv, Progress, Idle
<1>2. \A e \in Events : script[e] = "whole"
  BY <1>1, ScriptSteps DEF InstallInv, Progress
<1>3. /\ hooks' \in {NoJson("torn"), Json({"woclaw"})}
      /\ \/ setup' = Idle
         \/ setup' = [run |-> "install", at |-> 5] /\ hooks' = Json({"woclaw"})
  BY <1>1 DEF CreateHooksJson, Goes, Dies, InstallInv, InstallTypes
<1>4. InstallTypes' /\ WellFormed(config)' /\ PlainIsEnabled'
  BY <1>1, <1>3 DEF InstallInv, InstallTypes, PlainIsEnabled, Idle
<1>5. Progress'
  BY <1>1, <1>2, <1>3, ScriptSteps DEF Progress, Idle
<1>6. NamedScriptsExist' /\ InstalledMeansInstalled'
  BY <1>1, <1>2 DEF NamedScriptsExist, InstalledMeansInstalled
<1> QED
  BY <1>4, <1>5, <1>6 DEF InstallInv

LEMMA ConfigKeeps ==
  ASSUME InstallInv, UpdateConfigToml
  PROVE  InstallInv'
<1>1. /\ setup.run = "install" /\ setup.at = 5 /\ reported = "nothing" /\ setup' = Idle
      /\ UNCHANGED <<script, hooks, runs, edits>>
  <2>1. setup.run = "install" /\ setup.at \in 1..5 /\ InstallOrder[setup.at] = "config"
    BY DEF UpdateConfigToml, Installs, InstallInv, InstallTypes
  <2> QED
    BY <2>1, ScriptSteps DEF UpdateConfigToml, Reports, Dies, UnchangedBySetup, InstallInv, Progress, Idle
<1>2. (\A e \in Events : script[e] = "whole") /\ hooks = Json({"woclaw"})
  <2>1. setup = [run |-> "install", at |-> 5]
    BY <1>1 DEF InstallInv, InstallTypes
  <2> QED
    BY <1>1, <2>1, ScriptSteps DEF InstallInv, Progress
<1>3. /\ WellFormed(config') /\ PlainIsEnabled' /\ removing' \in BOOLEAN /\ plain' \in BOOLEAN
      /\ reported' \in {"nothing", "installed"}
      /\ reported' = "installed" /\ plain' => HooksEnabled(config')
  <2>0. WellFormed(config) /\ PlainIsEnabled /\ removing \in BOOLEAN /\ plain \in BOOLEAN
    BY DEF InstallInv, InstallTypes
  <2>1. CASE AlreadyEnabled(config)
    <3>1. config' = config /\ plain' = plain /\ removing' = FALSE /\ reported' = "installed"
      BY <2>1 DEF UpdateConfigToml, Reports
    <3> QED
      BY <2>0, <2>1, <3>1 DEF PlainIsEnabled, AlreadyEnabled
  <2>2. CASE ~AlreadyEnabled(config) /\ config' = config \o Addition
             /\ Reports("installed") /\ removing' = FALSE /\ UNCHANGED plain
    <3>1. WellFormed(config')
      <4>1. 0 \in 0..Len(config) + 3
        BY <2>0, LenProperties DEF WellFormed
      <4> QED
        BY <2>0, <2>2, <4>1, ConfigStaysWellFormed
    <3>2. plain => HooksEnabled(config')
      <4>1. CASE ~Has(config, "[features]")
        BY <2>0, <2>2, <4>1, AdditionEnables
      <4>2. CASE Has(config, "[features]")
        <5>1. DOMAIN config = 1..Len(config) /\ Len(config) \in Nat
          BY <2>0, LenProperties DEF WellFormed
        <5>2. HooksEnabled(config) => Has(config, "codex_hooks")
          <6> SUFFICES ASSUME HooksEnabled(config) PROVE Has(config, "codex_hooks")
            OBVIOUS
          <6>1. PICK i \in 1..Len(config) - 1 : config[i] = "codex_hooks"
            BY DEF HooksEnabled
          <6>2. i \in DOMAIN config
            BY <5>1
          <6> QED
            BY <6>1, <6>2 DEF Has
        <5> QED
          BY <2>0, <2>2, <4>2, <5>2 DEF PlainIsEnabled, AlreadyEnabled
      <4> QED
        BY <4>1, <4>2
    <3> QED
      BY <2>0, <2>2, <3>1, <3>2 DEF PlainIsEnabled, Reports
  <2>3. CASE /\ ~AlreadyEnabled(config)
             /\ \E n \in 0..Len(config) + 2 : config' = SubSeq(config \o Addition, 1, n)
             /\ Dies /\ plain' = FALSE /\ UNCHANGED removing
    <3>1. PICK n \in 0..Len(config) + 2 : config' = SubSeq(config \o Addition, 1, n)
      BY <2>3
    <3>2. n \in 0..Len(config) + 3
      BY <2>0, LenProperties DEF WellFormed
    <3>3. WellFormed(config')
      BY <2>0, <2>3, <3>1, <3>2, ConfigStaysWellFormed
    <3> QED
      BY <1>1, <2>0, <2>3, <3>3 DEF PlainIsEnabled, Dies
  <2> QED
    BY <2>1, <2>2, <2>3 DEF UpdateConfigToml
<1>4. InstallTypes'
  BY <1>1, <1>3 DEF InstallInv, InstallTypes, Idle
<1>5. Progress'
  BY <1>1 DEF Progress, Idle
<1>6. NamedScriptsExist' /\ InstalledMeansInstalled'
  BY <1>1, <1>2, <1>3 DEF NamedScriptsExist, InstalledMeansInstalled
<1> QED
  BY <1>3, <1>4, <1>5, <1>6 DEF InstallInv

LEMMA UninstallKeeps ==
  ASSUME InstallInv, RemoveScript \/ CleanHooksJson
  PROVE  InstallInv'
<1>1. /\ setup.run = "uninstall" /\ setup.at \in 1..4 /\ removing /\ reported = "nothing"
      /\ UNCHANGED <<config, runs, edits, removing, plain>>
  BY DEF RemoveScript, CleanHooksJson, UnchangedBySetup, InstallInv, InstallTypes, Progress, Idle
<1>2. /\ script' \in [Events -> {"absent", "torn", "whole"}]
      /\ hooks' \in {NoJson("absent"), NoJson("torn"), Json({"woclaw"})} \cup UserJson
  <2>1. hooks.file = "json" => hooks \in {Json({"woclaw"})} \cup UserJson
    BY JsonType DEF InstallInv, InstallTypes
  <2>2. CASE RemoveScript
    BY <2>2 DEF RemoveScript, InstallInv, InstallTypes
  <2>3. CASE CleanHooksJson
    BY <2>1, <2>3, UninstallKeepsJson DEF CleanHooksJson, InstallInv, InstallTypes
  <2> QED
    BY <2>2, <2>3
<1>3. /\ \/ setup' = Idle
         \/ setup' \in [run : {"uninstall"}, at : 1..4] /\ reported' = "nothing"
      /\ reported' \in {"nothing", "uninstalled"}
  <2>1. CASE RemoveScript
    <3>1. setup.at \in 1..3 /\ setup' = [setup EXCEPT !.at = @ + 1] /\ reported' = reported
      BY <2>1 DEF RemoveScript, Goes
    <3>2. setup \in [run : {"uninstall"}, at : 1..4]
      BY <1>1 DEF InstallInv, InstallTypes
    <3>3. setup.at + 1 \in 1..4
      BY <3>1
    <3> QED
      BY <1>1, <3>1, <3>2, <3>3
  <2>2. CASE CleanHooksJson
    BY <1>1, <2>2 DEF CleanHooksJson, Dies, Reports
  <2> QED
    BY <2>1, <2>2
<1>4. InstallTypes' /\ WellFormed(config)' /\ PlainIsEnabled'
  BY <1>1, <1>2, <1>3 DEF InstallInv, InstallTypes, PlainIsEnabled, Idle
<1>5. Progress' /\ NamedScriptsExist' /\ InstalledMeansInstalled'
  BY <1>1, <1>3 DEF Progress, Idle, NamedScriptsExist, InstalledMeansInstalled
<1> QED
  BY <1>4, <1>5 DEF InstallInv

(* An installer starts or is killed, or the user edits a file. *)
LEMMA OtherKeeps ==
  ASSUME InstallInv,
         (\E run \in {"install", "uninstall"} : StartSetup(run)) \/ SetupKilled \/ UserEdits
  PROVE  InstallInv'
<1>1. CASE \E run \in {"install", "uninstall"} : StartSetup(run)
  <2>1. PICK run \in {"install", "uninstall"} : StartSetup(run)
    BY <1>1
  <2>2. /\ setup' = [run |-> run, at |-> 1] /\ reported' = "nothing"
        /\ removing' = (removing \/ run = "uninstall")
        /\ UNCHANGED <<script, hooks, config, edits, plain>> /\ runs' \in 0..MaxRuns
    BY <2>1, HooksAssumption DEF StartSetup, files, InstallInv, InstallTypes
  <2>3. InstallTypes' /\ WellFormed(config)' /\ PlainIsEnabled'
    BY <2>2 DEF InstallInv, InstallTypes, PlainIsEnabled
  <2>4. setup'.at = 1 /\ setup'.run = run /\ setup' # [run |-> "install", at |-> 5]
    BY <2>2
  <2>5. Progress'
    <3>1. \A n \in 1..3 : ~(n < 1)
      OBVIOUS
    <3>2. setup'.run = "uninstall" => removing'
      BY <2>2, <2>4
    <3> QED
      BY <2>2, <2>4, <3>1, <3>2 DEF Progress
  <2>6. NamedScriptsExist' /\ InstalledMeansInstalled'
    BY <2>2 DEF InstallInv, NamedScriptsExist, InstalledMeansInstalled
  <2> QED
    BY <2>3, <2>5, <2>6 DEF InstallInv
<1>2. CASE SetupKilled
  <2>1. setup' = Idle /\ reported' = "nothing"
        /\ UNCHANGED <<script, hooks, config, runs, edits, removing, plain>>
    BY <1>2, SetupMoves DEF SetupKilled, Dies, files, UnchangedBySetup
  <2> QED
    BY <2>1 DEF InstallInv, InstallTypes, PlainIsEnabled, Progress, NamedScriptsExist,
       InstalledMeansInstalled, Idle
<1>3. CASE UserEdits
  <2>1. /\ reported' = "nothing" /\ setup' = setup /\ setup = Idle /\ edits' \in 0..MaxEdits
        /\ UNCHANGED <<script, runs, removing>>
    BY <1>3, HooksAssumption DEF UserEdits, AtRest, InstallInv, InstallTypes
  <2>2. /\ WellFormed(config') /\ PlainIsEnabled' /\ plain' \in BOOLEAN
        /\ hooks' = hooks \/ hooks' \in UserJson
    <3>1. CASE /\ config' \in UserConfig /\ plain' = ~Has(config', "[features]")
               /\ UNCHANGED hooks
      BY <3>1, HooksAssumption DEF PlainIsEnabled
    <3>2. CASE hooks' \in UserJson /\ UNCHANGED <<config, plain>>
      BY <3>2 DEF PlainIsEnabled, InstallInv, InstallTypes
    <3> QED
      BY <1>3, <3>1, <3>2 DEF UserEdits
  <2>3. NamedScriptsExist'
    BY <2>1, <2>2, JsonType DEF InstallInv, NamedScriptsExist
  <2> QED
    BY <2>1, <2>2, <2>3 DEF InstallInv, InstallTypes, Progress, Idle, InstalledMeansInstalled
<1> QED
  BY <1>1, <1>2, <1>3

-----------------------------------------------------------------------------
HubTypes ==
  /\ second \in Second
  /\ session \in [Session -> [stage : {"new", "open", "ended"},
                              answer : Session \cup {None},
                              got : Session \cup {None}]]
  /\ memory \in [Key -> Session \cup DOMAIN made \cup {None}]
  /\ late \subseteq Key \X (Session \cup DOMAIN made)
  /\ made \in Seq([at : Second, told : BOOLEAN]) /\ Len(made) <= MaxSent
  /\ removed \subseteq DOMAIN made

SentAt(n) == {p \in DOMAIN made : made[p].at = n}

(* Under a checkpoint's key there are checkpoints of its second, now and     *)
(* when a late write lands.                                                *)
Filed ==
  /\ memory[Context] \in Session \cup {None}
  /\ \A n \in Second : memory[CheckpointKey(n)] \in SentAt(n) \cup {None}
  /\ \A w \in late : /\ w[1] = Context => w[2] \in Session
                     /\ \A n \in Second : w[1] = CheckpointKey(n) => w[2] \in SentAt(n)

(* CheckpointsKept, with the key. *)
KeptByKey ==
  \A p \in DOMAIN made : made[p].told =>
      \/ memory[CheckpointKey(made[p].at)] = p
      \/ p \in removed
      \/ \E q \in SentAt(made[p].at) : q # p

HubInv == HubTypes /\ Filed /\ KeptByKey

hubVars == <<second, session, memory, late, made, removed>>

LEMMA Keys ==
  /\ Context \in Key
  /\ \A n \in Second : CheckpointKey(n) \in Key /\ CheckpointKey(n) # Context
  /\ \A m, n \in Second : CheckpointKey(m) = CheckpointKey(n) => m = n
  /\ \A k \in Key : k = Context \/ \E n \in Second : k = CheckpointKey(n)
BY DEF Context, Key, CheckpointKey

LEMMA MadeAt ==
  ASSUME HubTypes, NEW p \in DOMAIN made
  PROVE  made[p].at \in Second /\ made[p].told \in BOOLEAN
<1>1. made \in Seq([at : Second, told : BOOLEAN])
  BY DEF HubTypes
<1>2. made[p] \in [at : Second, told : BOOLEAN]
  BY <1>1, LenProperties, ElementOfSeq
<1> QED
  BY <1>2

LEMMA SessionKeeps ==
  ASSUME HubInv, NEW s \in Session, StartSession(s) \/ StopSession(s)
  PROVE  HubInv'
<1>1. UNCHANGED <<second, made, removed>>
  BY DEF StartSession, StopSession, hub
<1>2. session' \in [Session -> [stage : {"new", "open", "ended"},
                                answer : Session \cup {None}, got : Session \cup {None}]]
  <2>1. memory[Context] \in Session \cup {None} /\ ReadMemory(MemoryGet) \in Session \cup {None}
    BY DEF HubInv, Filed, ReadMemory, MemoryGet
  <2> QED
    BY <2>1 DEF StartSession, StopSession, HubInv, HubTypes
<1>3. /\ memory' = memory \/ memory' = [memory EXCEPT ![Context] = s]
      /\ late' = late \/ late' = late \cup {<<Context, s>>}
  BY DEF StartSession, StopSession, Post, hub
<1>4. HubTypes'
  BY <1>1, <1>2, <1>3, Keys DEF HubInv, HubTypes
<1>5. /\ \A n \in Second : memory'[CheckpointKey(n)] = memory[CheckpointKey(n)]
      /\ memory'[Context] \in Session \cup {None}
  BY <1>3, Keys DEF HubInv, HubTypes, Filed
<1>6. Filed'
  BY <1>1, <1>3, <1>5, Keys DEF HubInv, Filed, SentAt
<1>7. KeptByKey'
  <2> SUFFICES ASSUME NEW p \in DOMAIN made, made[p].told
               PROVE  \/ memory'[CheckpointKey(made[p].at)] = p
                      \/ p \in removed
                      \/ \E q \in SentAt(made[p].at) : q # p
    BY <1>1 DEF KeptByKey, SentAt
  <2>1. made[p].at \in Second
    BY MadeAt DEF HubInv
  <2> QED
    BY <1>5, <2>1 DEF HubInv, KeptByKey
<1> QED
  BY <1>4, <1>6, <1>7 DEF HubInv

(* A checkpoint v of second n is stored, now or late. *)
LEMMA StoringKeeps ==
  ASSUME HubInv, HubTypes', NEW n \in Second, NEW v \in SentAt(n)',
         memory' = [memory EXCEPT ![CheckpointKey(n)] = v],
         \A p \in DOMAIN made : p \in DOMAIN made' /\ made'[p] = made[p],
         \A p \in DOMAIN made' : p \in DOMAIN made \/ p = v,
         removed' = removed
  PROVE  /\ KeptByKey'
         /\ memory'[Context] = memory[Context]
         /\ \A m \in Second : memory'[CheckpointKey(m)] \in SentAt(m)' \cup {None}
<1>1. \A m \in Second : /\ memory'[CheckpointKey(n)] = v
                        /\ m # n => memory'[CheckpointKey(m)] = memory[CheckpointKey(m)]
  BY Keys DEF HubInv, HubTypes
<1>2. memory'[Context] = memory[Context]
  BY Keys DEF HubInv, HubTypes
<1>3. \A m \in Second : SentAt(m) \subseteq SentAt(m)'
  BY DEF SentAt
<1>4. KeptByKey'
  <2> SUFFICES ASSUME NEW p \in DOMAIN made', made'[p].told
               PROVE  \/ memory'[CheckpointKey(made'[p].at)] = p
                      \/ p \in removed'
                      \/ \E q \in DOMAIN made' : q # p /\ made'[q].at = made'[p].at
    BY DEF KeptByKey, SentAt
  <2>1. made'[p].at \in Second
    <3>1. made' \in Seq([at : Second, told : BOOLEAN])
      BY DEF HubTypes
    <3>2. made'[p] \in [at : Second, told : BOOLEAN]
      BY <3>1, LenProperties, ElementOfSeq
    <3> QED
      BY <3>2
  <2>2. CASE made'[p].at = n
    <3>1. memory'[CheckpointKey(made'[p].at)] = v
      BY <1>1, <2>1, <2>2
    <3>2. v \in DOMAIN made' /\ made'[v].at = made'[p].at
      BY <2>2 DEF SentAt
    <3> QED
      BY <3>1, <3>2
  <2>3. CASE made'[p].at # n
    <3>1. p \in DOMAIN made /\ made'[p] = made[p]
      BY <2>3 DEF SentAt
    <3>2. memory'[CheckpointKey(made[p].at)] = memory[CheckpointKey(made[p].at)]
      BY <1>1, <2>1, <2>3, <3>1
    <3>3. \A q \in SentAt(made[p].at) : q \in DOMAIN made' /\ made'[q].at = made'[p].at
      BY <3>1 DEF SentAt
    <3> QED
      BY <3>1, <3>2, <3>3 DEF HubInv, KeptByKey
  <2> QED
    BY <2>2, <2>3
<1>5. \A m \in Second : memory'[CheckpointKey(m)] \in SentAt(m)' \cup {None}
  BY <1>1, <1>3 DEF HubInv, Filed
<1> QED
  BY <1>2, <1>4, <1>5

LEMMA PreCompactKeeps ==
  ASSUME HubInv, PreCompact
  PROVE  HubInv'
<1> DEFINE v == Len(made) + 1
<1>1. PICK told \in BOOLEAN : /\ Post(CheckpointKey(second), v, told)
                              /\ made' = Append(made, [at |-> second, told |-> told])
  BY DEF PreCompact
<1>2. second \in Second /\ UNCHANGED <<second, session, removed>> /\ Len(made) < MaxSent
  BY DEF PreCompact, HubInv, HubTypes
<1>3. made \in Seq([at : Second, told : BOOLEAN]) /\ DOMAIN made = 1..Len(made) /\ Len(made) \in Nat
  BY DEF HubInv, HubTypes
<1>4. /\ made' \in Seq([at : Second, told : BOOLEAN]) /\ DOMAIN made' = 1..v /\ Len(made') = v
      /\ v <= MaxSent
      /\ made'[v] = [at |-> second, told |-> told]
      /\ \A p \in DOMAIN made : made'[p] = made[p]
  BY <1>1, <1>2, <1>3, HooksAssumption
<1>5. /\ \A p \in DOMAIN made : p \in DOMAIN made'
      /\ \A p \in DOMAIN made' : p \in DOMAIN made \/ p = v
      /\ v \in DOMAIN made' /\ v \notin DOMAIN made
  BY <1>3, <1>4
<1>6. v \in SentAt(second)' /\ \A n \in Second : SentAt(n) \subseteq SentAt(n)'
  BY <1>2, <1>4, <1>5 DEF SentAt
<1>7. /\ late' \subseteq late \cup {<<CheckpointKey(second), v>>}
      /\ memory' = memory \/ memory' = [memory EXCEPT ![CheckpointKey(second)] = v]
  BY <1>1 DEF Post
<1>8. HubTypes'
  <2>1. Session \cup DOMAIN made \subseteq Session \cup DOMAIN made'
    BY <1>5
  <2>2. late' \subseteq Key \X (Session \cup DOMAIN made')
    BY <1>2, <1>5, <1>7, <2>1, Keys DEF HubInv, HubTypes
  <2>3. memory' \in [Key -> Session \cup DOMAIN made' \cup {None}]
    BY <1>2, <1>5, <1>7, <2>1, Keys DEF HubInv, HubTypes
  <2>4. removed' \subseteq DOMAIN made'
    BY <1>2, <1>5 DEF HubInv, HubTypes
  <2> QED
    BY <1>2, <1>4, <2>2, <2>3, <2>4 DEF HubInv, HubTypes
<1>9. \A w \in late' : /\ w[1] = Context => w[2] \in Session
                       /\ \A n \in Second : w[1] = CheckpointKey(n) => w[2] \in SentAt(n)'
  <2> SUFFICES ASSUME NEW w \in late'
               PROVE  /\ w[1] = Context => w[2] \in Session
                      /\ \A n \in Second : w[1] = CheckpointKey(n) => w[2] \in SentAt(n)'
    OBVIOUS
  <2>1. CASE w \in late
    BY <1>6, <2>1 DEF HubInv, Filed
  <2>2. CASE w = <<CheckpointKey(second), v>>
    BY <1>2, <1>6, <2>2, Keys
  <2> QED
    BY <1>7, <2>1, <2>2
<1>10. CASE told
  <2>1. memory' = [memory EXCEPT ![CheckpointKey(second)] = v]
    BY <1>1, <1>10 DEF Post
  <2> HIDE DEF v
  <2>2. /\ KeptByKey' /\ memory'[Context] = memory[Context]
        /\ \A m \in Second : memory'[CheckpointKey(m)] \in SentAt(m)' \cup {None}
    BY <1>2, <1>4, <1>5, <1>6, <1>8, <2>1, StoringKeeps
  <2> QED
    BY <1>8, <1>9, <2>2 DEF HubInv, Filed
<1>11. CASE ~told
  <2>1. memory' = memory
    BY <1>1, <1>11 DEF Post
  <2>2. Filed'
    BY <1>6, <1>9, <2>1 DEF HubInv, Filed
  <2>3. KeptByKey'
    <3> SUFFICES ASSUME NEW p \in DOMAIN made', made'[p].told
                 PROVE  \/ memory'[CheckpointKey(made'[p].at)] = p
                        \/ p \in removed'
                        \/ \E q \in DOMAIN made' : q # p /\ made'[q].at = made'[p].at
      BY DEF KeptByKey, SentAt
    <3>1. p \in DOMAIN made /\ made'[p] = made[p] /\ made[p].at \in Second
      BY <1>4, <1>5, <1>11, MadeAt DEF HubInv
    <3>2. \A q \in SentAt(made[p].at) : q \in DOMAIN made' /\ made'[q].at = made'[p].at
      BY <1>4, <1>5, <3>1 DEF SentAt
    <3> QED
      BY <1>2, <2>1, <3>1, <3>2 DEF HubInv, KeptByKey
  <2> QED
    BY <1>8, <2>2, <2>3 DEF HubInv
<1> QED
  BY <1>10, <1>11

LEMMA LandsKeeps ==
  ASSUME HubInv, NEW w \in late, Lands(w)
  PROVE  HubInv'
<1>1. /\ memory' = [memory EXCEPT ![w[1]] = w[2]] /\ late' = late \ {w}
      /\ UNCHANGED <<second, session, made, removed>>
      /\ w[1] \in Key /\ w[2] \in Session \cup DOMAIN made
  BY DEF Lands, HubInv, HubTypes
<1>2. HubTypes'
  BY <1>1 DEF HubInv, HubTypes
<1>3. \A n : SentAt(n)' = SentAt(n)
  BY <1>1 DEF SentAt
<1>4. CASE w[1] = Context
  <2>1. /\ \A n \in Second : memory'[CheckpointKey(n)] = memory[CheckpointKey(n)]
        /\ memory'[Context] \in Session
    BY <1>1, <1>4, Keys DEF HubInv, HubTypes, Filed
  <2>2. Filed'
    BY <1>1, <1>3, <2>1 DEF HubInv, Filed
  <2>3. KeptByKey'
    <3> SUFFICES ASSUME NEW p \in DOMAIN made, made[p].told
                 PROVE  \/ memory'[CheckpointKey(made[p].at)] = p
                        \/ p \in removed
                        \/ \E q \in SentAt(made[p].at) : q # p
      BY <1>1 DEF KeptByKey, SentAt
    <3>1. made[p].at \in Second
      BY MadeAt DEF HubInv
    <3> QED
      BY <2>1, <3>1 DEF HubInv, KeptByKey
  <2> QED
    BY <1>2, <2>2, <2>3 DEF HubInv
<1>5. CASE w[1] # Context
  <2>1. PICK n \in Second : w[1] = CheckpointKey(n)
    BY <1>1, <1>5, Keys
  <2>2. w[2] \in SentAt(n)'
    BY <1>3, <2>1 DEF HubInv, Filed
  <2>3. /\ KeptByKey' /\ memory'[Context] = memory[Context]
        /\ \A m \in Second : memory'[CheckpointKey(m)] \in SentAt(m)' \cup {None}
    BY <1>1, <1>2, <2>1, <2>2, StoringKeeps
  <2>4. Filed'
    BY <1>1, <1>3, <2>3 DEF HubInv, Filed
  <2> QED
    BY <1>2, <2>3, <2>4 DEF HubInv
<1> QED
  BY <1>4, <1>5

LEMMA RemovedKeeps ==
  ASSUME HubInv, NEW k \in Key, Removed(k)
  PROVE  HubInv'
<1>1. /\ memory' = [memory EXCEPT ![k] = None]
      /\ removed' = removed \cup ({memory[k]} \cap DOMAIN made)
      /\ UNCHANGED <<second, session, late, made>>
  BY DEF Removed
<1>2. HubTypes'
  BY <1>1 DEF HubInv, HubTypes
<1>3. \A n : SentAt(n)' = SentAt(n)
  BY <1>1 DEF SentAt
<1>4. Filed'
  BY <1>1, <1>3, Keys DEF HubInv, HubTypes, Filed
<1>5. KeptByKey'
  <2> SUFFICES ASSUME NEW p \in DOMAIN made, made[p].told
               PROVE  \/ memory'[CheckpointKey(made[p].at)] = p
                      \/ p \in removed'
                      \/ \E q \in SentAt(made[p].at) : q # p
    BY <1>1 DEF KeptByKey, SentAt
  <2>1. CheckpointKey(made[p].at) \in Key
    BY MadeAt, Keys DEF HubInv
  <2>2. CASE memory[CheckpointKey(made[p].at)] = p
    BY <1>1, <2>1, <2>2 DEF HubInv, HubTypes
  <2>3. CASE memory[CheckpointKey(made[p].at)] # p
    BY <1>1, <2>3 DEF HubInv, KeptByKey
  <2> QED
    BY <2>2, <2>3
<1> QED
  BY <1>2, <1>4, <1>5 DEF HubInv

-----------------------------------------------------------------------------
HooksInv == InstallInv /\ HubInv

LEMMA HooksInitially == Init => HooksInv
<1> SUFFICES ASSUME Init PROVE HooksInv
  OBVIOUS
<1>1. InstallTypes /\ WellFormed(config)
  <2>1. hooks \in {NoJson("absent")} \cup UserJson
    <3>1. [e \in Events |-> {"user"}] \in [Events -> SUBSET {"user"}]
      OBVIOUS
    <3> QED
      BY <3>1 DEF Init, Json, UserJson
  <2>2. /\ script \in [Events -> {"absent", "torn", "whole"}]
        /\ setup \in [run : {"none"}, at : {0}]
        /\ runs \in 0..MaxRuns /\ edits \in 0..MaxEdits /\ WellFormed(config)
    BY HooksAssumption DEF Init
  <2>3. /\ reported \in {"nothing", "installed", "uninstalled"} /\ removing \in BOOLEAN
        /\ plain \in BOOLEAN
    BY DEF Init, Has
  <2> QED
    BY <2>1, <2>2, <2>3 DEF InstallTypes
<1>2. PlainIsEnabled /\ Progress /\ InstalledMeansInstalled
  BY DEF Init, PlainIsEnabled, Progress, InstalledMeansInstalled, Idle
<1>3. NamedScriptsExist
  BY JsonType DEF Init, NamedScriptsExist, Json
<1>4. HubTypes
  BY HooksAssumption DEF Init, HubTypes, Second
<1>5. Filed /\ KeptByKey
  BY Keys DEF Init, Filed, KeptByKey
<1> QED
  BY <1>1, <1>2, <1>3, <1>4, <1>5 DEF HooksInv, InstallInv, HubInv

LEMMA InstallUnchanged == InstallInv /\ UNCHANGED installVars => InstallInv'
BY DEF installVars, files, InstallInv, InstallTypes, PlainIsEnabled, Progress, NamedScriptsExist,
   InstalledMeansInstalled

LEMMA HubUnchanged == HubInv /\ UNCHANGED hubVars => HubInv'
BY DEF hubVars, HubInv, HubTypes, Filed, KeptByKey, SentAt

THEOREM HooksInvariant == Spec => []HooksInv
<1>1. HooksInv /\ [Next]_vars => HooksInv'
  <2> SUFFICES ASSUME HooksInv, [Next]_vars PROVE HooksInv'
    OBVIOUS
  <2>0. InstallInv /\ HubInv
    BY DEF HooksInv
  <2>1. CASE \/ \E run \in {"install", "uninstall"} : StartSetup(run)
             \/ (\E e \in Events : CopyHook(e)) \/ CreateHooksJson \/ UpdateConfigToml
             \/ RemoveScript \/ CleanHooksJson \/ SetupKilled \/ UserEdits
    <3>1. UNCHANGED hubVars
      BY <2>1 DEF StartSetup, CopyHook, CreateHooksJson, UpdateConfigToml, RemoveScript,
         CleanHooksJson, SetupKilled, UserEdits, UnchangedBySetup, hub, hubVars
    <3>2. InstallInv'
      BY <2>0, <2>1, CopyKeeps, HooksKeeps, ConfigKeeps, UninstallKeeps, OtherKeeps
    <3> QED
      BY <2>0, <3>1, <3>2, HubUnchanged DEF HooksInv
  <2>2. CASE \/ \E s \in Session : StartSession(s) \/ StopSession(s)
             \/ PreCompact \/ (\E w \in late : Lands(w)) \/ \E k \in Key : Removed(k)
    <3>1. UNCHANGED installVars
      BY <2>2 DEF StartSession, StopSession, PreCompact, Lands, Removed, UnchangedBySession,
         installVars
    <3>2. HubInv'
      BY <2>0, <2>2, SessionKeeps, PreCompactKeeps, LandsKeeps, RemovedKeeps
    <3> QED
      BY <2>0, <3>1, <3>2, InstallUnchanged DEF HooksInv
  <2>3. CASE Tick
    <3>1. UNCHANGED installVars /\ second' \in Second
          /\ UNCHANGED <<session, memory, late, made, removed>>
      BY <2>3 DEF Tick, UnchangedBySession, installVars, hub
    <3>2. HubInv'
      BY <2>0, <3>1 DEF HubInv, HubTypes, Filed, KeptByKey, SentAt
    <3> QED
      BY <2>0, <3>1, <3>2, InstallUnchanged DEF HooksInv
  <2>4. CASE UNCHANGED vars
    BY <2>0, <2>4, InstallUnchanged, HubUnchanged DEF HooksInv, vars, files, hub, installVars, hubVars
  <2> QED
    BY <2>1, <2>2, <2>3, <2>4 DEF Next
<1> QED
  BY <1>1, HooksInitially, PTL DEF Spec

(* Files, installer, sessions and the hub's memory keep their types. *)
THEOREM HooksTyping == Spec => []HooksTypeOK
<1>1. HooksInv => HooksTypeOK
  BY DEF HooksInv, InstallInv, HubInv, InstallTypes, HubTypes, Filed, WellFormed, HooksTypeOK
<1> QED
  BY <1>1, HooksInvariant, PTL

(* Through any number of installs and interruptions, and until something is  *)
(* uninstalled, hooks.json names no script that is not there.               *)
THEOREM NamedScriptsExistHolds == Spec => []NamedScriptsExist
<1>1. HooksInv => NamedScriptsExist
  BY DEF HooksInv, InstallInv
<1> QED
  BY <1>1, HooksInvariant, PTL

(* An install that reports success has put everything in its place, whatever *)
(* was there before, for every config.toml a user may have written.         *)
THEOREM InstalledMeansInstalledHolds == Spec => []InstalledMeansInstalled
<1>1. HooksInv => InstalledMeansInstalled
  BY DEF HooksInv, InstallInv
<1> QED
  BY <1>1, HooksInvariant, PTL

(* install.py never sets codex_hooks a second time. *)
THEOREM SetOnceHolds == Spec => []SetOnce
<1>1. HooksInv => SetOnce
  BY DEF HooksInv, InstallInv, WellFormed, SetOnce
<1> QED
  BY <1>1, HooksInvariant, PTL

(* A checkpoint that was reported saved outlives whatever is stored later or *)
(* lands late, but the removal of its row and a checkpoint that was sent in  *)
(* the same second of the local time.                                      *)
THEOREM CheckpointsKeptHolds == Spec => []CheckpointsKept
<1>1. ASSUME HooksInv PROVE CheckpointsKept
  <2> SUFFICES ASSUME NEW p \in DOMAIN made, made[p].told
               PROVE  \/ \E k \in Key : memory[k] = p
                      \/ p \in removed
                      \/ \E q \in DOMAIN made : q # p /\ made[q].at = made[p].at
    BY DEF CheckpointsKept
  <2>1. CheckpointKey(made[p].at) \in Key
    BY <1>1, MadeAt, Keys DEF HooksInv, HubInv
  <2> QED
    BY <1>1, <2>1 DEF HooksInv, HubInv, KeptByKey, SentAt
<1> QED
  BY <1>1, HooksInvariant, PTL

=============================================================================
